# Verification of the Marlais interpreter

Marlais is an interpreter for the language Dylan, written in C with a library in
Dylan (`src/src/init.dylan`). This directory holds TLA+ models of the parts of it
that keep state over calls, TLC configurations that check them on small instances,
and proofs for TLAPS. Paths below are relative to the root of the repository; line
numbers are those of the commit the models were written from.

The models follow the default build: `OPTIMIZE_TAIL_CALLS`, `USE_METHOD_CACHING`,
`SMALL_OBJECTS` and the L\*Loops precedence lists are on in `src/src/Makefile`,
`NO_LOADING_LIBRARIES` is not defined.

## 1. Inventory

The interpreter is one sequential program. There are no threads, and only one form is
evaluated at a time; what makes it hard is that control does not nest. A tail call, an
exit procedure and an error leave C functions by `longjmp`, in the middle of what they
had to undo, and each of them restores another part of the global state. The second
difficulty is that nearly everything may be changed by the program while it is in
use: methods are added while a call of the generic function is in progress, names are
redefined while other modules share their cells, a class is redefined while its
subclasses exist, a deque or a table changes while it is iterated over, and lists share
the pairs they are made of.

| component | source | state it keeps | operations |
|---|---|---|---|
| types | class.c 905-1180 | none | `instance`, `subtype` |
| method ordering | function.c 1070-1290 | none | `specializer_compare`, `sort_methods`, the groups and the chain |
| generic functions | function.c, apply.c | method list, method cache, handles, list of active next-methods; the next-method objects | `define method`, `add-method`, `remove-method`, application, `next-method`, return |
| evaluator | eval.c, apply.c | `eval_stack`, `ResultValueStack`, the C stack | combinations, tail calls, checks of result types |
| exits and cleanups | env.c, syntax.c, dylan.y | entries of `eval_stack` | `bind-exit`, `unwind-protect`, `block`, exit procedures |
| errors, conditions | error.c, main.c, init.dylan | the prompt's `jmp_buf`, the depth of debugger loops | `error`, `signal` (both end in the same jump), nested debugger loops |
| modules and bindings | env.c, syntax.c | modules, chains of bindings, cells, `the_env`, `the_current_module` | `define`, assignment, `define module`, `set-module`, import |
| loading | file.c, main.c, dylan.l | the list of loads, `cache_env` | `load`, module headers, the prompt |
| lexical environments | env.c, apply.c | `the_env`, the chain of frames, frames kept by methods | `push_scope`, `pop_scope`, `add_local`, lookup, `modify_value` |
| special forms | syntax.c, dylan.y | the parser's `binding_stack` | bodies, `let`, `local`, conditionals, `case`, `select`, loops, `method`, parameters |
| precedence lists | classprec-ll.c | none (counts during a walk) | `compute_class_precedence_list` |
| classes and instances | class.c, slot.c, syntax.c | class objects, their slot lists, `uninit` flags, getter methods | `define class`, `make`, `seal` |
| deques | deque.c, init.dylan | entries and links | `push`, `pop`, `push-last`, `pop-last`, `element`, iteration |
| hash tables | table.c | a fixed number of rows of entries; no entry is ever removed | `element`, setter, iteration; use by content for the method cache |
| lists | list.c, init.dylan | pairs, which lists may share | constructors, searches, `reverse!`, `append!`, `union`, `list_length` and the like |
| vectors, ranges, arrays | vector.c, array.c, init.dylan | the elements, or how they are computed | access, `sort`, `copy-sequence`, `replace-subsequence!`, `reverse!` |
| strings, characters, values | bytestring.c, character.c, values.c | the elements | access |
| numbers, symbols | number.c, symbol.c | the symbol table | arithmetic, interning |
| reader and printer | dylan.l, dylan.y, read.c, print.c | input position | parsing, formatting |
| input and output, foreign functions, memory | stream.c, sys.c, foreign.c, alloc.c | operating system's | |

How they meet:

* a *combination* (`eval_combination`) pushes an entry on `eval_stack` and a type on
  `ResultValueStack`, evaluates operator and operands, and applies. Application of a
  generic function goes through method ordering and the cache; application of a
  method binds parameters, evaluates the body, and hands its last form back to the
  combination by `longjmp` (`tail_eval`);
* a *next-method object* is put on the list of its generic function when a method is
  applied and taken off when it returns; tail calls and exits skip that;
  `add_method` invalidates all objects of the list;
* `block` is expanded by the parser into `bind-exit` and `unwind-protect`. An exit
  procedure walks down `eval_stack`, running cleanups it meets;
* an error ends at the prompt (`main.c`), which starts with an empty `eval_stack` and
  with the environment of the previous prompt;
* a use clause copies the bindings of another module, which share its cells; when
  both sides hold generic functions their methods are merged;
* the parser counts the declarations of each body and hands the count to the form it
  builds; the evaluator pops that many frames. A method keeps the frame it was made in,
  and a tail call leaves the restoring of the environment to the combination it goes
  back to;
* the method cache of a generic function is a hash table, and the iteration protocols of
  all collections are functions that `for` calls;
* `define class` makes the class; `make` of the first instance makes the methods of
  its getters, and those of the classes above it, by `add_method`.

The behaviours that are hard to test, each with its line and with the properties that
would show it going wrong, are listed under "hazards" in PROJECT.json. What would make
each component correct:

* *dispatch*: a call runs the most specific method whatever was cached before; a cache
  entry never leads to a method the generic function no longer has; `next-method` goes
  strictly down and ends; an activation's next-method can be invalidated as long as
  the activation lasts;
* *control*: each combination finds its result type; cleanups run whenever their block
  is left, and once; a value has the types declared by all methods it is the value of;
* *modules*: what is not exported is invisible everywhere; constants stay what they
  are, wherever they are imported; merging loses no method;
* *classes*: precedence lists are complete and monotonic (they are not always, see "Where code and
  documents disagree"); a getter reads the place where the instance has the slot;
* *deques*: the links implement a sequence, also while they are iterated over;
* *forms and environments*: the value of an expression and its effect depend on its text
  and on what the variables it can see hold, and every scope that is entered is left (there are
  exceptions, see "Where code and documents disagree");
* *tables*: a function from contents of keys to values; a loop gives each entry once and
  ends; a key that is changed is lost by itself;
* *lists*: every operation gives what it says and touches no list but those it may;
* *vectors, ranges, arrays*: sorts and copies have the elements they should, index
  arithmetic stays inside.

## 2. Modules

| module | models | extends |
|---|---|---|
| `Types` | type objects, `instance`, `subtype` | |
| `MethodOrder` | applicability, comparison, sorting, groups and chains | `Types` |
| `Dispatch` | generic functions, their caches, next-methods, activations | `MethodOrder` |
| `DispatchProofs` | theorems about `Dispatch` | `Dispatch`, `NatFacts` |
| `Control` | combinations, result types, blocks, exits, errors | |
| `ControlProofs` | theorems about `Control` | `Control`, `NatFacts` |
| `Syntax` | what the parser builds from bodies and statements | |
| `Forms` | special forms, methods, frames, lookup | `Syntax` |
| `LexicalScope` | what the same forms mean (abstract): environments as values | `Forms` |
| `Divergence` | for which expressions the two are known to differ, by their text | `LexicalScope` |
| `Evaluator` | the prompt, which evaluates expressions by both | `Divergence` |
| `Namespace` | modules, bindings, loading, the prompt | |
| `NamespaceProofs` | theorems about `Namespace` | `Namespace`, `NatFacts` |
| `Precedence` | the L\*Loops algorithm | |
| `Classes` | classes, slots, instances, getter methods | `Precedence` |
| `ClassesProofs` | theorems about `Classes` and the walk of `Precedence` | `Classes`, `NatFacts` |
| `DequeSpec` | what a deque promises: a sequence (abstract) | |
| `Deque` | the entries and links of deque.c, one iteration | |
| `DequeHistory` | `Deque` with history variables; implements `DequeSpec` | `Deque` |
| `DequeProofs` | theorems about `DequeHistory` | `DequeHistory`, `NatFacts` |
| `TableSpec` | what a table promises: a function and a loop over it (abstract) | |
| `Table` | rows and entries of table.c, one search, one loop | |
| `TableProofs` | theorems about `Table`; it implements `TableSpec` | `Table`, `NatFacts` |
| `Heap` | pairs | |
| `Lists` | the operations on lists | `Heap` |
| `ListLength` | `list_length`, in the steps of its loops | `Heap` |
| `ListCalls` | a program that calls these | `Lists`, `ListLength` |
| `ListProofs` | theorems about `ListLength` and `ListCalls` | `ListCalls`, `NatFacts` |
| `Vectors`, `Ranges`, `Arrays` | the operations on these | |
| `Collections` | a program that uses all of these | `ListCalls`; instances of the three |
| `NatFacts` | facts about natural numbers for the proofs | `FiniteSetTheorems` |
| `MC...` | constants for TLC | the module they are named after |

### Dispatch

State: `gfMethods`, `gfCache`, `activeNM` are GFMETHODS, GFCACHE and GFACTIVENM of each
generic function; `methHandle` and `hdlObj` the two ends of the handles through which
the cache reaches methods; `nms` all next-method objects made; `stack` the activations
of `apply_method` in progress. `born` are the methods that exist.

Actions: `DefineMethod`, `MakeMethod`, `AddMethod`, `RemoveMethod` (define method, a
method expression, add-method, remove-method), `ApplyGeneric`, `ApplyNextMethod`,
`Return` (the last form was no combination, so `apply_method` reaches its end), `TailEval`
and `TailDone` (it was one), `Unwind` (an exit or an error).

GFMETHODS is a set in the model: its order reaches nothing but the input of qsort. What
qsort returns for a comparison that is no total preorder is left open by the C standard;
`sort_methods` allows every arrangement with no neighbour greater than the next. An entry of
the cache is filled by one of them, nondeterministically. Argument lists are reduced to
the required arguments; keywords do not take part in the order.

`SpecDefine` is a program that defines methods and calls; `Spec` is any program: methods
are values, are removed and shared between generic functions, and closures keep a
next-method after its activation is gone.

### Control

State: `stack` is `eval_stack`, one entry per combination, `results` is `ResultValueStack`,
`blocks`, `runs` and `dropped` count blocks entered, runs of their cleanups, and those an
error has dropped. An entry knows what its combination evaluates (`ctx`), whether it is
at the last form of a method (`tail`), and which declared types its value owes (`owes`, a
history of declarations; the code does not have it and no guard reads it but the one
under `OwedBlocks`).

A block is three entries, from the expansion in `dylan.y`. An exit is an entry whose walk
down the stack is `at`; cleanups run with the stack as it is, below the exit's entry.

`OwedBlocks` and `CleanupExits` restrict programs: with either TRUE a property fails, see
"Where code and documents disagree".

### Namespace

State: `mods`, the modules in order of definition, each with its exports and a chain of
bindings per name; `cells`, shared by bindings; `gfs`, the methods of generic functions;
`here` (the module of `the_env`), `current` (`the_current_module`), `prompt` (`cache_env`)
and `loading`. A module is known by its number, because a second module of the same name is
made and never found again. `all_imports` is read uninitialized (env.c:544) when a clause has a
list: the input `garbage` stands for what is read.

### Precedence and Classes

`Precedence` is an operator on class numbers and lists; its walk shares the counts of
edges among branches as the code does, by a recursive function that returns the list and
the counts left. `Classes` has class objects by number (a redefined class lives on under
its number), the name each is bound to, and the getter methods. `make_class` leaves a
half-made class behind on an error and `make` leaves classes half prepared; both are
outcomes of the actions. Slots of class, constant and virtual allocation, initial values,
keywords and abstract classes are left out. So is the list of direct subclasses.

### Deque

`Deque` has the entries by number, `first`, `last`, the state of one iteration, the loop of
`element` when it is under way, and `out`, the last operation and its result. Numbers are
not reused: the collector keeps what can be reached. `DequeHistory` adds what the deque
should consist of (`ids`) and how far its front has moved since the iteration began
(`shift`). Neither is read by an action of `Deque`. The refinement to `DequeSpec` maps
`items` to the values of `ids`: since `out` is computed from links and entries alone, each
operation gives what it would give on a sequence.

### Syntax, Forms, LexicalScope, Divergence and Evaluator

An expression is a tree; `Syntax` gives the form the parser hands over, with the number of scopes
to leave, and the parser's `binding_stack` afterwards. `Forms` has one operator per C
function. Each takes a form and the interpreter's state (the current frame, all frames ever made,
the order in which the compiled `map` evaluates arguments, which C leaves open, and whether an
error has occurred) and gives a value and a state, or the tail call that a `longjmp` takes to the
combination around. Errors are `longjmp`s to the prompt, so that nothing changes a state that has
failed. `LexicalScope` gives the same expressions, as they are written, their meaning by environments
that are passed on and never restored. `Evaluator` enters expressions one after the other, and
keeps the states of both; its variables are the globals `the_env` (with main's `cache_env`), the
frames and `binding_stack`, and what a C variable that is not set holds.

The two do differ for some expressions, all of which are among those that are entered. `Divergence`
names them by their text alone, in two kinds:

* `scopes`: a `case` or `select` whose first clause declares another number of variables than a
  body around has declared before it, or two such bodies with different numbers; and `for-each` with
  a test and without result forms. These may leave the prompt in another environment, and one with
  no frame at all ends the program (`crashed`);
* `values`: a typed variable over a collection, a bound that is not a literal and `by` without a bound
  in a `for` clause; a `#rest` variable of a `let` whose initial value is not several values; defaults
  of keyword parameters that may look at another one.

`astray` keeps the kinds of the expressions entered so far. `ScopesLeft` claims something until an
expression of the first kind has been entered, `LexicalScoping` until one of either kind has.
For `case` and `select` the condition is that some body may be given a wrong number of scopes. Where
one stands in the first clause of another it may hold without need; and whether a wrong number is ever used
depends on the last form of the body, which it does not look at.

### Table

State: `table` and `entries`, the rows and the links; `content`, what each key consists of; `call`, the
search under way with the entry it looks at; `cursor` and `calls`, the loop and the operations of its
present round. `given`, `present` and `touched` are histories, read by no action. Actions:
`Element` and `ElementSetter` begin a search; `Passes`, `Matches` and `Misses` are its rounds, each a
call of `=`; `Misses` of a setter adds an entry in front of the row. `InitialState`, `NextState`,
`CurrentElement`, `CurrentElementSetter` are the iteration protocol; `Change` is the program
changing a key. The refinement maps `map` to the values of the entries by content, and is
stated as long as no key has been changed while it is in the table.

### Lists, ListLength, ListCalls, Vectors, Ranges, Arrays and Collections

A list operation is an operator from the heap before and the arguments to the heap after and the
result: lists share pairs, and what an operation does to pairs it was not given is a question. A loop
along a list is a fold over its pairs from the left; an operation that calls itself with the tail, and
then does something with the result, is a fold from the right. `list_length` takes the list apart while it walks, so that
it is a state machine of its own, which `ListCalls` composes with the others: every step of `ListCalls` is a step
of `LengthSpec`, the other operations being `Elsewhere`. `Collections` adds the operations on vectors,
ranges and arrays. The operations are called once each, on
every heap and on every argument; results are compared with a definition on sequences (`Expected`).

## 3. Runs

Deadlock is not checked: programs may stop, and bounds stop them.

Fairness is assumed in two places, and only of what the interpreter itself goes on with. In `Table`
a search that has begun goes on (`WF` of `Continue`), since nothing else runs until `=` returns, and a
loop goes on to its next round (`WF` of `NextState`), since the body of one round comes to an end: it
makes at most `MaxCalls` calls. Then every loop ends (`LoopEnds`) though each round may enter a key. In
`Collections` the loops of `list_length` go on (`WF` of `StepLength`), since nothing runs beside
them; then every walk ends (`LengthEnds`), also of a list with a cycle. Elsewhere nothing has to
happen: the interpreter does what the next form asks for.

| run | question | bounds |
|---|---|---|
| `dispatch` | programs that define methods, two arguments: cache, chains, order, the method run | 5 methods (two with equal specializers, two ambiguous), 1 generic function, 2 next-methods, depth 2 |
| `dispatch_open` | programs that add, remove and share methods, with singletons, limited integers, unions: `next-method` still descends | 4 methods, 2 next-methods, depth 2 |
| `control` | blocks, exits, tail calls, errors | 2 blocks, 3 methods, 11 entries, 2 values, one declared type, 2 runs of a cleanup |
| `namespace` | modules that use and re-export one another, files, failing forms | 4 modules, 3 cells, 2 generic functions, 2 methods, 2 names |
| `classes` | hierarchies with slots and redefined names | 4 classes and `<object>`, 2 names, 3 getters, 2 superclasses each, one class to seal |
| `deque` | every sequence of operations; the refinement | 3 entries ever made, 2 values, indices -1 to 2 |
| `forms` | value, effect and scopes of two expressions in a row, with those `Divergence` names excepted | 218 expressions, 31 of them named in `Divergence`; both orders of argument evaluation; 2 values for what is not set |
| `tables` | every sequence of operations, a loop, a key that changes; the refinement | 3 keys, 3 contents, 3 rows, 3 entries, 1 operation in a round |
| `collections` | every list operation on every heap; sorts, copies, ranges, arrays | 3 pairs, vectors of 4, keys 1 to 3, numbers -4 to 4, 3 dimensions of 3 |
| `dispatch_replaced`, `control_results`, `namespace_constants` | disagreements, see below | 4 methods of one argument; those of `control` and of `namespace` |

Why these bounds are enough to be interesting:

* a cache entry goes stale by a call, a definition and a call; replacement needs two methods of
  equal specializers; an ambiguous group needs two, and a method below and one above it: five
  methods. Two next-methods are the least for which the head of the list belongs to another
  activation than the one that returns. Two arguments give orders that are partial; the
  other kinds of types are checked with one;
* an exit that passes the cleanup of another block needs two blocks; a method between them, one
  inside and one outside are three; the depth is what these need together. One declared type is
  what TLC can do; declared types inside one another are covered by the theorem only;
* a chain of re-exports needs a kernel module, two modules and one that uses both; merging needs
  two generic functions; shadowing a third cell;
* a diamond of slots needs four classes, in which a class has no slot, a slot `x`, or a slot `y` and
  an `each-subclass` slot `e`: slots that come by two ways, slots of one class behind those of
  another, and clashes. Precedence lists go wrong when a walk meets a shortcut, for which five classes and a
  redundant superclass are needed, or eight without one: the run shows what holds elsewhere, and the
  theorem that it does in hierarchies of every size;
* a deque of three has a first, a middle and a last entry; the stale link after `pop` needs a push
  after that;
* the expressions of `forms` are each declaration or assignment, followed by each compound form over
  each short body, followed by a use; and methods, loops and parameters of all kinds in positions
  these do not reach. One expression can leave a frame or a count behind; the second would see it.
  `case` with the short body in the first clause and `select` with it in the second are among the
  compound forms, so that the first clause declares as many variables as the bodies around, or more,
  or fewer;
* three entries in a table are enough for a row of two with a third in it or behind it, and three
  rows for an empty one on the way. The hashes of two contents differ only in sign, so that they
  share a row by `abs`;
* three pairs have every kind of cycle: at the head, over two pairs, and behind the head; two lists
  that share a tail; and dotted ends. Vectors of four have equal keys on both sides of a
  partition, and three is the least for which quicksort recurs.

What each property says is written above its definition. In short:

* `Dispatch`: `LiveListed`, `CacheCoherent`, `LiveChainsCurrent`, `NextMethodDescends` (invariants),
  `LeastMethodRuns` (action property);
* `Control`: `EnoughResults`, `LeftCleaned`, `CleanupOnce`, `DeclaredResults` (action property);
* `Namespace`: `HiddenStaysHidden`, `ReexportedConstants`, `MergedMethods` (action property);
* `Classes`: `SlotsInPlace`, `SuperclassesFirst`, `MonotonicLists`;
* `DequeHistory`: `Linked`, `CurrentKey`, `Walking`, and `Implements` (refinement);
* `Evaluator`: `LexicalScoping`, `ScopesLeft`;
* `Table`: `AllGiven`, `UntouchedFound` and `GivenOnce` (action properties), `LoopEnds` (liveness),
  `Implements` (refinement);
* `ListCalls`: `HeapRestored`, `ListsAnswer`, `OthersKept`, `LengthEnds` (liveness); `Collections`: `SequencesAnswer`.

Each module with a run, but for `Collections`, has a type invariant as well. Operators whose comment
begins with "Slip:" are not part of the model: each is a definition as a plausible mistake in the code
would make it, and putting it in the place of the definition after it makes a property fail. That
shows that the property depends on what the definition says.

### Where code and documents disagree

Three runs are expected to find a violation; each is a disagreement between the code and
something the repository says of it. The same properties or their neighbours hold in the
passing runs for the programs that avoid the case.

* `dispatch_replaced` (`ReplacedKeepsChain`). function.c:973 means to leave the methods after a
  replacement in the chain of a replaced method. When a method that is the next method of a
  call in progress is replaced, and then applied, `recalc_next_methods` puts the old method into
  a list that holds the new one. Both compare equal, and the chain is cut before the two:
  `next-method` from there finds nothing.
* `control_results` (`DeclaredResults`, with `OwedBlocks = TRUE`). An exit cuts `eval_stack` and
  leaves `ResultValueStack` as it is. The combination of the block takes a type that belongs to a
  combination that is gone, and the value of a method that ends in a block is not checked.
* `namespace_constants` (`ConstantsKeep`). `props &= !EXPORTED_BINDING` (env.c:659) clears all bits.
  A module that imports a constant and does not export it may assign it, for everybody.

Others were met and have no run of their own; most can be seen by changing a constant of
a configuration, or a property.

* With `CleanupExits = TRUE` in `Control.cfg`, `CleanupOnce` fails: a cleanup that calls an exit of a
  block outside meets its own unwind-protect, and is started again, for as long as it does
  (env.c:413; the comment at env.c:390 does not think of it).
* With `LastOfEmptied = TRUE` in `Deque.cfg`, `Implements` fails: after `pop` of the only element
  (deque.c:165) `last` gives the element popped, where an empty deque should signal an error or give
  the default. In the run `deque` programs do not ask for `last` or the final state there;
  `push-last` is allowed, and leaves the stale entry in front of the new first one, which `Linked`
  excepts.
* DIFFERENCES:25-28 calls precedence lists monotonic. A walk may enter a class twice, and decrements the
  counts of its successors each time (classprec-ll.c:238-244), so that a class behind them is entered
  before all edges into it have been met. For `<t>` below `<s>`, and `<u>`, both `<s>` and `<u>` directly
  below `<object>`, a class with the superclasses `<t>`, `<s>`, `<u>` gets `<object>` before `<u>`. Without a
  redundant superclass the least hierarchy we know has eight classes: 2 below 1, 3 and 4 below 2, 5 below 1,
  6 below 4 and 3, 7 below 4, and 8 below 6, 7 and 5 has 1 before 5. `MonotonicLists` says it of lists
  for which no walk met a shortcut (`Shortcut`: an edge to a class that the walk comes to through an
  earlier successor); with `Redundant = TRUE` and `MaxSupers = 3` in `Classes.cfg` and the condition taken
  out of the property, TLC finds the first of the two.
* The module that `current-module ()` names (DIFFERENCES:35) need not be the one forms are
  evaluated in: `here = current` fails in `Namespace`, by an error in a file or by `set-module` inside
  a body.

The rest are evaluated by `Forms` as the code does. The expressions are in the run `forms`, and
each fails `LexicalScoping` when the condition on `astray` is taken out of it.

* The rule of the first clause of `case` and of `select` pushes an entry on `binding_stack` and pops none
  (dylan.y:474, 547). A body around reads that entry as the number of scopes to leave (dylan.y:216),
  and its own is left to the body around it. `begin let x = 1; case x == 1 => 2; end; x end` leaves none, and the
  next `x` at the prompt is 1. With a declaration in the first clause and none around,
  one scope too many is left: the_env is NULL at the prompt, and the next lookup is the
  last thing the program does. A body whose last form is a tail call never leaves scopes itself, which hides most
  cases. `ScopesLeft` fails too without its condition.
* `for-each` that is ended by its test returns before `pop_scope` when there are no result forms
  (syntax.c:1613): the scope of its variables stays in force. The parser makes no `for-each`;
  `%eval` can be given one. `ScopesLeft` fails too.
* `for` over a collection with a typed variable: the second round assigns the empty list to the
  variable before the next element, and the type rejects it (syntax.c:1485), where DIFFERENCES:146-149
  has these clauses conform to the language definition.
* The bound of a numeric clause of `for` is evaluated again at each test.
* A numeric clause with `by` and without a bound is signalled as badly formed (syntax.c:1250-1260);
  DIFFERENCES:145-146 and the comment at syntax.c:1102-1103 have `by` without a bound.
* Of a single value the `#rest` variable of a `let` is #f, and not the empty list, and a variable
  named `#rest` is bound (syntax.c:703-715).
* Defaults of keyword parameters are evaluated in the reverse order of their names
  (function.c:109-129), so that one may look at a parameter that is written after it and not at
  one before.

Oddities of operations on sequences that the repository promises nothing about, or that do not
return, are not modelled: `remove-duplicates` of a `<sequence>` is always empty; `choose` of one calls
itself; `intersection`, `replace-elements!` and `subsequence-position` use names that are not bound;
`add!` of a `<sequence>` reads past its end; `quicksort` fails on an empty vector and, with a test that
is true of equal elements, runs off the end; `map` over several lists looks only at the first for the
end; `third-setter` calls `%head-setter` with one argument; `shallow-copy` of an array passes the
arguments of `element-setter` in the wrong order; a copy of a range that was made by `size:` or
reversed has no end; `above:` and `below:` of a range whose span is negative and smaller than `by:` give a
size of 1 (`Spans` excepts that); `array_ref` with a default reads one place before the block
where the index is out of range (array.c); `marlais_vector_to_list` of an empty vector returns an
uninitialized variable; a list and a vector with the same elements are `=` and hash differently;
floats hash by address; `make (<table>, size: 0)` divides by zero.

## 4. Proofs

Each theorem is laid out as: initial states satisfy the invariant, each action preserves it (one
step per action, one level below per conjunct), the invariant implies the property, and a
last step by temporal logic. All hold for every value of the constants that satisfies the named
assumptions, which are those the code justifies (a number of rows is not zero, `Nil` is no
element, and so on).

`DispatchProofs` proves of every instance (any methods, types, arguments and bounds):

* `TypeCorrect`: `Spec => []TypeOK`;
* `NextMethodsStayListed`: `Spec => []LiveListed`. `LiveListed` is not inductive: a return takes the
  newest object off the list, whoever pushed it. The invariant adds that the next-methods of the
  activations in progress are ordered by age and that no activation holds one newer than the list
  has made, so that an object newer than that of an activation is never its own;
* `CacheStaysCoherent`: `SpecDefine => []CacheCoherent`. The invariant adds that the handles of the methods
  of one generic function are distinct and lead back to their methods, and that methods not yet
  made have handles of their own; replacing one method then changes what exactly one handle leads to. It holds only for
  `SpecDefine`: `remove-method` leaves the cache as it is, and a method shared by two generic
  functions shares its handle;
* `ChainsStayCurrent`: `SpecDefine => []LiveChainsCurrent`. It rests on the other two: a definition makes
  the listed objects invalid, and by `LiveListed` no other object that is in use could name the
  replaced method; a new object's chain is read from a coherent cache entry, or recalculated
  from the methods there are, where the method it is recalculated for comes once and is left out.

Two more hold of the programs whose methods are specialized on classes (`ClassesOnly`; the run `dispatch`
has such methods):

* `LeastRuns`: `SpecDefine => LeastMethodRuns`, where precedence lists are sequences of classes, no two of
  which are below each other, and arguments have classes (`ClassesOrdered`). An entry is made for one argument list, is used for all
  with its classes, and its handles lead to other methods after a replacement. The invariant
  (`EntriesSorted`, `HandlesAlike`) says that it is sorted for each of these all the same, since a
  method is replaced by one with the same specializers; a method less than every other then comes
  first and alone, because the comparison is antisymmetric (`CompareTurns`). It need not be transitive;
* `ChainsDescend`: `Spec => []NextMethodDescends`, where any two methods that apply to an argument list
  compare for every other as they do for it (`AgreedOrder`). The corollary `SingleChainsDescend` has
  the condition on classes instead: any two above one class are one above the other. The invariant adds to
  `EntriesSorted` that every chain goes down for all argument lists, for a valid object is
  applied to arguments it was not made for.

Neither holds of all programs. A singleton is possible for every object of its class and of the classes
below that, and applicable to one; an order by which qsort has put it between two methods need not be that of
these two. With methods for `<a>`, for `<b>` below it and for one object of a class above both, TLC finds a
call that is ambiguous though the method for `<b>` is least. Two singletons of equal values are two objects
that compare as equal, and where a class has two direct superclasses, `next-method` with other arguments may
lead up. The run `dispatch_open`, which has singletons and unions, checks `NextMethodDescends` for one argument list.

`DequeProofs` proves of every instance of `DequeHistory` (any values, indices and bounds):

* `LinksHold`: `HSpec => []Linked`;
* `LoopStaysInside`: `HSpec => []Walking`;
* `DequeImplements`: `HSpec => Implements` where `LastOfEmptied` is FALSE, the one restriction: the
  sequence of `DequeSpec` is what the links lead through. The invariant `IInv` is `Linked` taken
  apart (`Distinct`, `Ends`, `Forth`, `Back`), the ranges of links (`Typed`), and `OnTheWay`, which adds
  to `Walking` what the loop is going to give. Distinctness is what makes the changed link of an end be
  the link of one entry only. For the refinement each operation maps to the operation of `DequeSpec`;
  a round of the loop maps to a stutter, and its last round to `element` or `element-setter` of the
  index that the invariant relates to what is left to count;
* `KeysCount`: `HSpec => []CurrentKey`, and `DequeTypes`: `HSpec => []TypeOK`. `CurrentKey` is not
  inductive: an iteration may stand on an entry that has been popped, and goes on along links that lead
  back into the deque. The invariant `Placed` says that every entry ever made can be given a place on a line such
  that links lead to neighbouring places, the deque is a row of them, and the key and `shift` are the place where the
  iteration is. Pushes and pops at either end find the place they need.

`ControlProofs` proves of every instance of `Control` (any values, declared types and bounds):

* `TypeCorrect`: `Spec => []TypeOK`, and `ResultsSuffice`: `Spec => []EnoughResults`. An exit cuts the one
  stack and leaves the other, so that there are only ever more types than combinations;
* `CleanupsRun`: `Spec => []LeftCleaned`, whichever exits the cleanups themselves call. The invariant
  adds `Three`, that the three entries of a block stay together, and `Walked`, that an exit on its way
  has run the cleanup of every block it has passed: a cut at the end of its walk then leaves only
  blocks that are clean;
* `CleanupsRunOnce`: `Spec => []CleanupOnce` where `CleanupExits` is FALSE. Added are `Fresh` (a block not
  yet entered has run nothing), `Apart` (a block is on the stack once), `Inside` (between an exit that
  runs a cleanup and an exit above it there is the latter's block), and `Started` (a block in
  progress whose cleanup has been started is one that an exit has come to);
* `DeclarationsKept`: `Spec => DeclaredResults` where `OwedBlocks` is FALSE and of two declared types one
  is below the other. The invariant `Owed` says that what an entry owes is owed by the methods from it up
  to the top, and that the type at its index of `ResultValueStack` is as narrow as each of these.
  The second restriction is the code's: `narrow_value_types` drops a type that is not narrower.

`TableProofs` proves of every instance of `Table` (any keys, contents, hashes and number of rows):

* `TablesTyped`, `UntouchedKeysFound`, `LoopGivesOnce` and `LoopGivesAll`: `TypeOK`, `UntouchedFound`,
  `GivenOnce` and `AllGiven`. The invariant has `Chained` (a link leads to the next older entry of the
  row, and the head of a row is its newest), `Placed` (an entry whose key is untouched is in the row of its
  hash), `Searched` (what a search has passed does not match), `Distinct` (no two entries of equal
  keys, unless a key has been changed) and `Looped` (what has been given is what the loop has passed: later entries of
  earlier rows and of this one);
* `TableImplements`: `Spec => Implements`. Rounds of a search map to stutters, the last to `Find` or
  `Enter` of `TableSpec`; by `Distinct` the value of a content is that of one entry only.

`NamespaceProofs` proves of every instance of `Namespace` (any finite set of names, any modules, forms and
bounds):

* `TypeCorrect`, `HiddenNamesStayHidden` and `ConstantsReexported`: `TypeOK`, `HiddenStaysHidden` and
  `ReexportedConstants`. The invariant adds `Placed`, of every binding of a module: a cell made in the
  module is bound there under its own name, any other has a name its own module exports. That is what
  the next `use` clause needs, which sees a binding and the exports of the module it is in, not those of
  the module it came from;
* `MethodsMerged`: `Spec => MergedMethods`. What a clause or a name makes of the module being defined is
  `Later`: no name is bound again, no generic function loses a method. What one name has merged is
  then still merged when the last clause has been evaluated.

Names and clauses are taken in order by recursive functions over 1..n: `Iterates` of `NatFacts` gives
that such a function exists, `Onwards` what it keeps from one place to a later one.

`ListProofs` proves of every instance of `ListCalls` (any data, any number of pairs, heaps with whatever
shared tails, dotted ends and cycles):

* `LengthRestoresHeap`: `LengthSpec => []HeapRestored`, and `CallsRestoreHeap`: `ListsSpec => []HeapRestored`. The second
  loop of `list_length` is the first with `fore` and `back` exchanged, so that each of its steps undoes one: the invariant
  `Walking` says that a walk of some number of steps of the first loop leads from the call's heap to
  the present one, or that the second loop is at the end and the heap is as it was. Whether a walk
  ends does not matter for it;
* `CallsAnswer`: `ListsSpec => []ListsAnswer`, and `CallsKeepOthers`: `ListsSpec => []OthersKept`. The invariant
  `CallInv` says that the program has called nothing, is in `list_length` or has left it, or is back
  from another operation with the right answer.
  An operation is a fold, and a fold is a recursive function chosen among those that satisfy its
  equation: `FoldExists` shows that there is one, going through the places in either order.
  `Made(h, r, s, d)` then says what the operations that make pairs do: `r` is the heap `h` with the pairs of a list
  added that holds `s` and goes on with `d`. Each round of a fold adds one pair (`MadeOne`) or none, and
  `MadeList` says once for all what such a result is as a list: what it holds, which old pairs it
  shares, whether it ends. Each operation has a lemma (`CopyListMade` to `UnionMade`) that says what it makes.
  `reverse!`, `add_new_at_end` and `element-setter` change pairs there are; for these the pairs of the argument are
  followed by their places (`ListIs`, `TurnedUpTo`). For the answer of `list_length`, `Counting`
  says where its walk is: with the pairs before it passed and apart (`Outward`), or, where the list has a cycle, on the way
  back to the head through the tails it has turned (`Homeward`). Then it is back at the head if and
  only if there is a cycle, which is what the test after the loop (list.c:398) relies on.

`ClassesProofs` proves of every instance of `Classes` (any names, getters, slot lists and bounds):

* `ClassTypes`: `Spec => []TypeOK`, `SuperclassesReady`: `Spec => []SuperclassesFirst`, and `Monotonic`:
  `Spec => []MonotonicLists`. All rest on what `PrecedenceList` gives, which is a recursive function from a class
  and the counts of edges left to a list. `StepIn` shows that there is such a function: a walk that enters a class from another
  has one class less with edges left to meet, so that the function is found step by step, by the number of such
  classes (an induction over numbers, by `Onwards`). `StepWalks` shows what it gives: a list that begins with the class, has no class twice and
  leads along edges, and where the walk takes no shortcut every class comes after all that have an edge
  to it. `PrecedenceListOf` puts this together for the graph of a new class, `MadeClass` for `make_class`. The
  invariant has the fields and ranges of class objects (`Shape`), their lists and slots (`Ordered`), which classes
  can be waiting for their getter methods (`Waiting`), that names stay bound (`Named`), and that the direct superclasses of a
  class that has its methods have theirs (`SupersReady`). For the last one, `PendingQueue` shows that the
  queue of a `make` has every class after its superclasses, so that a `make` that fails leaves no class
  before one above it. Monotonic lists of all classes above follow from those of the direct superclasses (`Chained`);
* `SlotsPlaced`: `Spec => []SlotsInPlace` where `Unprepared` is FALSE, as in the run. Getter methods are
  made for the class that the name of a class denotes when an instance is first made (class.c:1209-1214); with a
  name bound again before that they are made for the wrong class. The invariant adds that a class
  that waits is denoted by its name, and that each getter has, for every class that has its methods, the one method for that
  class, which reads the slot where `Layout` has it. A method for a class below is made later and read
  first: `ChosenOwn`.

`NatFacts` has what these share: a set of natural numbers that is not empty has a least element, what
is kept from each number to the next is kept from the first to the last, and a function defined
from each number to the next exists.

Only model-checked:

* `NextMethodDescends` and `LeastMethodRuns` of `Dispatch` where methods are specialized on singletons,
  limited integers and unions;
* all of `Evaluator`, and `SequencesAnswer` of `Collections`. These rest on recursive operators (the
  evaluator, the sorts and the loop over a range), whose results for every input are out of the provers' reach;
* `LoopEnds` and `LengthEnds`: liveness under fairness is out of reach too.

## 5. Not modelled

* *conditions*: `signal` calls the same function as an error, and nothing in init.dylan installs a
  handler; `Control` has errors that nobody handles. The nested debugger loop is input and output;
* *errors of the reader*: what an error in the middle of a statement leaves on `binding_stack` is
  yacc's;
* *parts of forms*: `#all-keys`, keyword lists of odd length or with something else where a keyword
  should stand, `set!` of a call, quasiquotation. Top-level `let` is ignored by the code. What a C
  variable or a place of memory holds that nothing has set (syntax.c:1750, object.h:115) is one of
  two values, where the machine may have any, or stop;
* *slots* of class, constant and virtual allocation, initial values, keywords of `make`, abstract
  classes. A class below one with a virtual slot cannot be defined (class.c:432 does not end);
* *tables*: an `=` method of the program that enters the key being searched for; a hash of INT_MIN, of
  which `abs` is undefined;
* *sequences*: the operations of `<sequence>` that fail or do not end, named above; strings, which are
  vectors of characters; several collections at once;
* *numbers*: floating point is beyond TLC; integer operations are C's;
* *reader, printer, streams, system calls, foreign functions, memory*: input and output, generated
  code, or external libraries.

## 6. What could follow

* theorems: `LeastMethodRuns` where singletons are specialized on only in generic functions whose
  other methods are above them all;
* `Classes` with slots of class allocation, whose value all instances share, and initial values;
* the composition of `Dispatch` with `Control`: what an exit does to the list of next-methods is in
  `Dispatch` as `Unwind`, and what a next-method does to the result types is in `Control` as a method;
* `Forms` with blocks: frames and exits are checked apart, by `Forms` and `Control`.
