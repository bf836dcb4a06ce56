# Verification of the CiviC compiler

`mmcivicc` translates CiviC, a small imperative language with nested functions,
multi-dimensional arrays and for loops, into assembly for the CiviC VM. It is a
sequential C program: the tree and its traversals are generated by CoCoNut from
`src/src/main.ccn`, and each pass is a set of handlers that change the tree or
tables beside it. This directory holds TLA+ models of its passes, the TLC runs
that check them, and TLAPS proofs.

Nothing here runs concurrently and nothing is persisted. What makes the program
hard to test is *order*: passes that rely on what an earlier pass left in the
tree, traversals that keep "where am I" in static variables, lists built back
to front, and tables that change between two lookups. The models keep these
orders and abstract from text.

## 1. The system

### Passes, in their order (`main.ccn` 1-243)

| Phase | Passes | State beside the tree |
|---|---|---|
| SPdoScanParse | lexer, parser | `current_forloop_inc_expr`, `current_id`, `current_exprs`, `is_single_expr` |
| ParseCleanup | ReverseParams | - |
| PrimaryNameMangling | MangleFuncVar, MangleForLoopNames | running loop number, the loops around |
| ContextAnalysis | CheckArrDims, ExtractIndices, InitGlobalVars, InitSymtables, SymtableManglingIds, SymtableManglingTabs, InitLocalVars, CheckIdentifiers | symbol tables, stack of at most 64 tables |
| DimensionReduction | ParamDims | current table |
| TypeChecking | TypeChecking | union-find forest, list of constraints' types |
| Demo | Print | - |
| Codegen | Boolcasts, For2While, IndexLocals, Codegen | `cur_func`, `cur_symtab`; `STATE` with functions, constants, header |
| Cleanup_ | FreeSymtables | - |

Errors of the user's program are counted (`CTIobj`) and `CCNerrorAction` ends
the compiler after the pass; a failed `DBUG_ASSERT` ends it at once.

### Components

| Component | State | Operations | What makes it correct |
|---|---|---|---|
| Union-find solver (`ctxanalysis/unionfindsolver.c`) | hash table of parent pointers over type terms | `uf_find`, `uf_unify`, `forbid_bool`, creation of terms | no cycles; a base type never changes; a false answer is the truth; a true one means one class, whose functions are alike but where a recursive answer was dropped |
| Type checker (`trav_typecheck.c`) | terms of nodes and names, types in the tree | equations, one handler per node | what is accepted is well typed, nothing else is rejected, and the types in the tree are right whatever equations come later |
| Symbol tables (`symtable.c`, `trav_initsymtables.c`) | a table per function, chained to the one around | insert, lookup, isdefined | a name declared twice in a scope is an error; nothing else is |
| Name mangling (`primary_name_mangling/`, `symtablemangling.c`) | identifiers' names | three traversals that rename | each use finds the declaration that lexical scoping means |
| Identifier checks (`trav_checkidentifiers.c`) | - | lookup of every use | accepts what is declared |
| Array initialization (`trav_checkarrdims.c`, `trav_extractindices.c`, `trav_initglobalvars.c`, `trav_initlocalvars.c`, `arrayinitgen.c`) | declarations, statements | depth check, dimension variables, allocations and stores | each element gets its value, in the order of the text, dimensions first |
| Dimension reduction (`dimension_reduction/`) | index expressions | row-major arithmetic, dimension parameters | different elements have different places |
| Parser (`parser.y`, `trav_reverseparams.c`) | lists, the pending loop step | one action per rule | lists in order, each loop with its own step |
| Loop lowering (`trav_for2while.c`) | `cur_func`, `cur_symtab` | for to while, temporaries | same rounds, bounds evaluated once, temporaries declared where they are used |
| Cast removal, slots (`trav_boolcasts.c`, `trav_indexlocals.c`) | slots in table entries | | no shared slots |
| Code generation (`trav_codegen.c`) | `STATE` | one handler per node | the code does what the source means; numbers name their header lines; units fit together |
| Generator state (`codegen/state.c`) | constants, functions, header | registration, emission | a load finds its constant |
| Byte vector (`bytevec.c`) | block, length, capacity | append, printf | writes in bounds, no byte lost |
| Printer, driver, globals, cleanup | | | input and output only |

Passes interact through the tree and the tables only. ContextAnalysis relies on
the logical names of PrimaryNameMangling; InitLocalVars changes function bodies
after the tables were built from them; For2While adds table entries that
IndexLocals numbers and Codegen looks up; Codegen calls the byte vector and
the constant registration for each node.

## 2. Modules

| Module | Models | Lines it stands for |
|---|---|---|
| `TypeTerms`, `UnionFind` | the solver, one step per recursive call and return | `unionfindsolver.c` |
| `TermClasses` | the abstract solver: a partition that gets coarser | - |
| `Scopes` | tables, mangling and identifier checks, on small programs | `primary_name_mangling/`, `symtable*.c`, `trav_initsymtables.c`, `trav_checkidentifiers.c` |
| `Typing` | the trees that reach the type checker (`IsProgram`: `main.ccn`'s shape, names as the passes before leave them), and the typing rules (the reference, external) | `main.ccn`, `trav_checkidentifiers.c` |
| `TypeCheck` | the checker: one action per handler | `trav_typecheck.c`, `typeVariable` |
| `Civic` | the meaning of source programs (the reference) | external |
| `Codegen` | ParamDims' index arithmetic, Boolcasts, For2While and Codegen as operators on trees; the VM as the specification | `codegen/trav_*.c`, `dimension_reduction/` |
| `Frames` | For2While's temporaries, IndexLocals, labels, addresses, calls; VM frames | `codegen/trav_*.c`, `dimreduce.c` |
| `RowMajor` | the place that an access has, and the size of an array | `dimreduce.c` |
| `ArrayInit` | depth check, dimension extraction, initializers, index reduction; the run of the result | `ctxanalysis/`, `dimension_reduction/` |
| `Header` | dimension variables, linkage in tables, header lines, numbers, and the linker joining units | `trav_codegen.c`, `trav_initsymtables.c`, `trav_extractindices.c` |
| `ConstTable` | constant registration and loads | `codegen/state.c` |
| `Bytevec` | the byte vector | `bytevec.c` |
| `Parsing` | list rules, the pending loop step, ReverseParams | `parser.y`, `trav_reverseparams.c` |
| `UnionFindProofs`, `ScopesProofs`, `HeaderProofs`, `FramesProofs`, `ParsingProofs`, `ArrayInitProofs`, `TypeCheckProofs`, `OutputProofs` (`Bytevec` and `ConstTable`) | theorems | |
| `MC_*` | instances for TLC | |

How state and actions correspond to the code:

- **UnionFind.** `parent` is the hash table (`None`: not in it), `path` the
  stack of `uf_find` frames, `pending` the `uf_unify` calls that active frames
  still have to make, `x` and `y` that function's locals. `FindRecurse` is the
  recursive call, `LookupReturn`, `Find1Return`, `Find2Return` and
  `ForbidBoolReturn` the return to each caller with the compression on the way,
  `LinkSame`, `BindLeft`, `BindRight`, `KindClash`, `ArityClash` and
  `LinkFunctions` the branches of `uf_unify`. Results are base types because
  that is all the parser and `new_function_type`'s callers ever pass. `dropped`
  is a history variable, which the code does not have: the arguments of the
  recursive calls that answered false, which nobody looks at. No action reads it.
- **Scopes.** `agenda` holds the visits to come, so that the passes see
  functions in `TRAVchildren`'s order (headers before bodies, local functions
  before statements); `param` is how far a header's loop over its parameters has
  come. `symtable_lookup`'s walk over the parents is `Innermost` of the hits in
  `Enclosing`, the smallest set that has the scope and with each function the
  scope around it: stated so, and not with recursion, it can be proved about. A
  name is a record of what the mangling puts in it: kind (`func@`), loop number (`for0@`), declaring entry (the address). Inserting
  under a key that exists is the failed assertion of `symtable_insert`.
- **TypeCheck.** `todo` is the traversal: places to visit and places to leave.
  Most handlers do `TRAVchildren` first, and act when they are left; those of
  `EagerKinds` act before. `links` is the forest that `UnionFind` models step by
  step; here a call on it is atomic (`Unify`) and every term is linked to its
  root, as if all paths were compressed (`Find`), which `UnionFind` shows to
  change no answer. `Equate` is the pattern that each handler repeats: unify,
  and clear `typable` if the answer is no. A program is a function from the
  paths of its nodes to the nodes. With paths, the typing rules (`TypeOf`: what
  the first of a node's `Sources` says) and the equations of a list (`UnifyAll`)
  need no recursive operator, so that they can be proved about. `ann` is
  `EXPR_TYPE`, which code generation reads. The place of a tree node is its
  path, the `Before` of two paths the order of visits. A call's
  number of arguments was compared by CheckIdentifiers, initial values have
  become assignments (`init`, before all declarations, for globals), and
  indices are one expression.
- **Header.** Units are compiled one after the other. `pending` is what the
  hash table's iteration has not reached, in an order chosen freely; `next` the
  three counters of `CODEGEN_program`. `code` has one access for each variable
  and one call for each imported function, as the handlers make them. `Joined`
  is the linker: an import and an export of one string.
- **Codegen.** The generator's traversals have no state of their own but the
  output, so each handler is an operator from a node to instructions; one for
  each `case` of the code. Labels are resolved to distances. `code` is `None`
  when the assertion of `CODEGEN_cast` or `CODEGEN_arrexpr` fails. Of ParamDims,
  which runs earlier, it has the arithmetic on indices. The machine runs one instruction a
  step and has no step if operands are missing or of another type. `out` is
  the trace of calls of an external function, by which order and number of
  evaluations show.
- **Frames.** `todo` is the visit order of the three passes; `cur` is
  For2While's `cur_func`/`cur_symtab`; `tables` the keys; `index` the slots, in
  an order chosen freely as a hash table's iteration order is; `functions` the
  list in `STATE`; `frames` the VM's stack with static links. A frame's `scope`
  is the ghost that says which activations it should see. Calls pass every
  choice of the variables in sight that agrees with the parameters in the numbers
  of dimensions (`Arguments`); the type checker lets others through, see section 5.
- **ArrayInit.** A literal is the sequence of the parser's nodes in the order of
  their making (`exprs`, `next`, `siblings`, by number), with what the text says
  of each (`first`, `at`). `checkArrDepth` and `genIndividualInit`, which recurse
  over them, take one step for each call: `calls` is the stack of the calls that
  are still to come, in the order in which the code makes them. InitVars stands
  for InitGlobalVars and InitLocalVars, which prepend in the same way. The
  statements are then run on `memory`; `evaluated` lists the expressions in the
  order of their evaluation.
- **ConstTable**, **Bytevec.** One action per function; `ensureCapacity` has one
  step per round of its loop. `block` and `kept` are what the C code does not
  record: the true size of the allocation and the bytes still valid in it.
- **Parsing.** `nodes` has for every list its elements as the text has them
  (`src`) and as the tree has them (`ast`); `open` is the parser's nesting.

Each property has a faulty variant of one definition in its module, marked
*Faulty*, which stands before the definition that it is a variant of. With it
in that definition's place TLC finds the property violated: this shows that
the property says something about the code.

## 3. Runs

Ten runs pass and two exhibit a disagreement between the code and what its
comments or tests say.

| Run | What is checked | Bounds | States |
|---|---|---|---|
| `UnionFind` | every order of calls; no cycles, types stay, answers right but for dropped ones, congruence, refinement of `TermClasses`, calls return | 2 variables, 2 base types, 3 function types | 185,997 |
| `Scopes` | every program of the set; lexical binding, rejections and assertions are justified | 2 names, 2 functions, nested or siblings, loops two deep | 296,584 |
| `TypeCheck` | accepted is well typed, rejected is not, types in the tree, types of names | one statement of every form, expressions three deep over three types, calls and names before and after their declarations, elements returned | 144,948 |
| `Header` | every order of the hash table in both units | 2 units, up to 3 dimensions, exported or not | 280,542 |
| `Codegen` | compiled against source meaning, in all environments | expressions three deep, loops two deep, arrays of one and two dimensions | 71,922 |
| `ArrayInit` | all pairs of declarations, local and global | up to 2 dimensions of up to 3, literals of every shape, empty rows included | 71,840 |
| `Bytevec` | appends and prints up to a length | capacity 4, up to 24 bytes | 1,848 |
| `ConstTable` | all sequences of literals | 5 literals over 5 constants | 3,906 |
| `Frames_nested` | five programs, every sequence of calls and returns | 4 functions, 4 frames, calls with up to 3 arrays and scalars | 23,765 |
| `Parsing_lists` | every program part | 7 nodes | 80,072 |
| `ArrayInit_threedim`, `TypeCheck_returns` | see section 6 | | |

Why the bounds are enough. *UnionFind*: two functions whose parameter is a
variable suffice for a function to become its own parameter and for recursion
through `uf_unify`; a third of another arity for `ArityClash`; a chain of three
links is needed for compression of more than one frame, and seven terms have
it. *Scopes*: with two names and two functions every coincidence of a
variable, loop counter, dimension, parameter and function name occurs;
a third level of nesting would repeat the step from the second to the first.
*TypeCheck*: a handler sees one node and its children's classes, so what can go
wrong is the order of two: each pair of a node and a child of every kind occurs,
with the child's class known, bound later, or never. *Header*: a second unit is
what an import needs, and three dimensions show which names of both sides meet.
*Codegen*: the generator composes handlers and looks at most one level down
(a cast's operand, a condition that is a constant), so three levels put every
construct inside and outside every other kind that it shares the stack with.
Loops have steps that are positive, negative, zero, missing and computed by
calls. *ArrayInit*: extents 1 to 3 that differ from each other tell rows from
columns; three dimensions have their own run. *Bytevec*: from capacity 4 the
growth takes up to five rounds (4, 6, 9, 13, 19, 28). *Frames*: with four
frames recursion goes through a nested function twice. *Parsing*: an order
fault shows with three elements, and seven nodes leave room for a list of
three in a list in a loop.

*Deadlock* is checked in `UnionFind` and `Bytevec`, where a caller may always
call again (in `Bytevec` with length 0). The other models end: the compiler
or the compiled program is done.

*Fairness* is weak fairness of the steps of a call in progress (`UnionFind`,
`Bytevec`) and of the machine (`Codegen`): a sequential program goes on
unless it waits for something, and these wait for nothing. No caller is
required to call.

*Exceptions.* Properties that the code breaks in a known way name the
exception and forbid every other, so a run shows both that the listed cases
are all there are and, as each was found by TLC, that they occur:

| Property | Exceptions |
|---|---|
| `Scopes!RejectsOnlyErrors` | `CallLikeCounter`, `CallBesideDec` |
| `BindsLexically` | `CallBesideDec`: a call, in an initializer, of a local function whose name also means a function outside |
| `AnswerIsRight` | positions for which, between two functions of the class, a recursive call's false answer was dropped |
| `Congruent` | classes in which two functions' parameters in that position clash |
| `AssertsOnlyOnHeaders` | function headers |
| `AcceptsOnlyWellTyped` | `Excused`: operands without an equation (`Untied`), inner returns, elements returned or used as a loop's bound, calls before the function, indices, calls without result, bools not known yet |
| `TypeCheck!RejectsOnlyErrors` | `Mistreated`: indices and dimensions of arrays that are not of ints, lengths from names that come later, sums and products of bools that are not known yet |
| `AnnotationsRight` | `Unsure`: what hangs on a later name, a forward call or a negation |
| `CallsAsSource`, `EndsAsSource` | `MovingBounds`: bounds that are variables |
| `OperandsReady`, `Halts` | programs with a remainder |
| `OnlyNestedNodesFail` | casts to bool inside of casts, accesses of several indices inside of an index |
| `ElementsApart` | none, but at most two dimensions in this run |
| `EvaluatedInOrder` | dimensions of globals |
| `OnlyOuterLoopsFail` | loops of functions that have local functions |
| `ImportsFindTheirVariable` | dimensions from the second on |
| `CallsMatchSignatures` | the dimensions pushed before an array, which the line leaves out |
| `ListsInOrder` | `ids` and nested `exprs` |
| `StepsOfTheirLoop` | a loop without a step in the block of one with a step, which takes it |

## 4. Proofs

Every safety invariant of every passing run but `Codegen` is a theorem, and so
are the type correctness and the refinement of the solver. Of these only two,
`ElementsApart` and `ElementsInPlace`, need a restriction, to arrays of at most
two dimensions, without which they are false:

| Theorem | Statement |
|---|---|
| `UnionFindProofs!TypeCorrect` | `UFSpec => []TypeOK` |
| `UnionFindProofs!FindReachesRoot` | `UFSpec => []Acyclic` |
| `UnionFindProofs!RigidTermsKeepTheirType` | `UFSpec => []RigidStaysRigid` |
| `UnionFindProofs!AnswersAreRight` | `UFSpec => []AnswerIsRight` |
| `UnionFindProofs!SolverRefinesPartition` | `UFSpec => RefinesPartition` |
| `UnionFindProofs!ParametersFollowFunctions` | `UFSpec => []Congruent` |
| `ScopesProofs!NamesAreBound` | `Spec => []BindsLexically` |
| `ScopesProofs!EntriesStayVisible` | `Spec => []RekeyingHidesNothing` |
| `ScopesProofs!OnlyHeadersAssert` | `Spec => []AssertsOnlyOnHeaders` |
| `ScopesProofs!RejectionsHaveReasons` | `Spec => []RejectsOnlyErrors` |
| `HeaderProofs!NumbersAreRight` | `Spec => []NumbersHitTheirLine` |
| `HeaderProofs!ImportsAreLinked` | `Spec => []ImportsFindTheirVariable` |
| `HeaderProofs!SignaturesMatch` | `Spec => []CallsMatchSignatures` |
| `FramesProofs!OnlyOuterLoopsStumble` | `Spec => []OnlyOuterLoopsFail` |
| `FramesProofs!SlotsNeverShared` | `Spec => []SlotsApart` |
| `FramesProofs!ParametersComeFirst` | the parameters have the first slots, in order |
| `FramesProofs!CodeStaysUnderItsLabel` | `Spec => []CodeUnderItsLabel` |
| `FramesProofs!LoadsAlwaysReach` | `Spec => []LoadsReachTheirVariable` |
| `FramesProofs!ArraysKeepTheirDims` | `Spec => []ArraysCarryTheirDims` |
| `TypeCheckProofs!CheckerInvariant` | `Spec => []CheckInv` |
| `TypeCheckProofs!TypeCheckAcceptsOnlyWellTyped` | `Spec => []AcceptsOnlyWellTyped` |
| `TypeCheckProofs!TypeCheckRejectsOnlyErrors` | `Spec => []RejectsOnlyErrors` |
| `TypeCheckProofs!TypeCheckAnnotationsRight` | `Spec => []AnnotationsRight` |
| `TypeCheckProofs!TypeCheckNamesHaveTheirTypes` | `Spec => []NamesHaveTheirTypes` |
| `ParsingProofs!ElementsAreKept` | `Spec => []NoElementLost` |
| `ParsingProofs!ListsAreInOrder` | `Spec => []ListsInOrder` |
| `ParsingProofs!StepsStayWithTheirLoop` | `Spec => []StepsOfTheirLoop` |
| `OutputProofs!BlockIsNeverOverrun` | `BytevecSpec => []WritesInBounds` |
| `OutputProofs!BytesAreKept` | `BytevecSpec => []NothingLost` |
| `OutputProofs!LoadsStayRight` | `Spec => []LoadsFindTheirConst` |
| `OutputProofs!HeaderHasNoDuplicates` | `Spec => []OneLineEach` |
| `ArrayInitProofs!VectorElementsApart` | elements of vectors have places of their own |
| `ArrayInitProofs!MatrixElementsApart` | so have elements of matrices, of all extents |
| `ArrayInitProofs!CubeElementsOverlap` | with three dimensions two elements share a place |
| `ArrayInitProofs!OnlyDeepLiteralsPass` | `Spec => []OnlyDeepLiterals` |
| `ArrayInitProofs!InitializersInOrder` | `Spec => []EvaluatedInOrder` |
| `ArrayInitProofs!PlanarElementsApart` | `Planar` implies `Spec => []ElementsApart` |
| `ArrayInitProofs!PlanarElementsInPlace` | `Planar` implies `Spec => []ElementsInPlace` |

They hold for every value of the constants under the named assumptions:

| Assumption | What it says |
|---|---|
| `TermsAssumption`, `TermsFinite`, `SolverAssumption` | kinds of terms are disjoint, parameters are variables, results are base types |
| `ScopesAssumption` | functions are nested as a tree, whose parts have the parser's shape; references and addresses are not `None` |
| `BuildsAssumption`, `NamesAssumption` (`Header`) | units have the parser's shape; a unit declares no name twice, which ends the compiler before it writes a header |
| `FramesAssumption`, `ProgramsAssumption` | a machine has a frame; functions are nested as a tree, and a function's parameters differ |
| `ArraysAssumption` (`Frames`; for `ArraysKeepTheirDims` only) | no function declares a name twice; an array's lengths are variables of its own, as ExtractIndices and InitLocalVars make them, and local if the array is |
| `ParsingAssumption` | which lists a program part may be |
| `ProgramsAssumption` (`ArrayInit`) | literals have the shape that the parser gives them and reach beyond no dimension; the single value is no list |
| `Planar` (`ArrayInit`; for the last two theorems only) | arrays have at most two dimensions; `CubeElementsOverlap` is why |
| `ProgramsAssumption` (`TypeCheck`) | programs are trees of `main.ccn`'s shape (`IsTree`, `Syntax`); names are declared once and used for what they are, calls have as many arguments as parameters, and an array's dimensions are variables made for them (`Names`) |
| `BytevecAssumption` | a default capacity of at least 2, which is 100 in `bytevec.c` |
| `ConstTableAssumption` | the bound on loads is a number |

*UnionFind.* `Acyclic` is stated over sets of terms (among any terms, one
points out of them or nowhere), which needs no recursion and no path. It is
not inductive alone: a compression in the middle of a call points a term to
`Top`, the innermost frame's, and a link trusts `x` and `y` to be roots. `IInv`
adds `Edges` (a pointer leads from a rigid term to compatible rigid ones only),
`FramesOK` (every frame's term leads to `Top`, and only the innermost one is a
root) and `LocalsOK` (`x` and `y` are roots from assignment to use). The
lemmas `MakeSetKeepsForest`, `CompressKeepsForest` and `LinkKeepsForest` are
the three ways in which the code writes to the table. `Root` is a recursive
function whose existence follows from `Acyclic`; a compression keeps all roots,
and a link moves the roots of one class. Answers and refinement add `RInv`:
every frame's term has the root that the call is going to return
(`FramesRooted`), `x` and `y` have the roots of the arguments (`UnifyRooted`),
and an answer fits the goal of the call (`GoalOK`). What answers and congruence
say of the components adds two more. `CInv`: in each position, parameter or
result, the functions of a class are tied, by equal roots or by recursive calls
that still wait, or the answer for some two of them was `Dropped`. (The
outermost call ties nothing before it has linked, so `Waiting` leaves it out.)
When nothing waits, equal roots are all that is left. `DInv`: the
answers that were dropped were right and stay so, as a link keeps clashing terms
apart. Hence the clash that `Congruent` speaks of.

*Scopes.* `Enclosing` is the smallest set that has a scope and what is around
it; the tree lemmas say that it is a chain, and that the innermost hit of a
lookup is one scope. `IInv` goes with the passes: `Filling` (each scope is owed
its visits once, and a table has what the visits so far put into it),
`Complete` (the tables of InitSymtables have exactly the declared names),
`Rekeyed` (the two renaming passes lose no entry) and `Checked`, with `Outcome`
for how a pass may end. `Bound`, what a lookup in complete tables finds, is then
compared with `Meaning`, what scoping says.

*Header.* In `IInv` the three counters are the numbers of the lines of their
kind so far, whatever order the hash table gives, and what the iteration has
left behind is `Written`. Signatures add `Signed`: what a line or call carries
is what the declaration says. What is pushed for the parameters is one
flattened sequence; that it equals the line's types but for numbers before
arrays is shown by induction over the number of parameters, stated with a set
of numbers and `NatLessThanWellFounded`.

*Frames.* The invariants come in layers, each with those before it: `Typed`,
`Lowering` (whose table For2While adds to), `Lowered` (the tables then),
`Indexing` (slots given so far are below the counter, parameters first),
`Emissions` (the frame size of a function covers its slots), `Labels` (`STATE`'s
newest function is the one that is generated), `Stack` (a frame's static links
lead through the activations in its `scope`) and `Carried` (an array in a frame
has its lengths in the variables before it). That the arguments of a call fit is
a fact about flattened sequences (`Spread`): parameters and arguments are both
one block after the other, the blocks have equal lengths, and so an array
argument is where the array parameter is.

*Parsing.* `Typed` and `Nested` are the shape of what is open, `Lists` says of
each list how far its two sequences have diverged, by what will be reversed and
what will not; the steps need who is `Waiting` for the pending expression, who
has `Taken` one, and that a closed loop's step is `Settled`.

*Bytevec.* `capacity` is never updated, so `BytevecInv` says what is true instead:
the block is never smaller than `capacity` or `len`, and between
`ensureCapacity` and the write it holds the bytes needed.

*ConstTable.* `IInv` adds that list and header are equal.

*ArrayInit.* `OrderInv` says of each pass what it has made so far, as a set and
an order: as a set the statements are the plan of the declarations from `left`
on (`Plans`), of those nodes of a literal that `genIndividualInit` has been
through (`Storing`) and of the dimensions (`Everything`), and the list is
`Ordered` by the places in the text. While the statements run, those that are
gone come before those that are left, and `evaluated` is what the ones gone
evaluate (`RunningInv`). The heart of it are the calls on the stack: a node and
all below it are a block of numbers, from `first` to its own, and the calls that
are to come are blocks of which each ends where the one before it in the stack
begins (`Tiles`), so that a literal is gone through from its last node to its
first, and each call has the indices at which its node stands in the text.
Induction over the nodes is stated with sets of numbers (`AllNumbers`). Stores
that are not as deep as the array remain in `stmts` until ParamDims, which
compares every one: hence `OnlyDeepLiterals`, though CheckArrDims follows the
first row only.

`MemoryInv` adds to it, while the statements run, that an allocated array has at
each place the value of its element if the statement that writes this element has
run, and `None` otherwise. It needs that two statements write different places:
the arithmetic of `dimreduce.c` is evaluated for two dimensions to i * n + j, and
rows of n places do not overlap. For three it is i * m + j * n + k, and
the element [1, 0, 0] has the place m, as has [0, m / n, m % n]. This
says of all extents what `ElementsApart` and the run `ArrayInit_threedim` say
of extents up to three.

*TypeCheck.* `CheckInv` says of every state what the traversal has done so far.
`Order` is what makes a list of places a traversal: of two places in it, the one
that comes first is to the left of the other, or below it and the other one to
be left. The list says which nodes were `Entered` and which of these were
`Left`. `LinksOK` says of the forest that each term is linked to a root, and
that some sets of terms are `Closed`, no link leading into or out of them:
terms that are not functions (`Plain`); the function terms of one name; a node
that was not left, unless a handler ties it before it visits it (`Early`: values
returned and bounds of loops); and, in a program that is well typed and not
`Mistreated`, all the terms of one type. The last is why such a program is
never refused: an equation can only fail between two types' classes. `Known`
says what the handlers leave behind: `EnterFacts` of nodes that were entered,
`LeaveFacts` of nodes that were left, each the equations of its handler (as long
as there was no error, for after one nothing is known), and of expressions that
their class is that of a type once it cannot be a variable any more
(`Grounded`), and what is in the tree for them (`Noted`). That facts stay true
rests on `Keeps`: whatever is united stays so, and a base type stays itself.
A list of equations is gone through by induction over its length, with sets of
numbers. In the end, `Right` is shown for all expressions but `Untied` ones,
by induction over the depth of the tree: an expression's class is that of its
type, which the properties compare with what is `Asked` of it.

Model-checked only:

- Liveness under fairness: `CallsReturn` of `UnionFind` and `Bytevec`, `Halts`.
- `OperandsReady`, which uses `ENABLED`.
- `CallsAsSource`, `EndsAsSource` and `OnlyNestedNodesFail` of `Codegen`: the
  handlers of the generator and the meaning of expressions recurse over trees,
  the properties compare two such recursions, and induction over data is beyond
  the prover. What the module rests on is proved elsewhere: that the types in
  the tree are right (`TypeCheck`), that index arithmetic keeps elements apart
  (`ArrayInit`), that slots, labels and static links fit (`Frames`), and that
  numbers name their lines (`Header`, `ConstTable`).
- That the assumptions have instances: TLC evaluates each one in the run of its
  module.

## 5. What is not modelled

- The lexer; the parser's `current_id`, `current_exprs` and `is_single_expr`
  (each is read by the rule reduced right after the one that sets it),
  locations, precedences.
- In the type checker: initial values and conditional expressions, which
  are not in the tree when it runs, and whether something is an array, which its
  types do not say.
- The comparison of argument counts in CheckIdentifiers, and the limit of 64
  nested scopes.
- The digits of float constants (`%f`): values are atoms.
- Printing, command line, files, memory release.
- External, modelled by how it is used: the VM (`Codegen`, `Frames`,
  `ArrayInit`), the hash table, CoCoNut's traversal order, the meaning of CiviC
  programs (`Civic`).

## 6. Disagreements found

With a run that shows it:

1. `ArrayInit_threedim`: elements of three-dimensional arrays share places.
2. `TypeCheck_returns`: a return inside of a condition or loop is not checked.

Noticed while modelling, visible as the exceptions of section 3:

- The remainder operator generates no code (`trav_codegen.c:584`).
- A loop's temporaries are declared in the function that For2While visited last,
  a local one (`trav_for2while.c:134`), and code generation looks them up in
  vain.
- The step of an outer loop is taken by an inner loop without one
  (`parser.y:443`).
- `return;` in a void function makes the checker read the node type of NULL
  (`trav_typecheck.c:213`).
- Reading an element unites the array's type with its index's, so float and
  bool arrays cannot be read with an int (`trav_typecheck.c:628`), and the
  dimensions of such an array with a literal are rejected
  (`trav_typecheck.c:588`). The index of an element assigned is not checked.
- An element of an array may be returned, or be a loop's bound, with any type:
  the value is equated before its node is visited (`trav_typecheck.c:231`, 842),
  and when the element's own equation then fails, nothing looks at the answer
  (`trav_typecheck.c:628`). The proof of `AcceptsOnlyWellTyped` brought this up.
- A sum or product of bools is refused if the classes of both operands are
  unknown when the operator is left, as it is then taken for a difference or
  quotient (`trav_typecheck.c:1066`). The proof of `RejectsOnlyErrors` brought
  this up.
- An access inside of an index is not reduced (`trav_paramdims.c:21`), and with
  several indices it fails an assertion (`trav_codegen.c:822`).
- A negation is not tied to its operand, and of an operand whose type is not
  known yet it is a float (`trav_typecheck.c:1106`).
- A call before the function's header is not checked, and neither is what uses
  its result (`trav_typecheck.c:715`). `__init` comes before the globals'
  declarations, so array lengths that are computed from globals are rejected
  (`trav_initglobalvars.c:34`).
- The signature of a function for other units leaves out the dimensions that
  calls push with an array (`trav_codegen.c:436`).
- A function called in a for loop whose counter has its name is looked up as
  that counter and rejected (`trav_mangleforloopnames.c:27`).
- An initializer that calls a local function of the same body is rejected, as
  the lookup starts one scope too far out (`symtablemangling.c:31`); if the name
  also means a function outside, the call goes to that one without a word. The
  proof of `BindsLexically` brought up the second case.
- A function of int and a function of bool are unified and `uf_unify` answers
  true, as it drops the answers of the recursive calls (`unionfindsolver.c:215`,
  218). `report.typ:245-247` says that two function types are unified only if
  their results and parameters are. Without its exception `AnswerIsRight` is
  violated for just this reason. The checker makes one function term for each
  name, so it does not meet this today; the generic functions that the report
  has in mind would.
- Once two functions of a class have parameters that clash, which nobody hears of
  (`unionfindsolver.c:215`), those of two others of that class may stay apart
  though they could be united. The proof of `Congruent` brought this up: it had
  been stated for all functions.
- A parameter named like its own dimension, and a function defined twice,
  end the compiler with a failed assertion, not an error message
  (`symtable.c:55`; `testsuite/arrays/check_error/shadowed_dimension.cvc`).
- A cast to bool inside of a cast stays in the tree and fails an assertion
  (`trav_boolcasts.c:8`, `trav_codegen.c:678`).
- A for loop whose end or step is a variable reads it in every round
  (`trav_for2while.c:13`).
- The dimensions of an array parameter are out of order from the third on
  (`parser.y:232`), and so are the arguments, from the third on, of a call
  inside of another's arguments.
- Dimensions of global arrays are evaluated in reverse, before all values
  (`trav_extractindices.c:17`); a unit that imports such an array looks for
  dimensions 0, 1, 2 where 0, 2, 4 are exported (`trav_extractindices.c:33`).
- The depth check of an array literal follows only the first row at each level
  (`trav_checkarrdims.c:30`). ParamDims turns away what is wrong in the others,
  but for empty rows, of which nothing is generated: `[[1, 2], [[]]]` passes for
  a matrix. The proof of `OnlyDeepLiterals` brought this up: it had been stated
  for all nodes and is now about those that hold expressions.
- `bytevec.c` never updates `capacity`, and reallocates at every call once it
  is exceeded.
- The report's union by rank is not in the code (`unionfindsolver.c:187`).

## 7. Plan

Done, in the order of importance: the solver, scopes, type checking, code
generation, array initialization, frames, headers and linkage, the generator's
tables, parsing; and the proofs of all safety invariants but those of `Codegen`.

Next: lemmas about the instructions of a single handler of `Codegen`, with trees
as functions of paths as in `Typing`; the limit of the 64 tables.
