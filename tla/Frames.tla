------------------------------- MODULE Frames -------------------------------
(***************************************************************************)
(* Nested functions from loop lowering to the running program.  For2While  *)
(* adds the temporaries of for loops to a symbol table, IndexLocals gives  *)
(* every variable of a table its slot, code generation emits each function *)
(* with (up, index) addresses, and the machine runs it on frames that are  *)
(* chained by static links.  A function's number is its place in the text: *)
(* an enclosing function has a smaller one, and 0 is the program.          *)
(***************************************************************************)
EXTENDS Naturals, Sequences, FiniteSets, Functions, FiniteSetsExt, SequencesExt

CONSTANTS Programs,  (* [parent, children, params, locals, dims, temps]:   *)
                     (* each by function                                   *)
          MaxDepth   (* frames on the machine's stack                      *)

ASSUME FramesAssumption == MaxDepth \in Nat \ {0}

(* dimreduce_params: the dimensions of an array become parameters before   *)
(* it.                                                                     *)
DimsOf(p, f, x) == IF x \in DOMAIN p.dims[f] THEN p.dims[f][x] ELSE <<>>
dimreduce_params(p, f) ==
  FlattenSeq([i \in DOMAIN p.params[f] |-> Append(DimsOf(p, f, p.params[f][i]), p.params[f][i])])

(* A function's parameters have different names, and no name is that of    *)
(* the generated or of the function kind.                                  *)
ASSUME ProgramsAssumption ==
  \A p \in Programs :
    /\ p.parent \in Seq(Nat)
    /\ \A f \in DOMAIN p.parent : p.parent[f] < f
    /\ DOMAIN p.children = DOMAIN p.parent \cup {0}
    /\ \A f \in DOMAIN p.children :
         /\ p.children[f] \in Seq(DOMAIN p.parent)
         /\ ToSet(p.children[f]) = {g \in DOMAIN p.parent : p.parent[g] = f}
    /\ \A f \in DOMAIN p.parent :
         /\ p.params[f] \in Seq(ToSet(p.params[f]))
         /\ \A x \in DOMAIN p.dims[f] : p.dims[f][x] \in Seq(ToSet(p.dims[f][x]))
         /\ IsInjective(dimreduce_params(p, f))
         /\ IsFiniteSet(p.locals[f]) /\ p.temps[f] \in Nat
         /\ {"gen", "function"} \cap (ToSet(dimreduce_params(p, f)) \cup p.locals[f]) = {}

(* No function declares a name twice, and the lengths of an array are in   *)
(* variables that belong to it alone (see Header and ArrayInit).           *)
ASSUME ArraysAssumption ==
  \A p \in Programs : \A f \in DOMAIN p.parent :
    /\ ToSet(dimreduce_params(p, f)) \cap p.locals[f] = {}
    /\ \A x \in DOMAIN p.dims[f] :
         /\ IsInjective(p.dims[f][x])
         /\ ToSet(p.dims[f][x]) \cap DOMAIN p.dims[f] = {}
         /\ \A y \in DOMAIN p.dims[f] \ {x} : ToSet(p.dims[f][x]) \cap ToSet(p.dims[f][y]) = {}
         /\ \/ x \in p.locals[f] /\ ToSet(p.dims[f][x]) \subseteq p.locals[f]
            \/ x \in ToSet(p.params[f])

VARIABLES
  prog,       (* the program                                               *)
  phase,      (* the pass that runs, then "run"; "crashed" on a NULL entry *)
  todo,       (* what the pass has left to visit, as <<part, function>>    *)
  cur,        (* cur_func and cur_symtab of For2While                      *)
  tables,     (* the keys of each function's symbol table                  *)
  index,      (* codegen_index of the variables in it                      *)
  functions,  (* STATE->functions: what is emitted, the newest first       *)
  frames      (* the frames of the machine, the newest last                *)

vars == <<prog, phase, todo, cur, tables, index, functions, frames>>

Funs == DOMAIN prog.parent
Children(f) == prog.children[f]
Visit(part, fs) == [i \in DOMAIN fs |-> <<part, fs[i]>>]

(* Logical identifiers: an identifier and the table it was declared in     *)
(* (see Scopes), a generated one and its number, or a function.            *)
Var(x, f)  == [id |-> x, of |-> f, gen |-> 0]
Temp(f, k) == [id |-> "gen", of |-> f, gen |-> k]
FunId(f)   == [id |-> "function", of |-> f, gen |-> 0]
IsFun(key) == key.id = "function"

Names(f)  == dimreduce_params(prog, f)
Params(f) == [i \in DOMAIN Names(f) |-> Var(Names(f)[i], f)]
Declared(f) ==
  ToSet(Params(f)) \cup {Var(x, f) : x \in prog.locals[f]}
    \cup {FunId(g) : g \in ToSet(Children(f))}

(* n steps of a function from its argument x.                              *)
Steps(step, x, n) == LET at[i \in 0 .. n] == IF i = 0 THEN x ELSE step[at[i - 1]] IN at[n]

(* The table n levels out, 0 beyond the program.                           *)
Up == [f \in Funs \cup {0} |-> IF f = 0 THEN 0 ELSE prog.parent[f]]
Outward(f, n) == Steps(Up, f, n)

(* symtable_lookup with its third argument: the levels passed on the way.  *)
LookupUps(f, key) == {n \in 0 .. f : key \in tables[Outward(f, n)]}
symtable_lookup(f, key) == Min(LookupUps(f, key))

Init ==
  /\ prog \in Programs
  /\ phase = "for2while"
  /\ todo = Visit("fundef", Children(0))
  /\ cur = 0
  /\ tables = [f \in Funs \cup {0} |->
                 IF f = 0 THEN {FunId(g) : g \in ToSet(Children(0))} ELSE Declared(f)]
  /\ index = [f \in Funs |-> <<>>]
  /\ functions = <<>>
  /\ frames = <<>>

At(pass, part) == phase = pass /\ todo # <<>> /\ Head(todo)[1] = part
Visited == Head(todo)[2]

(* Faulty variants stand before the definition that they are variants of.  *)
(* Faulty: the first function stays the current one.                       *)
For2WhileFundefOnce ==
  /\ At("for2while", "fundef")
  /\ cur' = IF cur = 0 THEN Visited ELSE cur
  /\ todo' = Visit("fundef", Children(Visited)) \o <<<<"stmts", Visited>>>> \o Tail(todo)
  /\ UNCHANGED <<prog, phase, tables, index, functions, frames>>

(***************************************************************************)
(* For2While: the current function is set on entry, local functions are    *)
(* visited before the statements, and nothing sets it back.                *)
(***************************************************************************)
For2WhileFundef ==
  /\ At("for2while", "fundef")
  /\ cur' = Visited
  /\ todo' = Visit("fundef", Children(Visited)) \o <<<<"stmts", Visited>>>> \o Tail(todo)
  /\ UNCHANGED <<prog, phase, tables, index, functions, frames>>

For2WhileStmts ==
  /\ At("for2while", "stmts")
  /\ tables' = [tables EXCEPT ![cur] = @ \cup {Temp(Visited, k) : k \in 1 .. prog.temps[Visited]}]
  /\ todo' = Tail(todo)
  /\ UNCHANGED <<prog, phase, cur, index, functions, frames>>

NextPass(from, to) ==
  /\ phase = from /\ todo = <<>>
  /\ phase' = to
  /\ todo' = Visit("fundef", Children(0))
  /\ UNCHANGED <<prog, cur, tables, index, functions, frames>>

(***************************************************************************)
(* IndexLocals: parameters first and in their order, then the other        *)
(* variables in the order of the hash table, which may be any.             *)
(***************************************************************************)
Others(f) == {key \in tables[f] : ~IsFun(key) /\ key \notin ToSet(Params(f))}
Slots(f, order) ==
  [key \in ToSet(Params(f)) \cup Others(f) |->
     IF key \in Others(f) THEN order[key]
     ELSE CHOOSE i \in 0 .. Len(Params(f)) - 1 : Params(f)[i + 1] = key]

(* Faulty: the count starts over after the parameters.                     *)
IndexLocalsFromZero ==
  /\ At("index", "fundef")
  /\ \E order \in Bijection(Others(Visited), 0 .. Cardinality(Others(Visited)) - 1) :
       index' = [index EXCEPT ![Visited] = Slots(Visited, order)]
  /\ todo' = Visit("fundef", Children(Visited)) \o Tail(todo)
  /\ UNCHANGED <<prog, phase, cur, tables, functions, frames>>

IndexLocals ==
  /\ At("index", "fundef")
  /\ LET f == Visited
         lo == Len(Params(f))
     IN  \E order \in Bijection(Others(f), lo .. lo + Cardinality(Others(f)) - 1) :
           index' = [index EXCEPT ![f] = Slots(f, order)]
  /\ todo' = Visit("fundef", Children(Visited)) \o Tail(todo)
  /\ UNCHANGED <<prog, phase, cur, tables, functions, frames>>

(***************************************************************************)
(* Code generation.  The statements of a function are taken to use every   *)
(* variable they can see, and to make every call they can make.            *)
(***************************************************************************)
SeenFrom(f, n) ==  (* the variables n levels out that no nearer one hides  *)
  LET names(g) == ToSet(Names(g)) \cup prog.locals[g]
  IN  {Var(x, Outward(f, n)) : x \in {y \in names(Outward(f, n)) :
                                        \A m \in 0 .. n - 1 : y \notin names(Outward(f, m))}}
Seen(f) == UNION {SeenFrom(f, n) : n \in {m \in 0 .. f : Outward(f, m) # 0}}
Used(f) == Seen(f) \cup {Temp(f, k) : k \in 1 .. prog.temps[f]}
Callable(f) == {g \in Funs : \E n \in 0 .. f : prog.parent[g] = Outward(f, n)}

IdxExprs(v) ==  (* the dimensions in a variable's entry, <<>> for a scalar *)
  LET dims == DimsOf(prog, v.of, v.id) IN [k \in DOMAIN dims |-> Var(dims[k], v.of)]

ArrayParams(g) == {v \in ToSet(Params(g)) : IdxExprs(v) # <<>>}

(* The variables that may be passed to a function: an array for an array   *)
(* of as many dimensions, anything else for a scalar.                      *)
Arguments(f, g) ==
  {args \in [DOMAIN prog.params[g] -> Seen(f)] :
     \A i \in DOMAIN args : Len(IdxExprs(args[i])) = Len(DimsOf(prog, g, prog.params[g][i]))}

Address(f, v) ==  (* CODEGEN_var: load index, or loadn up index            *)
  LET up == symtable_lookup(f, v) IN [var |-> v, up |-> up, index |-> index[Outward(f, up)][v]]

(* Faulty: an array goes before its dimensions.                            *)
PushedArrayFirst(args) == FlattenSeq([i \in DOMAIN args |-> <<args[i]>> \o IdxExprs(args[i])])

(* CODEGEN_procedurecall: an array goes after its dimensions.              *)
Pushed(args) == FlattenSeq([i \in DOMAIN args |-> Append(IdxExprs(args[i]), args[i])])
(* Faulty: isrl where isr is due, isr where isrn is.                       *)
CallCodeOneLess(f, g, args) ==
  LET pushed == Pushed(args)
      up == symtable_lookup(f, FunId(g))
  IN  [callee |-> g, up |-> IF up = 0 THEN 0 ELSE up - 1, arity |-> Len(pushed),
       args   |-> [i \in DOMAIN pushed |-> Address(f, pushed[i])]]

CallCode(f, g, args) ==
  LET pushed == Pushed(args)
  IN  [callee |-> g, up |-> symtable_lookup(f, FunId(g)), arity |-> Len(pushed),
       args   |-> [i \in DOMAIN pushed |-> Address(f, pushed[i])]]

StmtsCode(f) ==
  [loads |-> {Address(f, v) : v \in Used(f)},
   calls |-> UNION {{CallCode(f, g, args) : args \in Arguments(f, g)} : g \in Callable(f)}]

(* Faulty: local functions are generated in the midst of the function.     *)
CodegenFundefNested ==
  /\ At("codegen", "fundef")
  /\ todo' = <<<<"header", Visited>>>> \o Visit("fundef", Children(Visited))
               \o <<<<"stmts", Visited>>>> \o Tail(todo)
  /\ UNCHANGED <<prog, phase, cur, tables, index, functions, frames>>

(* Local functions are generated before the function itself.               *)
CodegenFundef ==
  /\ At("codegen", "fundef")
  /\ todo' = Visit("fundef", Children(Visited))
               \o <<<<"header", Visited>>, <<"stmts", Visited>>>> \o Tail(todo)
  /\ UNCHANGED <<prog, phase, cur, tables, index, functions, frames>>

nextFunction ==
  /\ At("codegen", "header")
  /\ \A i \in DOMAIN Params(Visited) : index[Visited][Params(Visited)[i]] = i - 1
  /\ functions' = <<[fun |-> Visited, code |-> <<>>,
                     locals |-> Cardinality(tables[Visited]) - Len(Params(Visited))]>> \o functions
  /\ todo' = Tail(todo)
  /\ UNCHANGED <<prog, phase, cur, tables, index, frames>>

LookupFails(f) == \E v \in Used(f) : LookupUps(f, v) = {}

CodegenStmts ==
  /\ At("codegen", "stmts")
  /\ ~LookupFails(Visited)
  /\ functions' = [functions EXCEPT ![1].code = Append(@, StmtsCode(Visited))]
  /\ todo' = Tail(todo)
  /\ UNCHANGED <<prog, phase, cur, tables, index, frames>>

(* The entry that is not found is used without a test.                     *)
CodegenCrash ==
  /\ At("codegen", "stmts")
  /\ LookupFails(Visited)
  /\ phase' = "crashed"
  /\ UNCHANGED <<prog, todo, cur, tables, index, functions, frames>>

CodegenDone ==
  /\ phase = "codegen" /\ todo = <<>>
  /\ phase' = "run"
  /\ UNCHANGED <<prog, todo, cur, tables, index, functions, frames>>

(***************************************************************************)
(* The machine.  isrl takes the current frame as the static link of the    *)
(* new one, isr that frame's link, and isrn the link further out, so that  *)
(* an (up) of the call is a number of links to follow.  A value is that of *)
(* an array, of one of its dimensions, or of no interest.  scope is what   *)
(* the frame should see: the frames of the functions around its own.       *)
(***************************************************************************)
Emitted(f) == CHOOSE e \in ToSet(functions) : e.fun = f
Link == [i \in 0 .. Len(frames) |-> IF i = 0 THEN 0 ELSE frames[i].link]
Linked(i, n) == Steps(Link, i, n)

Plain == [array |-> Var("none", 0), frame |-> 0, dim |-> 0]
ValueAt(i, a) ==
  LET j == Linked(i, a.up)
  IN  IF j # 0 /\ a.index \in DOMAIN frames[j].mem THEN frames[j].mem[a.index] ELSE Plain

(* The values of a new frame: its arguments, and its own arrays made.      *)
Made(v, i, f) ==
  LET arrays == {a \in {Var(x, f) : x \in prog.locals[f]} : IdxExprs(a) # <<>>}
      one == {[array |-> a, frame |-> i, dim |-> 0] : a \in arrays \cap {v}}
      dim == UNION {{[array |-> a, frame |-> i, dim |-> k] :
                       k \in {j \in DOMAIN IdxExprs(a) : IdxExprs(a)[j] = v}} : a \in arrays}
  IN  IF one \cup dim = {} THEN Plain ELSE CHOOSE m \in one \cup dim : TRUE

NewFrame(f, link, args, scope) ==
  LET i == Len(frames) + 1
      size == Len(args) + Emitted(f).locals
      slots == {key \in DOMAIN index[f] : index[f][key] >= Len(args)}
  IN  [fun |-> f, link |-> link,
       scope |-> [g \in {f} \cup DOMAIN scope |-> IF g = f THEN i ELSE scope[g]],
       mem |-> [s \in 0 .. size - 1 |->
                  IF s < Len(args) THEN args[s + 1]
                  ELSE IF \E key \in slots : index[f][key] = s
                       THEN Made(CHOOSE key \in slots : index[f][key] = s, i, f)
                       ELSE Plain]]

Start ==
  /\ phase = "run" /\ frames = <<>>
  /\ \E f \in ToSet(Children(0)) :
       prog.params[f] = <<>> /\ frames' = <<NewFrame(f, 0, <<>>, <<>>)>>
  /\ UNCHANGED <<prog, phase, todo, cur, tables, index, functions>>

Top == Len(frames)
CodeOf(f) == IF Emitted(f).code = <<>> THEN [loads |-> {}, calls |-> {}] ELSE Emitted(f).code[1]

Call ==
  /\ phase = "run" /\ frames # <<>> /\ Top < MaxDepth
  /\ \E c \in CodeOf(frames[Top].fun).calls :
       LET args == [i \in 1 .. c.arity |-> ValueAt(Top, c.args[i])]
           seen == {f \in DOMAIN frames[Top].scope : \E n \in 1 .. c.callee : f = Outward(c.callee, n)}
       IN  frames' = Append(frames, NewFrame(c.callee, Linked(Top, c.up), args,
                                             [f \in seen |-> frames[Top].scope[f]]))
  /\ UNCHANGED <<prog, phase, todo, cur, tables, index, functions>>

Return ==
  /\ phase = "run" /\ frames # <<>>
  /\ frames' = Front(frames)
  /\ UNCHANGED <<prog, phase, todo, cur, tables, index, functions>>

Next ==
  \/ For2WhileFundef \/ For2WhileStmts
  \/ NextPass("for2while", "index") \/ IndexLocals
  \/ NextPass("index", "codegen") \/ CodegenFundef \/ nextFunction \/ CodegenStmts \/ CodegenCrash
  \/ CodegenDone
  \/ Start \/ Call \/ Return

Spec == Init /\ [][Next]_vars

(***************************************************************************)
(* Properties.                                                             *)
(***************************************************************************)
(* Code generation misses an entry in no other program than one where a    *)
(* function has local functions and a loop that needs a temporary.         *)
OnlyOuterLoopsFail ==
  phase = "crashed" => \E f \in Funs : prog.temps[f] > 0 /\ Children(f) # <<>>

(* Variables of a function never share a slot, and every slot is within    *)
(* the frame: the parameters' and those that esr makes room for.           *)
SlotsApart ==
  \A e \in ToSet(functions) :
    LET slots == index[e.fun]
    IN  /\ \A v, w \in DOMAIN slots : slots[v] = slots[w] => v = w
        /\ \A v \in DOMAIN slots : slots[v] < Len(Params(e.fun)) + e.locals

(* The instructions of a function, its local functions' aside, are under   *)
(* its label: when all is generated each label has its statements, once.   *)
CodeUnderItsLabel ==
  phase = "run" =>
    \A f \in Funs : \E e \in ToSet(functions) : e.fun = f /\ e.code = <<StmtsCode(f)>>

(* Following static links leads a load to the activation of the declaring  *)
(* function that the caller saw, whatever the recursion, and to its slot.  *)
LoadsReachTheirVariable ==
  \A i \in DOMAIN frames : \A l \in CodeOf(frames[i].fun).loads :
    /\ Linked(i, l.up) = frames[i].scope[l.var.of]
    /\ l.index = index[l.var.of][l.var]

(* A parameter that is an array comes with its own dimensions, in order,   *)
(* however many calls it was handed through.                               *)
ArraysCarryTheirDims ==
  \A i \in DOMAIN frames : \A v \in ArrayParams(frames[i].fun) :
    LET slot(w) == frames[i].mem[index[frames[i].fun][w]]
    IN  \A k \in DOMAIN IdxExprs(v) : slot(IdxExprs(v)[k]) = [slot(v) EXCEPT !.dim = k]
=============================================================================
