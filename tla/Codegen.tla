------------------------------- MODULE Codegen -------------------------------
(***************************************************************************)
(* The code generation phase: Boolcasts replaces casts to bool, For2While  *)
(* replaces for loops, and Codegen emits instructions for a stack machine. *)
(* ParamDims, which comes before, reduces array accesses to one index.     *)
(* The four traversals are operators on the trees of Civic; the machine   *)
(* that runs their output is the specification.  Generated labels are      *)
(* resolved: a branch holds the number of instructions it skips, negative  *)
(* to go back.  A constant stands for its index in the constant table.     *)
(***************************************************************************)
EXTENDS Civic

CONSTANTS Programs,   (* bodies of an int function                         *)
          Envs        (* values of its variables when it is entered        *)

(***************************************************************************)
(* ParamDims: indices and dimensions become one index.  Its handlers of    *)
(* accesses do not visit the indices.                                      *)
(***************************************************************************)
RECURSIVE arrexprIdx(_, _)
arrexprIdx(indices, dims) ==
  IF dims = <<>> THEN Head(indices)
  ELSE Binop("add", Binop("mul", Head(indices), Head(dims)),
                    arrexprIdx(Tail(indices), Tail(dims)))

Reduced(node) == [node EXCEPT !.indices = <<arrexprIdx(@, Tail(node.arr.dims))>>]

RECURSIVE ParamDimsExpr(_)
ParamDimsExpr(e) ==
  CASE e.node = "arrexpr" -> Reduced(e)
    [] e.node \in {"call", "cast", "monop", "arrinit"} -> [e EXCEPT !.expr = ParamDimsExpr(@)]
    [] e.node = "binop"   -> [e EXCEPT !.left = ParamDimsExpr(@), !.right = ParamDimsExpr(@)]
    [] OTHER              -> e

RECURSIVE ParamDims(_)
ParamDims(stmts) ==
  [k \in DOMAIN stmts |->
     LET s == stmts[k]
     IN  CASE s.node = "store" -> [Reduced(s) EXCEPT !.expr = ParamDimsExpr(@)]
           [] s.node = "if" -> [s EXCEPT !.cond = ParamDimsExpr(@), !.then = ParamDims(@),
                                 !.els = IF @ = None THEN None ELSE ParamDims(@)]
           [] s.node \in {"while", "dowhile"} ->
                [s EXCEPT !.cond = ParamDimsExpr(@), !.block = ParamDims(@)]
           [] s.node = "for" ->
                [s EXCEPT !.start = ParamDimsExpr(@), !.end = ParamDimsExpr(@),
                          !.step = IF @ = None THEN None ELSE ParamDimsExpr(@),
                          !.block = ParamDims(@)]
           [] OTHER -> [s EXCEPT !.expr = ParamDimsExpr(@)]]

(***************************************************************************)
(* Boolcasts: (bool) e becomes e != 0.  The traversal does not descend     *)
(* below a cast, whether it replaced it or not.                            *)
(***************************************************************************)
(* Faulty: only for an int.                                                *)
BoolCastOfInt(e) ==
  IF e.type # "bool" \/ e.expr.type # "int" THEN e
  ELSE Binop("ne", e.expr, Const(e.expr.type, 0))

BoolCast(e) ==
  IF e.type # "bool" \/ e.expr.type = "bool" THEN e
  ELSE Binop("ne", e.expr, Const(e.expr.type, 0))

RECURSIVE BoolcastsExpr(_)
BoolcastsExpr(e) ==
  CASE e.node = "cast"    -> BoolCast(e)
    [] e.node = "arrexpr" -> [e EXCEPT !.indices = [k \in DOMAIN @ |-> BoolcastsExpr(@[k])]]
    [] e.node \in {"call", "monop", "arrinit"} -> [e EXCEPT !.expr = BoolcastsExpr(@)]
    [] e.node = "binop"   -> [e EXCEPT !.left = BoolcastsExpr(@), !.right = BoolcastsExpr(@)]
    [] e.node = "ternary" -> [e EXCEPT !.cond = BoolcastsExpr(@), !.then = BoolcastsExpr(@),
                                       !.els = BoolcastsExpr(@)]
    [] OTHER              -> e

RECURSIVE Boolcasts(_)
Boolcasts(stmts) ==
  [k \in DOMAIN stmts |->
     LET s == stmts[k]
     IN  CASE s.node = "if" -> [s EXCEPT !.cond = BoolcastsExpr(@), !.then = Boolcasts(@),
                                 !.els = IF @ = None THEN None ELSE Boolcasts(@)]
           [] s.node \in {"while", "dowhile"} ->
                [s EXCEPT !.cond = BoolcastsExpr(@), !.block = Boolcasts(@)]
           [] s.node = "for" ->
                [s EXCEPT !.start = BoolcastsExpr(@), !.end = BoolcastsExpr(@),
                          !.step = IF @ = None THEN None ELSE BoolcastsExpr(@),
                          !.block = Boolcasts(@)]
           [] s.node = "store" ->
                [s EXCEPT !.indices = [i \in DOMAIN @ |-> BoolcastsExpr(@[i])],
                          !.expr = BoolcastsExpr(@)]
           [] OTHER -> [s EXCEPT !.expr = BoolcastsExpr(@)]]

(***************************************************************************)
(* For2While.  The new variables for end and step are named after the      *)
(* counter, which the name mangling made unique.                           *)
(***************************************************************************)
canKeepLoopExpr(e) == e.node = "var" \/ (e.node = "const" /\ e.type = "int")

(* Faulty variants stand before the definition that they are variants of.  *)
(* Faulty: a temporary is declared and never assigned to.                  *)
InitOfNone(e, x) == <<>>

KeptOr(e, x) == IF canKeepLoopExpr(e) THEN e ELSE Var("int", x)
InitUnlessKept(e, x) == IF canKeepLoopExpr(e) THEN <<>> ELSE <<Assign(x, e)>>

(* Faulty: the end is included.                                            *)
While4ForInclusive(s, block) ==
  LET step   == IF s.step = None THEN Num(1) ELSE s.step
      end2   == KeptOr(s.end, Append(s.id, "end"))
      step2  == KeptOr(step, Append(s.id, "step"))
      i      == Var("int", s.id)
  IN  If(Bool(TRUE),
         <<Assign(s.id, s.start)>>
         \o InitUnlessKept(s.end, Append(s.id, "end")) \o InitUnlessKept(step, Append(s.id, "step"))
         \o <<While(Ternary(Binop("ge", step2, Num(0)), Binop("le", i, end2), Binop("gt", i, end2)),
                    Append(block, Assign(s.id, Binop("add", i, step2))))>>,
         None)

While4For(s, block) ==
  LET i      == Var("int", s.id)
      endId  == Append(s.id, "end")
      stepId == Append(s.id, "step")
      step   == IF s.step = None THEN Num(1) ELSE s.step
      end2   == KeptOr(s.end, endId)
      step2  == KeptOr(step, stepId)
      cond   == Ternary(Binop("gt", step2, Num(0)),
                        Binop("lt", i, end2), Binop("gt", i, end2))
      inc    == Assign(s.id, Binop("add", i, step2))
  IN  If(Bool(TRUE),
         <<Assign(s.id, s.start)>>
         \o InitUnlessKept(s.end, endId)
         \o InitUnlessKept(step, stepId)
         \o <<While(cond, Append(block, inc))>>,
         None)

RECURSIVE For2While(_)
For2While(stmts) ==
  [k \in DOMAIN stmts |->
     LET s == stmts[k]
     IN  CASE s.node = "if" -> [s EXCEPT !.then = For2While(@),
                                 !.els = IF @ = None THEN None ELSE For2While(@)]
           [] s.node \in {"while", "dowhile"} -> [s EXCEPT !.block = For2While(@)]
           [] s.node = "for" -> While4For(s, For2While(s.block))
           [] OTHER -> s]

(***************************************************************************)
(* Codegen.                                                                *)
(***************************************************************************)
Ins(op, type, arg) == <<[op |-> op, type |-> type, arg |-> arg]>>

LoadConst(t, v) == Ins("loadc", t, v)
BranchF(n)      == Ins("branch_f", "bool", n)
BranchT(n)      == Ins("branch_t", "bool", n)
Jump(n)         == Ins("jump", "", n)

(* if c then a else b, with no else: the branch skips a only.              *)
IfThen(c, a)        == c \o BranchF(Len(a)) \o a
IfThenElse(c, a, b) == c \o BranchF(Len(a) + 1) \o a \o Jump(Len(b)) \o b

AndCode(l, r) == l \o BranchF(Len(r) + 1) \o r \o Jump(1) \o LoadConst("bool", FALSE)
(* Faulty: the right side comes first; a conversion is left out.           *)
BinopCodeRightFirst(e, l, r) == r \o l \o Ins(e.op, e.left.type, None)
CastCodeUnconverted(from, to, a) == a

OrCode(l, r)  == l \o BranchT(Len(r) + 1) \o r \o Jump(1) \o LoadConst("bool", TRUE)

BinopCode(e, l, r) ==
  CASE e.op = "and" -> AndCode(l, r)
    [] e.op = "or"  -> OrCode(l, r)
    [] e.op = "mod" -> <<>>
    [] OTHER        -> l \o r \o Ins(e.op, e.left.type, None)

(* A cast to bool from another type fails an assertion, see Emitted.       *)
CastCode(from, to, a) ==
  CASE from = to     -> a
    [] from = "bool" -> a \o BranchT(2) \o LoadConst(to, 0) \o Jump(1)
                          \o LoadConst(to, IF to = "int" THEN 1 ELSE 2)
    [] OTHER         -> a \o Ins("convert", from, to)

(* An element: its index, the array, and the instruction, here with the    *)
(* number of indices, of which only the first would have code.             *)
Element(op, arr, index, n) == index \o Ins("load", "array", arr.id) \o Ins(op, arr.type, n)

RECURSIVE Code(_)
Code(e) ==
  CASE e.node = "const"   -> LoadConst(e.type, e.val)
    [] e.node = "var"     -> Ins("load", e.type, e.id)
    [] e.node = "call"    -> Ins("isrg", "", None) \o Code(e.expr) \o Ins("jsre", "int", None)
    [] e.node = "arrexpr" -> Element("loada", e.arr, Code(e.indices[1]), Len(e.indices))
    [] e.node = "arrinit" -> Code(e.expr) \o Ins("newa", e.of, None)
    [] e.node = "monop"   -> Code(e.expr) \o Ins(e.op, e.type, None)
    [] e.node = "cast"    -> CastCode(e.expr.type, e.type, Code(e.expr))
    [] e.node = "ternary" -> IfThenElse(Code(e.cond), Code(e.then), Code(e.els))
    [] e.node = "binop"   -> BinopCode(e, Code(e.left), Code(e.right))

(* The condition is emitted twice: before the loop and after its block.    *)
WhileCode(c, b) ==
  c \o BranchF(Len(b) + Len(c) + 1) \o b \o c \o BranchT(-(Len(b) + Len(c) + 1))

DoWhileCode(b, c) == b \o c \o BranchT(-(Len(b) + Len(c) + 1))

ConditionalCode(s, a, b) ==
  CASE s.cond.node = "const" -> IF s.cond.val THEN a ELSE b
    [] s.cond.node # "const" /\ s.els = None -> IfThen(Code(s.cond), a)
    [] OTHER -> IfThenElse(Code(s.cond), a, b)

(* In statement position the result of a call is dropped.                  *)
CallStmtCode(s) == Code(s.expr) \o Ins("pop", s.expr.type, None)

RECURSIVE CodeBlock(_)
CodeBlock(stmts) ==
  FlattenSeq([k \in DOMAIN stmts |->
    LET s == stmts[k]
    IN  CASE s.node = "assign"   -> Code(s.expr) \o Ins("store", s.expr.type, s.id)
          [] s.node = "store"    ->
               Code(s.expr) \o Element("storea", s.arr, Code(s.indices[1]), Len(s.indices))
          [] s.node = "callstmt" -> CallStmtCode(s)
          [] s.node = "if"       -> ConditionalCode(s, CodeBlock(s.then), CodeBlock(Else(s)))
          [] s.node = "while"    -> WhileCode(Code(s.cond), CodeBlock(s.block))
          [] s.node = "dowhile"  -> DoWhileCode(CodeBlock(s.block), Code(s.cond))
          [] s.node = "return"   -> Code(s.expr) \o Ins("return", s.expr.type, None)])

Compile(stmts) == CodeBlock(For2While(Boolcasts(ParamDims(stmts))))

(* CODEGEN_cast asserts that there is no conversion to bool, and the code  *)
(* of accesses that they have one index.                                   *)
Emitted(instrs) ==
  \A k \in DOMAIN instrs :
    /\ ~(instrs[k].op = "convert" /\ instrs[k].arg = "bool")
    /\ instrs[k].op \in {"loada", "storea"} => instrs[k].arg = 1

(***************************************************************************)
(* The machine.  A frame on the stack marks a call being prepared.         *)
(***************************************************************************)
VARIABLES prog, env0,  (* the program and the variables it started with    *)
          code,        (* what was generated for it, None if nothing was   *)
          pc,          (* instructions executed or skipped so far          *)
          stack, env, out, result,
        heap         (* the arrays made so far                              *)

machine == <<pc, stack, env, out, result, heap>>
vars == <<prog, env0, code, machine>>

Frame == Value("frame", None)

Init ==
  /\ prog \in Programs /\ env0 \in Envs
  /\ \E instrs \in {Compile(prog)} : code = IF Emitted(instrs) THEN instrs ELSE None
  /\ pc = 0
  /\ stack = <<>>
  /\ env = env0
  /\ out = <<>>
  /\ result = None
  /\ heap = <<>>

(* The next instruction is one of ops and its operands, the topmost last,  *)
(* are there and of the given types.                                       *)
Current == code[pc + 1]
AtEnd == code # None /\ (result # None \/ pc = Len(code))
Operands(types) ==
  /\ Len(stack) >= Len(types)
  /\ \A k \in DOMAIN types : stack[Len(stack) - Len(types) + k].type = types[k]
Execute(ops, types) == code # None /\ ~AtEnd /\ Current.op \in ops /\ Operands(types)

Arg(k)     == stack[Len(stack) - k]      (* k values below the topmost     *)
Popped(n)  == SubSeq(stack, 1, Len(stack) - n)
Push(n, v) == stack' = Append(Popped(n), v)
Step(n)    == pc' = pc + 1 + n
Fixed      == UNCHANGED <<prog, env0, code>>

ExecLoadConst ==
  /\ Execute({"loadc"}, <<>>)
  /\ Push(0, Value(Current.type, Current.arg))
  /\ Step(0) /\ Fixed /\ UNCHANGED <<env, out, result, heap>>

ExecLoad ==
  /\ Execute({"load"}, <<>>)
  /\ Current.arg \in DOMAIN env /\ env[Current.arg].type = Current.type
  /\ Push(0, env[Current.arg])
  /\ Step(0) /\ Fixed /\ UNCHANGED <<env, out, result, heap>>

ExecStore ==
  /\ Execute({"store"}, <<Current.type>>)
  /\ env' = (Current.arg :> Arg(0)) @@ env
  /\ stack' = Popped(1)
  /\ Step(0) /\ Fixed /\ UNCHANGED <<out, result, heap>>

ExecBinary ==
  /\ Execute({"add", "sub", "mul", "div"} \cup Relational, <<Current.type, Current.type>>)
  /\ Push(2, Operate(Current.op, Arg(1), Arg(0)))
  /\ Step(0) /\ Fixed /\ UNCHANGED <<env, out, result, heap>>

ExecUnary ==
  /\ Execute({"not", "neg"}, <<Current.type>>)
  /\ Push(1, OperateOne(Current.op, Arg(0)))
  /\ Step(0) /\ Fixed /\ UNCHANGED <<env, out, result, heap>>

ExecConvert ==
  /\ Execute({"convert"}, <<Current.type>>)
  /\ Push(1, Convert(Current.arg, Arg(0)))
  /\ Step(0) /\ Fixed /\ UNCHANGED <<env, out, result, heap>>

ExecBranch ==
  /\ Execute({"branch_t", "branch_f"}, <<"bool">>)
  /\ Step(IF Arg(0).val = (Current.op = "branch_t") THEN Current.arg ELSE 0)
  /\ stack' = Popped(1)
  /\ Fixed /\ UNCHANGED <<env, out, result, heap>>

ExecJump ==
  /\ Execute({"jump"}, <<>>)
  /\ Step(Current.arg)
  /\ Fixed /\ UNCHANGED <<stack, env, out, result, heap>>

ExecPrepareCall ==
  /\ Execute({"isrg"}, <<>>)
  /\ Push(0, Frame)
  /\ Step(0) /\ Fixed /\ UNCHANGED <<env, out, result, heap>>

ExecCall ==
  /\ Execute({"jsre"}, <<"frame", "int">>)
  /\ out' = Append(out, Arg(0))
  /\ Push(2, Arg(0))
  /\ Step(0) /\ Fixed /\ UNCHANGED <<env, result, heap>>

ExecPop ==
  /\ Execute({"pop"}, <<Current.type>>)
  /\ stack' = Popped(1)
  /\ Step(0) /\ Fixed /\ UNCHANGED <<env, out, result, heap>>

ExecReturn ==
  /\ Execute({"return"}, <<Current.type>>)
  /\ result' = Arg(0)
  /\ stack' = Popped(1)
  /\ Step(0) /\ Fixed /\ UNCHANGED <<env, out, heap>>

(* An array is a reference to its elements.                                *)
ExecNewArray ==
  /\ Execute({"newa"}, <<"int">>)
  /\ heap' = Append(heap, [i \in 0 .. Arg(0).val - 1 |-> None])
  /\ Push(1, Value("array", Len(heap) + 1))
  /\ Step(0) /\ Fixed /\ UNCHANGED <<env, out, result>>

ExecLoadElement ==
  /\ Execute({"loada"}, <<"int", "array">>)
  /\ LET cells == heap[Arg(0).val]
         i     == Arg(1).val
     IN  /\ i \in DOMAIN cells /\ cells[i] # None /\ cells[i].type = Current.type
         /\ Push(2, cells[i])
  /\ Step(0) /\ Fixed /\ UNCHANGED <<env, out, result, heap>>

ExecStoreElement ==
  /\ Execute({"storea"}, <<Current.type, "int", "array">>)
  /\ Arg(1).val \in DOMAIN heap[Arg(0).val]
  /\ heap' = [heap EXCEPT ![Arg(0).val][Arg(1).val] = Arg(2)]
  /\ stack' = Popped(3)
  /\ Step(0) /\ Fixed /\ UNCHANGED <<env, out, result>>

Next ==
  \/ ExecNewArray \/ ExecLoadElement \/ ExecStoreElement
  \/ ExecLoadConst \/ ExecLoad \/ ExecStore \/ ExecBinary \/ ExecUnary \/ ExecConvert
  \/ ExecBranch \/ ExecJump \/ ExecPrepareCall \/ ExecCall \/ ExecPop \/ ExecReturn

Spec     == Init /\ [][Next]_vars
FairSpec == Spec /\ WF_vars(Next)

(***************************************************************************)
(* Properties.                                                             *)
(***************************************************************************)
Source == Exec(prog, [env |-> env0, out |-> <<>>, result |-> None])

(* All expressions in some statements.                                     *)
Inside(s) == CASE s.node = "if" -> s.then \o Else(s)
               [] s.node \in {"while", "dowhile", "for"} -> s.block
               [] OTHER -> <<>>
RECURSIVE Parts(_), ExprsOf(_)
Parts(e) ==
  {e} \cup CASE e.node = "binop" -> Parts(e.left) \cup Parts(e.right)
             [] e.node = "ternary" -> Parts(e.cond) \cup Parts(e.then) \cup Parts(e.els)
             [] e.node \in {"call", "cast", "monop", "arrinit"} -> Parts(e.expr)
             [] e.node = "arrexpr" -> UNION {Parts(i) : i \in ToSet(e.indices)}
             [] OTHER -> {}
ExprsOf(stmts) ==
  UNION {UNION {Parts(e) : e \in CASE s.node = "for" -> {s.start, s.end, s.step} \ {None}
                                   [] s.node \in {"if", "while", "dowhile"} -> {s.cond}
                                   [] s.node = "store" -> {s.expr} \cup ToSet(s.indices)
                                   [] OTHER -> {s.expr}} \cup ExprsOf(Inside(s))
           : s \in ToSet(stmts)}

(* The variables that statements assign to, and the loops among them whose *)
(* end or step is such a variable: For2While does not keep a copy of it.   *)
RECURSIVE AssignedIn(_), MovingBounds(_)
AssignedIn(stmts) ==
  UNION {(IF stmts[k].node = "assign" THEN {stmts[k].id} ELSE {}) \cup AssignedIn(Inside(stmts[k]))
           : k \in DOMAIN stmts}
MovingBounds(stmts) ==
  \E k \in DOMAIN stmts :
    \/ MovingBounds(Inside(stmts[k]))
    \/ /\ stmts[k].node = "for"
       /\ \E bound \in {stmts[k].end, stmts[k].step} \ {None} :
            bound.node = "var" /\ bound.id \in AssignedIn(stmts[k].block)

(* At every moment the external function was called with the arguments of  *)
(* the source program, in its order and never once too often: operands are *)
(* evaluated from left to right, the right side of && and || only if       *)
(* needed, the bounds of a for loop once.                                  *)
CallsAsSource == MovingBounds(prog) \/ IsPrefix(out, Source.out)

(* When the code ends, result, variables and calls are those of the source *)
(* program, and nothing is left on the stack.                              *)
EndsAsSource ==
  AtEnd => /\ stack = <<>>
           /\ \/ MovingBounds(prog)
              \/ /\ result = Source.result
                 /\ out = Source.out
                 /\ \A x \in DOMAIN Source.env :
                   Source.env[x].type = "array" \/ env[x] = Source.env[x]

(* No instruction finds too few operands or one of another type, whichever *)
(* way control came to it, but for the one after a remainder: for that     *)
(* nothing is emitted, its operands included.                              *)
Remainders(stmts) == {e \in ExprsOf(stmts) : e.node = "binop" /\ e.op = "mod"}
OperandsReady == code = None \/ AtEnd \/ Remainders(prog) # {} \/ ENABLED Next

(* The generated loops end if those of the source program do.              *)
Halts == code # None /\ Remainders(prog) = {} => <>AtEnd

(* Code generation gives up on no other program than one with a cast to    *)
(* bool inside of another cast, where Boolcasts does not look, or with an  *)
(* access of several indices inside of an index, where ParamDims does not. *)
IndexExprs(stmts) ==
  UNION {ToSet(e.indices) : e \in {d \in ExprsOf(stmts) : d.node = "arrexpr"}}
    \cup UNION {ToSet(s.indices) : s \in {r \in ToSet(stmts) : r.node = "store"}}
OnlyNestedNodesFail ==
  code = None =>
    \/ \E e \in ExprsOf(prog) : \E d \in Parts(e) \ {e} :
         e.node = "cast" /\ d.node = "cast" /\ d.type = "bool" /\ d.expr.type # "bool"
    \/ \E e \in IndexExprs(prog) : \E d \in Parts(e) :
         d.node = "arrexpr" /\ Len(d.indices) > 1
=============================================================================
