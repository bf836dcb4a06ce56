------------------------------- MODULE Civic -------------------------------
(***************************************************************************)
(* CiviC programs and what they mean.  A program is the body of one        *)
(* function: a sequence of statements over local variables and one         *)
(* external function of an int that records its argument and returns it,   *)
(* the side effect by which evaluation order and count are observed.       *)
(* An array's value has the elements by their indices; dimensions are      *)
(* variables, and the node of an access has what is declared of the array. *)
(*                                                                         *)
(* Nodes are built as the type checker leaves them: each expression        *)
(* carries its type.  A float is counted in halves, enough to tell it from *)
(* the int it is truncated to.  Variables are tuples of strings.           *)
(***************************************************************************)
EXTENDS Integers, SequencesExt

CONSTANT None     (* an absent child of a node                             *)

(***************************************************************************)
(* The syntax tree.                                                        *)
(***************************************************************************)
Const(t, v)       == [node |-> "const", type |-> t, val |-> v]
Num(n)            == Const("int", n)
Bool(b)           == Const("bool", b)
Var(t, x)         == [node |-> "var", type |-> t, id |-> x]
Call(e)           == [node |-> "call", type |-> "int", expr |-> e]
Cast(t, e)        == [node |-> "cast", type |-> t, expr |-> e]
Monop(o, e)       == [node |-> "monop", type |-> e.type, op |-> o, expr |-> e]
Ternary(c, a, b)  == [node |-> "ternary", type |-> a.type, cond |-> c, then |-> a, els |-> b]
Relational        == {"lt", "le", "gt", "ge", "eq", "ne"}
Binop(o, l, r)    == [node |-> "binop", op |-> o, left |-> l, right |-> r,
                      type |-> IF o \in Relational THEN "bool" ELSE l.type]

Array(t, x, dims) == [type |-> t, id |-> x, dims |-> dims]
ArrExpr(a, indices) == [node |-> "arrexpr", type |-> a.type, arr |-> a, indices |-> indices]
ArrInit(t, len)   == [node |-> "arrinit", type |-> "array", of |-> t, expr |-> len]

Assign(x, e)      == [node |-> "assign", id |-> x, expr |-> e]
AssignElement(a, indices, e) ==
  [node |-> "store", arr |-> a, indices |-> indices, expr |-> e]
CallStmt(e)       == [node |-> "callstmt", expr |-> e]
If(c, a, b)       == [node |-> "if", cond |-> c, then |-> a, els |-> b]
While(c, b)       == [node |-> "while", cond |-> c, block |-> b]
DoWhile(b, c)     == [node |-> "dowhile", cond |-> c, block |-> b]
For(i, s, e, step, b) ==
  [node |-> "for", id |-> i, start |-> s, end |-> e, step |-> step, block |-> b]
Return(e)         == [node |-> "return", expr |-> e]

Else(s) == IF s.els = None THEN <<>> ELSE s.els

(***************************************************************************)
(* Values and operators.                                                   *)
(***************************************************************************)
Value(t, v) == [type |-> t, val |-> v]

(* Integer division and the conversion to int round towards zero.          *)
Quotient(a, b) ==
  LET q == (IF a < 0 THEN -a ELSE a) \div (IF b < 0 THEN -b ELSE b)
  IN  IF (a < 0) = (b < 0) THEN q ELSE -q

Operate(o, a, b) ==
  CASE o = "add" -> Value(a.type, IF a.type = "bool" THEN a.val \/ b.val ELSE a.val + b.val)
    [] o = "mul" -> Value(a.type, IF a.type = "bool" THEN a.val /\ b.val ELSE a.val * b.val)
    [] o = "sub" -> Value(a.type, a.val - b.val)
    [] o = "div" -> Value(a.type, Quotient(a.val, b.val))
    [] o = "mod" -> Value(a.type, a.val - b.val * Quotient(a.val, b.val))
    [] o = "lt"  -> Value("bool", a.val < b.val)
    [] o = "le"  -> Value("bool", a.val <= b.val)
    [] o = "gt"  -> Value("bool", a.val > b.val)
    [] o = "ge"  -> Value("bool", a.val >= b.val)
    [] o = "eq"  -> Value("bool", a.val = b.val)
    [] o = "ne"  -> Value("bool", a.val # b.val)

OperateOne(o, a) ==
  Value(a.type, IF o = "not" THEN ~a.val ELSE -a.val)

Convert(t, a) ==
  Value(t, CASE t = a.type -> a.val
             [] t = "int" /\ a.type = "float" -> Quotient(a.val, 2)
             [] t = "int" /\ a.type = "bool"  -> IF a.val THEN 1 ELSE 0
             [] t = "float" /\ a.type = "int" -> 2 * a.val
             [] t = "float" /\ a.type = "bool" -> IF a.val THEN 2 ELSE 0
             [] OTHER -> a.val # 0)

(***************************************************************************)
(* Meaning.  A state has the variables, the arguments recorded so far and, *)
(* once a return statement ran, the result.  Evaluation yields a state and *)
(* a value.                                                                *)
(***************************************************************************)
Running(st) == st.result = None

RECURSIVE Eval(_, _), EvalAll(_, _)
Eval(e, st) ==
  CASE e.node = "const" -> [st |-> st, value |-> Value(e.type, e.val)]
    [] e.node = "var"   -> [st |-> st, value |-> st.env[e.id]]
    [] e.node = "call"  ->
         LET a == Eval(e.expr, st)
         IN  [a EXCEPT !.st.out = Append(@, a.value)]
    [] e.node = "arrexpr" ->
         LET at == EvalAll(e.indices, st)
         IN  [st |-> at.st, value |-> at.st.env[e.arr.id].val[at.vals]]
    [] e.node = "arrinit" ->
         [Eval(e.expr, st) EXCEPT !.value = Value("array", <<>>)]
    [] e.node = "cast"  ->
         LET a == Eval(e.expr, st) IN [a EXCEPT !.value = Convert(e.type, a.value)]
    [] e.node = "monop" ->
         LET a == Eval(e.expr, st) IN [a EXCEPT !.value = OperateOne(e.op, a.value)]
    [] e.node = "ternary" ->
         LET c == Eval(e.cond, st) IN Eval(IF c.value.val THEN e.then ELSE e.els, c.st)
    [] e.node = "binop" ->
         LET l == Eval(e.left, st)
         IN  IF e.op \in {"and", "or"}
             THEN IF l.value.val = (e.op = "and") THEN Eval(e.right, l.st) ELSE l
             ELSE LET r == Eval(e.right, l.st)
                  IN  [r EXCEPT !.value = Operate(e.op, l.value, r.value)]

EvalAll(es, st) ==
  FoldLeft(LAMBDA r, e : LET a == Eval(e, r.st)
                         IN  [st |-> a.st, vals |-> Append(r.vals, a.value.val)],
           [st |-> st, vals |-> <<>>], es)

(* The value is evaluated before the indices; the language leaves it open. *)
Stored(s, st) ==
  LET a  == Eval(s.expr, st)
      at == EvalAll(s.indices, a.st)
  IN  [at.st EXCEPT !.env[s.arr.id].val = (at.vals :> a.value) @@ @]

Assigned(x, a) == [a.st EXCEPT !.env = (x :> a.value) @@ @]

RECURSIVE Exec(_, _), Loop(_, _, _), Count(_, _, _, _)
Exec(stmts, st) ==
  IF stmts = <<>> \/ ~Running(st) THEN st
  ELSE LET s == Head(stmts)
           after ==
             CASE s.node = "assign"   -> Assigned(s.id, Eval(s.expr, st))
               [] s.node = "store"    -> Stored(s, st)
               [] s.node = "callstmt" -> Eval(s.expr, st).st
               [] s.node = "return"   -> LET a == Eval(s.expr, st)
                                         IN  [a.st EXCEPT !.result = a.value]
               [] s.node = "if"       -> LET c == Eval(s.cond, st)
                                         IN  Exec(IF c.value.val THEN s.then ELSE Else(s), c.st)
               [] s.node = "while"    -> Loop(s.cond, s.block, st)
               [] s.node = "dowhile"  -> Loop(s.cond, s.block, Exec(s.block, st))
               [] s.node = "for"      ->
                    LET i == Eval(s.start, st)
                        e == Eval(s.end, Assigned(s.id, i))
                        d == Eval(IF s.step = None THEN Num(1) ELSE s.step, e.st)
                    IN  Count(s, e.value.val, d.value.val, d.st)
       IN  Exec(Tail(stmts), after)

Loop(cond, block, st) ==
  IF ~Running(st) THEN st
  ELSE LET c == Eval(cond, st)
       IN  IF c.value.val THEN Loop(cond, block, Exec(block, c.st)) ELSE c.st

(* A for loop whose end and step were evaluated once, before the loop.     *)
Count(s, end, step, st) ==
  LET i == st.env[s.id].val
  IN  IF ~Running(st) \/ ~(IF step > 0 THEN i < end ELSE i > end) THEN st
      ELSE LET after == Exec(s.block, st)
           IN  Count(s, end, step,
                     IF Running(after)
                     THEN [after EXCEPT !.env[s.id].val = @ + step] ELSE after)
=============================================================================
