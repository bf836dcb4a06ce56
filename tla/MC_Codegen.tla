----------------------------- MODULE MC_Codegen -----------------------------
(* One int, one bool and one float variable, and arrays of one and two     *)
(* dimensions.  Expressions nest three deep.                               *)
EXTENDS Codegen

X == Var("int", <<"x">>)
B == Var("bool", <<"b">>)
F == Var("float", <<"f">>)

MCEnvs == {(<<"x">> :> Value("int", n)) @@ (<<"b">> :> Value("bool", t))
             @@ (<<"f">> :> Value("float", h)) : <<n, t, h>> \in {0, 2} \X BOOLEAN \X {1}}

(* Expressions: operators over calls, whose order and number shows.        *)
Ints0   == {Num(3), X, Call(X), Call(Num(5))}
Bools0  == {B, Bool(TRUE)} \cup {Binop(o, Call(X), Num(1)) : o \in {"gt", "eq"}}
Floats0 == {Const("float", 3), F, Cast("float", Call(X))}

Ints1   == {Binop(o, l, r) : <<o, l, r>> \in {"add", "sub", "mul"} \X Ints0 \X Ints0}
           \cup {Binop("div", Call(X), Num(2)), Monop("neg", X)}
           \cup {Cast("int", e) : e \in Bools0 \cup Floats0 \cup Ints0}
Bools1  == {Binop(o, l, r) : <<o, l, r>> \in {"and", "or", "add", "mul"} \X Bools0 \X Bools0}
           \cup {Binop(o, l, r) : <<o, l, r>> \in Relational \X {X, Call(X)} \X {Num(2), Call(Num(0))}}
           \cup {Binop("lt", F, Const("float", 2))}
           \cup {Cast("bool", e) : e \in Ints0 \cup Floats0}
           \cup {Monop("not", b) : b \in Bools0}
Ints2   == {Cast("int", b) : b \in {c \in Bools1 : c.node # "cast"}}
           \cup {Binop("sub", Call(X), i) : i \in Ints1}
           \cup {Cast("int", Binop("add", Cast("float", Call(X)), f)) : f \in Floats0}
Bools2  == {Binop(o, b, Binop("gt", Call(Num(7)), X)) : <<o, b>> \in {"and", "or"} \X Bools1}
           \cup {Binop(o, B, b) : <<o, b>> \in {"and", "or"} \X Bools1}

(* An int expression is assigned and returned, a bool one is a condition.  *)
OfInt(e)  == <<Assign(<<"x">>, e), CallStmt(Call(X)), Return(X)>>
OfBool(b) == <<If(b, <<CallStmt(Call(Num(1)))>>, None), Return(Num(0))>>

ExprPrograms == {OfInt(e) : e \in Ints1 \cup Ints2} \cup {OfBool(b) : b \in Bools1 \cup Bools2}

(* Statements: loops in loops, conditions that call, an early return.      *)
I == <<"0", "i">>
J == <<"1", "i">>
Tick     == Assign(<<"x">>, Binop("add", X, Num(1)))
Leave    == If(Binop("eq", Call(X), Num(3)), <<Return(Monop("neg", X))>>, None)
Branches == If(B, <<Tick>>, <<CallStmt(Call(Num(9))), Assign(<<"b">>, Bool(TRUE))>>)

Blocks == {<<>>, <<Tick, Leave>>, <<Branches, CallStmt(Call(X))>>}
Below(n)   == Binop("lt", Call(X), Num(n))

(* The bounds of the inner loop use the counter of the outer one.          *)
Ends  == {Num(2), Monop("neg", Num(2)), Call(Num(2)), Var("int", <<"n">>)}
Steps == {None, Call(Num(2)), Monop("neg", Call(Num(1))), Call(Num(0))}
Fors(i, starts, ends, steps, blocks) ==
  {For(i, s, e, d, b) : <<s, e, d, b>> \in starts \X ends \X steps \X blocks}
Ending(s) == ~(s.step = Call(Num(0)) /\ s.end = Monop("neg", Num(2)))

ForLoops ==
  LET inner == Fors(J, {Var("int", I)}, {Num(1), Call(Var("int", I))},
                    {None, Monop("neg", Call(Num(1)))}, {<<>>, <<Leave>>})
  IN  {s \in Fors(I, {Num(0), Call(Num(1))}, Ends, Steps,
                  {<<>>, <<CallStmt(Call(Var("int", I)))>>}) : Ending(s)}
      \cup Fors(I, {Num(0)}, {Num(2), Call(Num(2))}, {None, Num(1)}, {<<t>> : t \in inner})

WhileLoops ==
  {While(Below(n), Append(b, Tick)) : <<n, b>> \in {2, 3} \X Blocks}
  \cup {DoWhile(Append(b, Tick), Below(n)) : <<n, b>> \in {2, 3} \X Blocks}
  \cup {While(Binop("and", Below(4), c), <<Tick, Branches>>) : c \in {B, Monop("not", B)}}

LoopPrograms ==
  {<<Assign(<<"n">>, Num(2)), s, CallStmt(Call(X)), Return(X)>> : s \in WhileLoops \cup ForLoops}
  \cup {<<If(Bool(t), <<s>>, <<Tick>>), Branches, Return(X)>> : <<s, t>> \in WhileLoops \X BOOLEAN}

(* A remainder, where it is needed and where it is not reached; a cast to  *)
(* bool in a cast; an end that the block moves.                            *)
ModPrograms ==
  LET mod == Binop("mod", Call(X), Num(3))
  IN  {OfInt(mod), OfInt(Binop("add", Num(1), mod)),
       <<If(B, <<Assign(<<"x">>, mod)>>, <<Tick>>), CallStmt(Call(X)), Return(X)>>}
CastPrograms ==
  {OfInt(Cast("int", Cast("bool", Binop(o, X, Num(1))))) : o \in {"add", "sub"}}
BoundPrograms ==
  {<<Assign(<<"n">>, Num(2)),
     For(I, Num(0), Var("int", <<"n">>), None, <<Assign(<<"n">>, Num(n)), CallStmt(Call(Num(4)))>>),
     Return(X)>> : n \in {0, 2}}

(* Elements are written and read with indices that call, also in loops,    *)
(* and an element can be an index.                                         *)
Dim(x, d)   == Var("int", <<x, d>>)
Vector(t)   == Array(t, <<"v">>, <<Dim("v", "0")>>)
Matrix(t)   == Array(t, <<"m">>, <<Dim("m", "0"), Dim("m", "1")>>)
Dims        == <<Assign(<<"v", "0">>, Num(3)), Assign(<<"m", "0">>, Call(Num(2))), Assign(<<"m", "1">>, Num(3))>>
Made(t)     == Dims \o <<Assign(<<"v">>, ArrInit("int", Dim("v", "0"))),
                         Assign(<<"m">>, ArrInit(t, Binop("mul", Dim("m", "0"), Dim("m", "1"))))>>
Filled      == <<AssignElement(Vector("int"), <<Num(0)>>, Call(Num(1))),
                 AssignElement(Vector("int"), <<Num(1)>>, Num(2)),
                 AssignElement(Vector("int"), <<Num(2)>>, Num(0))>>
Of(t)       == CASE t = "int" -> Call(X) [] t = "bool" -> B [] t = "float" -> F
Seen(e)     == CASE e.type = "int"  -> <<CallStmt(Call(e))>>
                 [] e.type = "bool" -> <<If(e, <<CallStmt(Call(Num(7)))>>, None)>>
                 [] OTHER           -> <<CallStmt(Call(Cast("int", e)))>>
VectorAt(e) == ArrExpr(Vector("int"), <<e>>)
Indices     == {<<Num(1), Num(2)>>, <<Call(Num(0)), Call(Num(1))>>, <<VectorAt(Num(2)), VectorAt(VectorAt(Num(0)))>>}
NestedIndices == {<<VectorAt(ArrExpr(Matrix("int"), <<Num(0), Num(0)>>)), Num(1)>>,
                  <<Cast("int", Binop("eq", ArrExpr(Matrix("int"), <<Num(0), Num(0)>>), Num(1))), Num(0)>>}

ElementPrograms ==
  {Made(t) \o Filled \o <<AssignElement(Matrix(t), <<Num(0), Num(0)>>, Of(t)),
                          AssignElement(Matrix(t), at, Of(t))>>
     \o Seen(ArrExpr(Matrix(t), at)) \o Seen(ArrExpr(Matrix(t), <<Num(0), Num(0)>>)) \o <<Return(X)>> :
     t \in {"int", "bool", "float"}, at \in Indices}
  \cup {Made("int") \o Filled \o <<AssignElement(Matrix("int"), <<Num(0), Num(0)>>, Num(2)),
                                  AssignElement(Matrix("int"), <<Num(0), Num(1)>>, Num(3)), s, Return(X)>> :
          s \in {AssignElement(Matrix("int"), at, Num(4)) : at \in NestedIndices}
                 \cup {CallStmt(Call(ArrExpr(Matrix("int"), at))) : at \in NestedIndices}}

(* A matrix filled in loops, as initializers are, and read backwards.      *)
FillPrograms ==
  LET i == Var("int", I)
      j == Var("int", J)
      fill(s) == For(I, Num(0), Dim("m", "0"), None, <<For(J, Num(0), Dim("m", "1"), None, <<s>>)>>)
      back(s) == For(I, Num(1), Monop("neg", Num(1)), Monop("neg", Num(1)),
                     <<For(J, Num(2), Monop("neg", Num(1)), Monop("neg", Num(1)), <<s>>)>>)
  IN  {Made("int") \o <<fill(AssignElement(Matrix("int"), <<i, j>>, e)),
                        back(CallStmt(Call(ArrExpr(Matrix("int"), <<i, j>>)))), Return(X)>> :
         e \in {Call(j), Binop("sub", i, j)}}

MCPrograms == ElementPrograms \cup FillPrograms \cup ExprPrograms \cup LoopPrograms \cup ModPrograms \cup CastPrograms \cup BoundPrograms
=============================================================================
