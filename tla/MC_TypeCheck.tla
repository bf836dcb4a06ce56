----------------------------- MODULE MC_TypeCheck -----------------------------
(* Programs for TypeCheck, one thing to check in each.                     *)
EXTENDS TypeCheck

(* All nodes of a program, by their paths.                                 *)
RECURSIVE Paths(_)
Paths(n) == {<<>>} \cup UNION {{<<i>> \o p : p \in Paths(n.kids[i])} : i \in DOMAIN n.kids}

RECURSIVE NodeAt(_, _)
NodeAt(n, at) == IF at = <<>> THEN n ELSE NodeAt(n.kids[at[1]], Tail(at))

Tree(program) == [at \in Paths(program) |-> NodeAt(program, at)]

Types == {"int", "float", "bool"}
NameOf(t) == CASE t = "int" -> "i" [] t = "float" -> "x" [] t = "bool" -> "b"

Lit(t) == Literal(t)
V(t)   == Var(NameOf(t))

(* Functions of other units, main with variables of each type, and a       *)
(* function that comes later.                                              *)
Locals == <<VarDec("int", "i"), VarDec("float", "x"), VarDec("bool", "b"), VarDec("int", "d"),
            ArrDec("int", "a", <<Var("d")>>, TRUE), ArrDec("float", "y", <<Var("d")>>, TRUE)>>
Externs == <<FunDec(Header("int", "geti", <<Parameter("float", "p", FALSE)>>)),
             FunDec(Header("void", "put", <<>>))>>
LaterFun == FunDef(Header("int", "later", <<Parameter("float", "q", FALSE)>>),
                   <<>>, <<>>, <<Return(<<Literal("int")>>)>>)
In(stmts) ==
  Program(Append(Externs, FunDef(Header("void", "main", <<>>), Locals, <<>>, stmts)) \o <<LaterFun>>)

Atoms ==
  {V(t) : t \in Types} \cup {Lit("int")}
    \cup {Call("geti", <<V("float")>>), Call("put", <<>>), Call("later", <<V("bool")>>)}
    \cup {ArrExpr("a", V("int")), ArrExpr("y", Lit("float"))}
Monops == {Monop(o, e) : o \in {"neg", "not"}, e \in Atoms}
Binops == {Binop(o, l, r) : o \in {"add", "sub", "mod", "and", "eq", "lt"}, l, r \in Atoms}
Few    == {V("int"), V("float"), V("bool"), Call("later", <<V("float")>>)}
Deep ==
  {Binop(o, Monop(m, l), r) : o \in {"mul", "div", "lt"}, m \in {"neg", "not"}, l, r \in Few}
    \cup {Binop(o, l, Monop("neg", r)) : o \in {"add", "sub", "or", "ne"}, l, r \in Few}
    \cup {Binop(o, Monop("neg", l), Monop("neg", r)) : o \in {"add", "sub"}, l, r \in Few}
    \cup {Monop(o, Monop(m, e)) : o, m \in {"neg", "not"}, e \in Few}
    \cup {Monop("neg", Binop(o, l, r)) : o \in {"add", "gt"}, l, r \in Few}
    \cup {Cast(t, e) : t \in Types, e \in Few \cup {Call("put", <<>>), Monop("neg", V("int"))}}

ExprStmts ==
  {Assign(VarLet(NameOf(t), <<>>), e) : t \in Types, e \in Atoms \cup Monops \cup Binops \cup Deep}

Block == <<Assign(VarLet("i", <<>>), V("int"))>>
ConditionStmts == UNION {{If(e, Block), While(e, Block), DoWhile(Block, e)} : e \in Atoms \cup Monops}

LoopStmts ==
  {For("k", bounds, <<Assign(VarLet(NameOf(t), <<>>), Var("k"))>>) :
     t \in {"int", "float"},
     bounds \in {<<l, r>> : l, r \in Few} \cup {<<Lit("int"), V("int"), e>> : e \in Few}
                  \cup {<<Lit("int"), ArrExpr(a, Lit(t))>> : a \in {"a", "y"}, t \in {"int", "float"}}}

(* Returns in the outermost list and inside of others.                     *)
ReturnPrograms ==
  {Program(<<FunDef(Header(t, "f", <<Parameter("float", "x", FALSE)>>), <<VarDec("int", "i")>>, <<>>, stmts)>>) :
     t \in {"void", "int"},
     stmts \in UNION {{<<Return(e)>>, <<If(Lit("bool"), <<Return(e)>>), Return(<<Lit("int")>>)>>,
                       <<While(Lit("bool"), <<Return(e)>>)>>} :
                        e \in {<<>>, <<V("int")>>, <<V("float")>>, <<Monop("neg", V("float"))>>}}}

(* A function returns an element of a global array, or a sum of globals or *)
(* of results, all declared after it.                                      *)
ForwardPrograms ==
  {Program(<<FunDef(Header(t, "f", <<>>), <<>>, <<>>, <<Return(<<e>>)>>),
             GlobalDef("int", "n", <<>>), GlobalDef("int", "a", <<Var("n")>>), GlobalDef("float", "y", <<Var("n")>>),
             FunDef(Header(t, "g", <<>>), <<>>, <<>>, <<Return(<<Literal(t)>>)>>)>>) :
     t \in Types,
     e \in {ArrExpr(a, Literal(u)) : a \in {"a", "y"}, u \in {"int", "float"}}
             \cup {Binop(o, Call("g", <<>>), Call("g", <<>>)) : o \in {"add", "mul", "sub"}}}

(* Calls of a function before it, in it and after it.                      *)
CallPrograms ==
  LET f(stmts) == FunDef(Header("float", "f", <<Parameter("int", "n", TRUE), Parameter("float", "v", FALSE),
                                                Parameter("bool", "w", FALSE)>>),
                         <<VarDec("float", "r")>>, <<>>, stmts \o <<Return(<<Var("r")>>)>>)
      g(stmts, name) == FunDef(Header("void", name, <<>>), <<VarDec("float", name \o "x"), VarDec("bool", name \o "b"),
                         VarDec("int", name \o "i")>>, <<>>, stmts)
      calls(pre) == {CallStmt("f", <<Var(pre \o u), Var(pre \o w)>>) : u, w \in {"x", "b", "i"}}
                      \cup {Assign(VarLet(pre \o t, <<>>), Call("f", <<Var(pre \o "x"), Var(pre \o "b")>>)) : t \in {"x", "i"}}
  IN  {Program(<<g(<<s>>, "g"), f(<<>>)>>) : s \in calls("g")}
        \cup {Program(<<f(<<>>), g(<<s>>, "g")>>) : s \in calls("g")}
        \cup {Program(<<f(<<CallStmt("f", <<Var(u), Var(w)>>)>>)>>) : u, w \in {"r", "v", "w", "n"}}
        \cup {Program(<<g(<<>>, "g"), g(<<CallStmt("g", <<>>), Assign(VarLet("hx", <<>>), Call("g", <<>>))>>, "h")>>)}

(* Arrays: made, assigned, read, and declared with a literal.              *)
ArrayStmts ==
  {Assign(VarLet("a", <<>>), ArrInit("int", e)) :
     e \in Few \cup {Var("d"), Binop("mul", Var("d"), Lit("int")), Monop("neg", Var("d"))}}
    \cup {Assign(VarLet(a, <<i>>), e) : a \in {"a", "y"}, i, e \in Few}
    \cup {Assign(VarLet(NameOf(t), <<>>), ArrExpr(a, i)) : t \in Types, a \in {"a", "y"}, i \in Few}

ArrayPrograms ==
  {Program(<<FunDef(Header("void", "f", <<>>), <<VarDec("int", "d"), ArrDec(t, "z", <<Var("d")>>, single)>>,
                    <<>>, <<Assign(VarLet("z", <<>>), ArrInit(t, Var("d")))>>)>>) : t \in Types, single \in BOOLEAN}

(* Globals, with the function that gives them their values before them.    *)
GlobalPrograms ==
  {Program(<<FunDef(Header("void", "init", <<>>), <<>>, <<>>,
                    <<Assign(VarLet("n", <<>>), l), Assign(VarLet("g", <<>>), e),
                      Assign(VarLet("v", <<>>), ArrInit("float", Var("n")))>>),
             FunDec(Header("int", "geti", <<>>)),
             GlobalDef("int", "n", <<>>), GlobalDef(t, "g", <<>>), GlobalDef("float", "v", <<Var("n")>>),
             GlobalDec("bool", "o", <<"o0", "o1">>)>>) :
     t \in Types, l \in {Lit("int"), Call("geti", <<>>)},
     e \in {Lit("float"), Var("n"), Var("o"), Var("o1"), Call("geti", <<>>),
            Binop("add", Var("n"), Lit("int")), Binop("sub", Var("o"), Var("o")), Monop("neg", Var("n"))}}

(* A local function between the declarations and the statements.           *)
LocalPrograms ==
  {Program(<<FunDef(Header("int", "f", <<Parameter("float", "x", FALSE)>>), <<VarDec("int", "i")>>,
               <<FunDef(Header(t, "l", <<Parameter("int", "j", FALSE)>>), <<>>, <<>>, <<Return(<<e>>)>>)>>,
               <<Return(<<Call("l", <<Var(u)>>)>>)>>)>>) :
     t \in {"int", "float"}, e \in {Var("j"), Var("x"), Call("f", <<Var("x")>>)}, u \in {"i", "x"}}

MainPrograms == {In(<<s>>) : s \in ExprStmts \cup ConditionStmts \cup LoopStmts \cup ArrayStmts}

MCPrograms ==
  {Tree(p) : p \in MainPrograms \cup ReturnPrograms \cup CallPrograms \cup ArrayPrograms
                     \cup GlobalPrograms \cup LocalPrograms \cup ForwardPrograms}
MCReturnPrograms == {Tree(p) : p \in ReturnPrograms}
=============================================================================
