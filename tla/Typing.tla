------------------------------- MODULE Typing -------------------------------
(***************************************************************************)
(* The syntax tree as the type checker gets it, and the types that its     *)
(* expressions should have.  Names are unique: mangling is over.  Values   *)
(* of variables have become assignments, in a function "init" before all   *)
(* others for globals; array indices have become one expression.  Children *)
(* are in the order of the traversal, and a path to a node is its place.   *)
(***************************************************************************)
EXTENDS Naturals, Sequences, FiniteSets, Functions, SequencesExt, TLC

Node(kind, kids) == [kind |-> kind, kids |-> kids]

Literal(t)       == [type |-> t] @@ Node("literal", <<>>)
Var(x)           == [id |-> x] @@ Node("var", <<>>)
ArrExpr(a, i)    == [id |-> a] @@ Node("arrexpr", <<i>>)
Call(f, args)    == [id |-> f, in_stmt_pos |-> FALSE] @@ Node("call", args)
Binop(o, l, r)   == [op |-> o] @@ Node("binop", <<l, r>>)
Monop(o, e)      == [op |-> o] @@ Node("monop", <<e>>)
Cast(t, e)       == [type |-> t] @@ Node("cast", <<e>>)
ArrInit(t, len)  == [type |-> t] @@ Node("arrinit", <<len>>)

VarLet(x, index) == [id |-> x] @@ Node("varlet", index)
Assign(let, e)   == Node("assign", <<let, e>>)
CallStmt(f, args) == [Call(f, args) EXCEPT !.in_stmt_pos = TRUE]
If(c, block)     == Node("if", <<c>> \o block)
While(c, block)  == Node("while", <<c>> \o block)
DoWhile(block, c) == Node("dowhile", Append(block, c))
For(x, bounds, block) == [id |-> x, bounds |-> Len(bounds)] @@ Node("for", bounds \o block)
Return(e)        == Node("return", e)

Parameter(t, x, reduced) == [id |-> x, type |-> t, reduced |-> reduced] @@ Node("parameter", <<>>)
Header(t, f, params)     == [id |-> f, type |-> t] @@ Node("header", params)
FunDec(header)           == Node("fundec", <<header>>)
FunDef(header, vardecs, fundefs, stmts) ==
  Node("fundef", <<header>> \o vardecs \o fundefs \o stmts)
VarDec(t, x)             == [id |-> x, type |-> t, single |-> TRUE] @@ Node("vardec", <<>>)
ArrDec(t, x, dims, single) == [id |-> x, type |-> t, single |-> single] @@ Node("vardec", dims)
GlobalDec(t, x, ids)     == [id |-> x, type |-> t, ids |-> ids] @@ Node("globaldec", <<>>)
GlobalDef(t, x, dims)    == [id |-> x, type |-> t] @@ Node("globaldef", dims)
Program(decls)           == Node("program", decls)

Arithmetic == {"add", "sub", "mul", "div"}
Ordering   == {"lt", "le", "gt", "ge"}
Equality   == {"eq", "ne"}
Logical    == {"and", "or"}
Values     == {"int", "float", "bool"}

(* One path is visited before another: it leads there, or to the left.     *)
LeftOf(p, q) ==
  \E i \in DOMAIN p \cap DOMAIN q :
    p[i] < q[i] /\ \A j \in 1 .. i - 1 : p[j] = q[j]

Before(p, q) == IsStrictPrefix(p, q) \/ LeftOf(p, q)

(***************************************************************************)
(* Types.  T is a tree, a function of paths, and at a path.                *)
(***************************************************************************)
Declared(n) ==
  CASE n.kind \in {"parameter", "vardec", "globaldef"} -> {<<n.id, n.type>>}
    [] n.kind = "for" -> {<<n.id, "int">>}
    [] n.kind = "globaldec" -> {<<n.id, n.type>>} \cup {<<n.ids[i], "int">> : i \in DOMAIN n.ids}
    [] OTHER -> {}

PlaceOf(T, x)  == CHOOSE at \in DOMAIN T : \E d \in Declared(T[at]) : d[1] = x
TypeOfId(T, x) == (CHOOSE d \in Declared(T[PlaceOf(T, x)]) : d[1] = x)[2]
HeaderAt(T, f) == CHOOSE at \in DOMAIN T : T[at].kind = "header" /\ T[at].id = f

IsArithmetic(n) == n.kind = "binop" /\ n.op \in Arithmetic

(* What is below a node along first children, for as long as the children  *)
(* are those of sums, products and negations: where its type comes from.   *)
Sources(T, at) ==
  LET passes(n) == IsArithmetic(n) \/ (n.kind = "monop" /\ n.op = "neg")
  IN  {p \in DOMAIN T :
         /\ IsPrefix(at, p) /\ ~passes(T[p])
         /\ \A i \in Len(at) + 1 .. Len(p) : p[i] = 1 /\ passes(T[SubSeq(p, 1, i - 1)])}

TypeOf(T, at) ==
  LET e == T[CHOOSE p \in Sources(T, at) : TRUE]
  IN  CASE e.kind \in {"literal", "cast", "arrinit"} -> e.type
        [] e.kind \in {"var", "varlet", "arrexpr"} -> TypeOfId(T, e.id)
        [] e.kind = "call" -> T[HeaderAt(T, e.id)].type
        [] e.kind = "binop" /\ e.op = "mod" -> "int"
        [] OTHER -> "bool"

(* The elements of a list that are in a set, in their order.               *)
Those(list, S) ==
  LET upTo[i \in 0 .. Len(list)] ==
        IF i = 0 THEN <<>>
        ELSE IF list[i] \in S THEN Append(upTo[i - 1], list[i]) ELSE upTo[i - 1]
  IN  upTo[Len(list)]

(* The parameters of a header but for those that stand for an array's      *)
(* dimensions, which do not count.                                         *)
Params(header) == Those(header.kids, {p \in ToSet(header.kids) : ~p.reduced})

(* The innermost function around a node.                                   *)
FunAround(T, at) ==
  LET around == {p \in DOMAIN T : T[p].kind = "fundef" /\ IsPrefix(p, at)}
  IN  CHOOSE p \in around : \A q \in around : Len(q) <= Len(p)
ReturnType(T, at) == T[FunAround(T, at)].kids[1].type

OperandTypes(op) ==
  CASE op \in {"add", "mul"} \cup Equality -> Values
    [] op \in {"sub", "div", "neg"} \cup Ordering -> {"int", "float"}
    [] op = "mod" -> {"int"}
    [] op \in Logical \cup {"not"} -> {"bool"}

(* What a node asks of each of its children: the types it may have.        *)
Asked(T, at) ==
  LET n == T[at]
      ask(i, types) == [of |-> Append(at, i), types |-> types]
      params == Params(T[HeaderAt(T, n.id)])
  IN  CASE n.kind = "assign"  -> {ask(2, {TypeOfId(T, n.kids[1].id)})}
        [] n.kind \in {"varlet", "arrexpr", "vardec", "globaldef", "arrinit"} ->
             {ask(i, {"int"}) : i \in DOMAIN n.kids}
        [] n.kind = "call"    -> {ask(i, {params[i].type}) : i \in DOMAIN params}
        [] n.kind = "return"  -> {ask(i, {ReturnType(T, at)} \ {"void"}) : i \in DOMAIN n.kids}
        [] n.kind \in {"if", "while"} -> {ask(1, {"bool"})}
        [] n.kind = "dowhile" -> {ask(Len(n.kids), {"bool"})}
        [] n.kind = "for"     -> {ask(i, {"int"}) : i \in 1 .. n.bounds}
        [] n.kind = "monop"   -> {ask(1, OperandTypes(n.op))}
        [] n.kind = "cast"    -> {ask(1, Values)}
        [] n.kind = "binop"   -> {ask(1, OperandTypes(n.op)), ask(2, {TypeOf(T, Append(at, 1))})}
        [] OTHER -> {}

(* The children that have another type, and the nodes that asked.          *)
Misfits(T) ==
  UNION {{<<at, a.of>> : a \in {b \in Asked(T, at) : TypeOf(T, b.of) \notin b.types}}
           : at \in DOMAIN T}

WellTyped(T) == Misfits(T) = {}

(***************************************************************************)
(* The trees that reach the type checker.                                  *)
(***************************************************************************)
IsTree(T) ==
  /\ <<>> \in DOMAIN T
  /\ \E depth \in 0 .. Cardinality(DOMAIN T) : \A at \in DOMAIN T : Len(at) <= depth
  /\ \A at \in DOMAIN T :
       /\ at \in Seq(Nat)
       /\ T[at].kids \in Seq(ToSet(T[at].kids))
       /\ \A i \in DOMAIN T[at].kids : Append(at, i) \in DOMAIN T /\ T[Append(at, i)] = T[at].kids[i]
       /\ at # <<>> => /\ Front(at) \in DOMAIN T
                       /\ Last(at) \in DOMAIN T[Front(at)].kids

VarNames(T) == UNION {{d[1] : d \in Declared(T[at])} : at \in DOMAIN T}
FunNames(T) == {T[at].id : at \in {p \in DOMAIN T : T[p].kind = "header"}}

Expressions == {"literal", "var", "arrexpr", "call", "binop", "monop", "cast"}

(* Some children of a node are expressions.                                *)
Exprs(n, places) ==
  \A i \in places :
    /\ i \in DOMAIN n.kids /\ n.kids[i].kind \in Expressions
    /\ n.kids[i].kind = "call" => ~n.kids[i].in_stmt_pos

Syntax(n) ==
  /\ n.kind \in {"literal", "cast", "arrinit", "parameter", "vardec", "globaldef", "globaldec"} =>
       n.type \in Values
  /\ n.kind \in {"literal", "var", "parameter", "globaldec"} => n.kids = <<>>
  /\ n.kind = "globaldec" => n.ids \in Seq(ToSet(n.ids))
  /\ n.kind \in {"varlet", "arrexpr", "call"} => Exprs(n, DOMAIN n.kids)
  /\ n.kind = "binop" =>
       /\ Len(n.kids) = 2 /\ Exprs(n, {1, 2})
       /\ n.op \in Arithmetic \cup {"mod"} \cup Ordering \cup Equality \cup Logical
  /\ n.kind \in {"monop", "cast", "arrinit"} => Len(n.kids) = 1 /\ Exprs(n, {1})
  /\ n.kind = "monop" => n.op \in {"neg", "not"}
  /\ n.kind \in {"if", "while"} => Exprs(n, {1})
  /\ n.kind = "dowhile" => Exprs(n, {Len(n.kids)})
  /\ n.kind = "for"    => n.bounds \in {2, 3} /\ Exprs(n, 1 .. n.bounds)
  /\ n.kind = "return" => Len(n.kids) <= 1 /\ Exprs(n, DOMAIN n.kids)
  /\ n.kind = "assign" =>
       /\ Len(n.kids) = 2 /\ n.kids[1].kind = "varlet"
       /\ n.kids[2].kind = "arrinit" \/ Exprs(n, {2})
  /\ n.kind \in {"fundec", "fundef"} => 1 \in DOMAIN n.kids /\ n.kids[1].kind = "header"
  /\ n.kind = "header" =>
       n.type \in Values \cup {"void"} /\ \A i \in DOMAIN n.kids : n.kids[i].kind = "parameter"

(* What the passes before have seen to: names are declared, once, and used *)
(* for what they are; a call has as many arguments as its function has     *)
(* parameters; an array's dimensions are in variables made for them, and   *)
(* it is set to arrays of its own type.                                    *)
Names(T) ==
  /\ \A p, q \in DOMAIN T : \A d \in Declared(T[p]), e \in Declared(T[q]) :
       d[1] = e[1] => p = q /\ d = e
  /\ \A p, q \in DOMAIN T :
       T[p].kind = "header" /\ T[q].kind = "header" /\ T[p].id = T[q].id => p = q
  /\ VarNames(T) \cap FunNames(T) = {}
  /\ \A at \in DOMAIN T :
       LET n == T[at]
       IN  /\ n.kind \in {"var", "varlet", "arrexpr"} => n.id \in VarNames(T)
           /\ n.kind = "call" =>
                n.id \in FunNames(T) /\ Len(n.kids) = Len(Params(T[HeaderAt(T, n.id)]))
           /\ n.kind \in {"vardec", "globaldef"} =>
                \A i \in DOMAIN n.kids :
                  n.kids[i].kind = "var" /\ n.kids[i].id # n.id /\ TypeOfId(T, n.kids[i].id) = "int"
           /\ n.kind = "assign" /\ n.kids[2].kind = "arrinit" =>
                n.kids[2].type = TypeOfId(T, n.kids[1].id)

IsProgram(T) == IsTree(T) /\ (\A at \in DOMAIN T : Syntax(T[at])) /\ Names(T)
=============================================================================
