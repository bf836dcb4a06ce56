----------------------------- MODULE TypeCheck -----------------------------
(***************************************************************************)
(* The type checker, ctxanalysis/trav_typecheck.c: a traversal whose       *)
(* handlers hand equations between type terms to the solver (see UnionFind *)
(* for what happens inside of one; here it is atomic) and write the types  *)
(* that code generation will read into the expressions.  todo is what the  *)
(* traversal has before it: places to visit, and places to leave once      *)
(* their children were visited.                                            *)
(*                                                                         *)
(* A call's number of arguments was compared by CheckIdentifiers, so the   *)
(* checker's own comparison always succeeds and is left out; so are the    *)
(* initial values of declarations, which earlier passes have removed, and  *)
(* conditional expressions, which no pass before this one makes.           *)
(* Faulty variants stand before the definition that they are variants of.  *)
(***************************************************************************)
EXTENDS Typing

CONSTANT Programs      (* trees: functions from the paths of their nodes *)

ASSUME ProgramsAssumption == \A T \in Programs : IsProgram(T)

VARIABLES
  tree,      (* the program: its nodes, by their paths                     *)
  phase,     (* "check", then "accepted", "rejected" or "crashed"          *)
  todo,      (* the traversal: <<"visit" or "leave", path>>, the next first *)
  links,     (* the solver: the term that each term is linked to           *)
  typable,   (* no error so far                                            *)
  ann        (* EXPR_TYPE of the expressions that have one                 *)

vars == <<tree, phase, todo, links, typable, ann>>

(***************************************************************************)
(* Type terms: the base types, a variable for each node and each name, and *)
(* functions, which are told apart by the place that made them.            *)
(***************************************************************************)
Base(t)      == <<"base", t>>
IdVar(x)     == <<"id", x>>
NodeVar(at)  == <<"node", at>>
IsVar(t)     == t[1] \in {"id", "node"}
IsFun(t)     == t[1] = "fun"
FunTerm(at, params, ret) == <<"fun", at, params, ret>>

(* uf_find, when every path was compressed: a term is linked to its root.  *)
Find(l, t)    == IF t \in DOMAIN l THEN l[t] ELSE t
Link(l, x, y) == [t \in DOMAIN l \cup {x} |-> IF Find(l, t) = x THEN y ELSE Find(l, t)]

(* uf_unify of terms that are not both functions: the links that it leaves *)
(* and its answer.                                                         *)
UnifyTypes(l, s, t) ==
  LET x == Find(l, s)
      y == Find(l, t)
  IN  CASE x = y                          -> [links |-> l, ok |-> TRUE]
        [] x # y /\ IsVar(x)              -> [links |-> Link(l, x, y), ok |-> TRUE]
        [] x # y /\ ~IsVar(x) /\ IsVar(y) -> [links |-> Link(l, y, x), ok |-> TRUE]
        [] OTHER                          -> [links |-> l, ok |-> FALSE]

UnifyAll(l, pairs) ==
  LET upTo[i \in 0 .. Len(pairs)] ==
        IF i = 0 THEN [links |-> l, ok |-> TRUE]
        ELSE LET u == UnifyTypes(upTo[i - 1].links, pairs[i][1], pairs[i][2])
             IN  [links |-> u.links, ok |-> upTo[i - 1].ok /\ u.ok]
  IN  upTo[Len(pairs)]

(* uf_unify.  Its answer for functions is not that for their parameters,   *)
(* which are variables of names, or for their results, which are bases.    *)
Unify(l, s, t) ==
  LET x == Find(l, s)
      y == Find(l, t)
  IN  IF x # y /\ IsFun(x) /\ IsFun(y) /\ Len(x[3]) = Len(y[3])
      THEN [links |-> UnifyAll(Link(l, x, y),
                               Append([i \in DOMAIN x[3] |-> <<x[3][i], y[3][i]>>], <<x[4], y[4]>>)).links,
            ok    |-> TRUE]
      ELSE UnifyTypes(l, s, t)

(* The type a term stands for, as gettermBT gives it: BT_NULL, here "void", *)
(* for a variable too.                                                     *)
TypeOfTerm(l, t) ==
  LET r == Find(l, t)
  IN  CASE IsVar(r) -> "void"
        [] IsFun(r) -> r[4][2]
        [] OTHER    -> r[2]

Is(l, t, type) == Find(l, t) = Base(type)      (* forbid_bool asks for bool *)

(***************************************************************************)
(* The traversal.                                                          *)
(***************************************************************************)
Init ==
  /\ tree \in Programs
  /\ phase = "check"
  /\ todo = <<<<"visit", <<>>>>>>
  /\ links = <<>>
  /\ typable = TRUE
  /\ ann = [at \in {p \in DOMAIN tree : tree[p].kind = "arrinit"} |-> tree[at].type]

Here     == Head(todo)[2]
Node_    == tree[Here]
Kid(i)   == Append(Here, i)
KidVar(i) == NodeVar(Kid(i))

On(event, kinds) ==
  /\ phase = "check" /\ todo # <<>>
  /\ Head(todo)[1] = event /\ Node_.kind \in kinds

TRAVchildren ==
  todo' = [i \in DOMAIN Node_.kids |-> <<"visit", Kid(i)>>] \o <<<<"leave", Here>>>> \o Tail(todo)

Leave == todo' = Tail(todo)

(* Equations, and an error unless all have an answer.                      *)
Equate(pairs) ==
  LET r == UnifyAll(links, pairs)
  IN  links' = r.links /\ typable' = (typable /\ r.ok)

Annotate(t) == ann' = [at \in DOMAIN ann \cup {Here} |-> IF at = Here THEN t ELSE ann[at]]

(* Handlers that do something before they visit the children.              *)
EagerKinds == {"fundec", "header", "fundef", "for"}
(* Handlers that only visit the children.                                  *)
PlainKinds == {"program", "return"}

Visit ==
  /\ phase = "check" /\ todo # <<>> /\ Head(todo)[1] = "visit"
  /\ Node_.kind \notin EagerKinds
  /\ TRAVchildren
  /\ UNCHANGED <<tree, phase, links, typable, ann>>

LeavePlain ==
  /\ On("leave", PlainKinds \cup EagerKinds)
  /\ Leave
  /\ UNCHANGED <<tree, phase, links, typable, ann>>

(***************************************************************************)
(* Declarations.                                                           *)
(***************************************************************************)
HeaderHere == IF Node_.kind = "header" THEN Node_ ELSE Node_.kids[1]

(* A header's function term has the variables of the parameters' names;    *)
(* those that stand for an array's dimensions do not count.                *)
FunType(at, h) ==
  FunTerm(at, [i \in DOMAIN Params(h) |-> IdVar(Params(h)[i].id)], Base(h.type))

(* The handlers of declarations do what those of their headers do again.   *)
FunHeader ==
  /\ On("visit", {"fundec", "header"})
  /\ LET r == Unify(links, IdVar(HeaderHere.id), FunType(Here, HeaderHere))
     IN  links' = r.links /\ typable' = (typable /\ r.ok)
  /\ TRAVchildren
  /\ UNCHANGED <<tree, phase, ann>>

(* The returns in the outermost list of statements, before anything of the *)
(* function was visited.                                                   *)
OuterReturns(n) == {i \in DOMAIN n.kids : n.kids[i].kind = "return"}

(* One equation for each; any other child stands for none, which the type  *)
(* of the result with itself is.                                           *)
FunDefReturns ==
  LET ret == Base(Node_.kids[1].type)
  IN  [i \in DOMAIN Node_.kids |->
         <<IF i \in OuterReturns(Node_) THEN NodeVar(Append(Kid(i), 1)) ELSE ret, ret>>]

(* A function without a result objects to every expression returned: its   *)
(* variable is not that of void yet.                                       *)
FunDefEnter ==
  /\ On("visit", {"fundef"})
  /\ \A i \in OuterReturns(Node_) : Node_.kids[i].kids # <<>>
  /\ LET r == UnifyAll(links, FunDefReturns)
     IN  /\ links' = r.links
         /\ typable' = (typable /\ r.ok /\ (Node_.kids[1].type = "void" => OuterReturns(Node_) = {}))
  /\ TRAVchildren
  /\ UNCHANGED <<tree, phase, ann>>

(* typeVariable of an expression that is not there.                        *)
FunDefCrash ==
  /\ On("visit", {"fundef"})
  /\ \E i \in OuterReturns(Node_) : Node_.kids[i].kids = <<>>
  /\ phase' = "crashed"
  /\ UNCHANGED <<tree, todo, links, typable, ann>>

KidsAre(t) == [i \in DOMAIN Node_.kids |-> <<KidVar(i), Base(t)>>]
NameIs(t)  == <<<<IdVar(Node_.id), Base(t)>>>>

(* Faulty: the sizes of an array get no type.                              *)
FaultyGlobalDec ==
  /\ On("leave", {"globaldec"})
  /\ Equate(NameIs(Node_.type))
  /\ Leave
  /\ UNCHANGED <<tree, phase, ann>>

GlobalDec_ ==
  /\ On("leave", {"globaldec"})
  /\ Equate(NameIs(Node_.type) \o [i \in DOMAIN Node_.ids |-> <<IdVar(Node_.ids[i]), Base("int")>>])
  /\ Leave
  /\ UNCHANGED <<tree, phase, ann>>

GlobalDef_ ==
  /\ On("leave", {"globaldef"})
  /\ Equate(NameIs(Node_.type) \o KidsAre("int"))
  /\ Leave
  /\ UNCHANGED <<tree, phase, ann>>

Parameter_ ==
  /\ On("leave", {"parameter"})
  /\ Equate(NameIs(Node_.type))
  /\ Leave
  /\ UNCHANGED <<tree, phase, ann>>

(* The dimensions of an array with a literal are made to be of the type of *)
(* its elements.                                                           *)
VarDec_ ==
  /\ On("leave", {"vardec"})
  /\ Equate(NameIs(Node_.type) \o IF Node_.single THEN <<>> ELSE KidsAre(Node_.type))
  /\ Leave
  /\ UNCHANGED <<tree, phase, ann>>

(***************************************************************************)
(* Statements.                                                             *)
(***************************************************************************)
VarLet_ ==
  /\ On("leave", {"varlet"})
  /\ Equate(<<<<IdVar(Node_.id), NodeVar(Here)>>>>)
  /\ Leave
  /\ UNCHANGED <<tree, phase, ann>>

Assign_ ==
  /\ On("leave", {"assign"})
  /\ Equate(<<<<KidVar(1), KidVar(2)>>>>)
  /\ Leave
  /\ UNCHANGED <<tree, phase, ann>>

(* Conditionals and both kinds of while loop.                              *)
Condition ==
  /\ On("leave", {"if", "while", "dowhile"})
  /\ LET place == IF Node_.kind = "dowhile" THEN Len(Node_.kids) ELSE 1
     IN  Equate(<<<<KidVar(place), Base("bool")>>>>)
  /\ Leave
  /\ UNCHANGED <<tree, phase, ann>>

(* The loop's start value, its variable, its end, and its step if it has   *)
(* one.                                                                    *)
ForEnter ==
  /\ On("visit", {"for"})
  /\ Equate(<<<<Base("int"), KidVar(1)>>, <<Base("int"), IdVar(Node_.id)>>>>
              \o [i \in 1 .. Node_.bounds - 1 |-> <<Base("int"), KidVar(i + 1)>>])
  /\ TRAVchildren
  /\ UNCHANGED <<tree, phase, ann>>

(***************************************************************************)
(* Expressions.                                                            *)
(***************************************************************************)
(* A variable gets the type that its name has when it is visited.          *)
Var_ ==
  /\ On("leave", {"var"})
  /\ LET r == UnifyAll(links, <<<<NodeVar(Here), IdVar(Node_.id)>>>>)
     IN  /\ links' = r.links
         /\ typable' = (typable /\ r.ok)
         /\ Annotate(TypeOfTerm(r.links, NodeVar(Here)))
  /\ Leave
  /\ UNCHANGED <<tree, phase>>

(* The array's name is tied to the element read and to its indices; the    *)
(* answer for the element is not looked at.                                *)
ArrExpr_ ==
  /\ On("leave", {"arrexpr"})
  /\ LET element == UnifyTypes(links, NodeVar(Here), IdVar(Node_.id)).links
         r == UnifyAll(element, [i \in DOMAIN Node_.kids |-> <<IdVar(Node_.id), KidVar(i)>>])
     IN  /\ links' = r.links
         /\ typable' = (typable /\ r.ok)
         /\ Annotate(TypeOfTerm(r.links, NodeVar(Here)))
  /\ Leave
  /\ UNCHANGED <<tree, phase>>

(* A call in an expression or as a statement; nothing is checked of a call *)
(* of a function whose header was not visited yet.                         *)
Call_ ==
  /\ On("leave", {"call"})
  /\ LET callee == Find(links, IdVar(Node_.id))
     IN  IF ~IsFun(callee)
         THEN UNCHANGED <<links, typable, ann>>
         ELSE /\ Equate([i \in DOMAIN callee[3] |-> <<KidVar(i), callee[3][i]>>]
                          \o <<<<NodeVar(Here), callee[4]>>>>)
              /\ IF Node_.in_stmt_pos THEN UNCHANGED ann ELSE Annotate(callee[4][2])
  /\ Leave
  /\ UNCHANGED <<tree, phase>>

(* Faulty: the operands of a logical operator may be of any type.          *)
FaultyBinopPairs(op, l) ==
  CASE op \in Logical \cup Equality \cup Ordering -> <<<<Base("bool"), NodeVar(Here)>>>>
    [] op = "mod"     -> <<<<Base("int"), NodeVar(Here)>>, <<l, NodeVar(Here)>>>>
    [] op \in Arithmetic -> <<<<l, NodeVar(Here)>>>>

(* What an operator equates, once its operands, whose classes were l and   *)
(* r, are tied.                                                            *)
BinopPairs(op, l) ==
  LET node == NodeVar(Here)
  IN  CASE op \in Logical -> <<<<Base("bool"), node>>, <<l, node>>>>
        [] op = "mod"     -> <<<<Base("int"), node>>, <<l, node>>>>
        [] op \in Equality \cup Ordering -> <<<<Base("bool"), node>>>>
        [] op \in Arithmetic -> <<<<l, node>>>>

(* Faulty: only the left operand is looked at.                             *)
FaultyBinopType(op, l, r) ==
  CASE op \in Logical \cup Equality \cup Ordering -> "bool"
    [] op = "mod" -> "int"
    [] op \in Arithmetic -> IF IsVar(l) THEN "unset" ELSE l[2]

(* The result's type in the tree: "unset" when no operand's type is known. *)
BinopType(op, l, r) ==
  LET either(t) == Base(t) \in {l, r}
  IN  CASE op \in Logical \cup Equality \cup Ordering -> "bool"
        [] op = "mod" -> "int"
        [] op \in Arithmetic /\ either("int") -> "int"
        [] op \in Arithmetic /\ ~either("int") /\ either("float") -> "float"
        [] op \in {"add", "mul"} /\ ~either("int") /\ ~either("float") /\ either("bool") -> "bool"
        [] OTHER -> "unset"

(* Faulty: all comparisons are treated alike.                              *)
FaultyBoolForbidden(op, l, r) ==
  op \in Ordering \cup Equality \/ (op \in Arithmetic /\ BinopType(op, l, r) = "unset")

(* Where a bool is an error.                                               *)
BoolForbidden(op, l, r) == op \in Ordering \/ (op \in Arithmetic /\ BinopType(op, l, r) = "unset")

Binop_ ==
  /\ On("leave", {"binop"})
  /\ LET l    == Find(links, KidVar(1))
         r    == Find(links, KidVar(2))
         op   == Node_.op
         tied == UnifyTypes(links, l, KidVar(2))
         all  == UnifyAll(tied.links, BinopPairs(op, l))
         bool == BoolForbidden(op, l, r) /\ Is(all.links, l, "bool")
         type == BinopType(op, l, r)
     IN  /\ links' = all.links
         /\ typable' = (typable /\ tied.ok /\ all.ok /\ ~bool)
         /\ IF type = "unset" THEN UNCHANGED ann ELSE Annotate(type)
  /\ Leave
  /\ UNCHANGED <<tree, phase>>

(* The operand's type goes into the tree, but is not tied to the node.     *)
Negation ==
  /\ On("leave", {"monop"}) /\ Node_.op = "neg"
  /\ typable' = (typable /\ ~Is(links, KidVar(1), "bool"))
  /\ Annotate(IF Is(links, KidVar(1), "int") THEN "int" ELSE "float")
  /\ Leave
  /\ UNCHANGED <<tree, phase, links>>

Not_ ==
  /\ On("leave", {"monop"}) /\ Node_.op = "not"
  /\ Equate(<<<<KidVar(1), Base("bool")>>>>)
  /\ Annotate("bool")
  /\ Leave
  /\ UNCHANGED <<tree, phase>>

CastOrLiteral ==
  /\ On("leave", {"cast", "literal"})
  /\ Equate(<<<<NodeVar(Here), Base(Node_.type)>>>>)
  /\ Annotate(Node_.type)
  /\ Leave
  /\ UNCHANGED <<tree, phase>>

(* The length's type is read from the tree.                                *)
ArrInit_ ==
  /\ On("leave", {"arrinit"})
  /\ typable' = (typable /\ Kid(1) \in DOMAIN ann /\ ann[Kid(1)] = "int")
  /\ Leave
  /\ UNCHANGED <<tree, phase, links, ann>>

(* TYPECHECK_fini.                                                         *)
Fini ==
  /\ phase = "check" /\ todo = <<>>
  /\ phase' = IF typable THEN "accepted" ELSE "rejected"
  /\ UNCHANGED <<tree, todo, links, typable, ann>>

Declaration == FunHeader \/ FunDefEnter \/ FunDefCrash \/ GlobalDec_ \/ GlobalDef_ \/ Parameter_ \/ VarDec_
Statement   == VarLet_ \/ Assign_ \/ Condition \/ ForEnter
Expression  == Var_ \/ ArrExpr_ \/ Call_ \/ Binop_ \/ Negation \/ Not_ \/ CastOrLiteral \/ ArrInit_

Next == Visit \/ LeavePlain \/ Declaration \/ Statement \/ Expression \/ Fini

Spec == Init /\ [][Next]_vars

(***************************************************************************)
(* What the checker does not know.  Its equations do not reach the node of *)
(* a negation, whose type it looks up but does not tie to the operand's,   *)
(* nor that of a call before its function: such an expression goes with    *)
(* every type.                                                             *)
(***************************************************************************)
Forward(T, at) == T[at].kind = "call" /\ ~Before(HeaderAt(T, T[at].id), at)
Later(T, at)   == T[at].kind \in {"var", "arrexpr"} /\ ~Before(PlaceOf(T, T[at].id), at)

(* What is below a node and nothing but sums and products.                 *)
Operands(T, at) ==
  {p \in DOMAIN T :
     /\ IsPrefix(at, p) /\ ~IsArithmetic(T[p])
     /\ \A i \in Len(at) + 1 .. Len(p) : IsArithmetic(T[SubSeq(p, 1, i - 1)])}

(* The leftmost of them decides.                                           *)
Untied(T, at) ==
  \E p \in Operands(T, at) :
    /\ \A i \in Len(at) + 1 .. Len(p) : p[i] = 1
    /\ T[p].kind = "monop" \/ Forward(T, p)

(* A class that may still be a variable when the node is left.             *)
Unknown(T, at) ==
  \A p \in Operands(T, at) : T[p].kind = "monop" \/ Forward(T, p) \/ Later(T, p)

(* The type in the tree may not be the expression's.                       *)
Unsure(T, at) ==
  \/ Forward(T, at)
  \/ Later(T, at)
  \/ T[at].kind = "monop" /\ T[at].op = "neg" /\ Unknown(T, Append(at, 1))
  \/ IsArithmetic(T[at]) /\ Unknown(T, at)

OfOuterList(T, at) == T[Front(at)].kind = "fundef"
NotOfInts(T, n)    == TypeOfId(T, n.id) # "int"

(* Where a bool should be an error but its class may be a variable.        *)
BoolUnseen(T, at, e) ==
  /\ TypeOf(T, e) = "bool"
  /\ \/ T[at].kind = "monop" /\ T[at].op = "neg"
     \/ T[at].kind = "binop" /\ T[at].op \in Ordering \cup {"sub", "div"}
  /\ \A i \in DOMAIN T[at].kids : Unknown(T, Append(at, i))

Excused(T, at, e) ==
  LET n == T[at]
  IN  \/ Untied(T, e) \/ (n.kind = "binop" /\ Untied(T, Append(at, 1)))
      \/ n.kind = "return" /\ ~OfOuterList(T, at)
      \/ n.kind \in {"return", "for"} /\ T[e].kind = "arrexpr"
      \/ Forward(T, at)
      \/ n.kind = "varlet"
      \/ n.kind = "arrexpr" /\ NotOfInts(T, n)
      \/ TypeOf(T, e) = "void" /\ n.kind \in {"binop", "monop", "cast"}
      \/ BoolUnseen(T, at, e)

(* A well typed program is refused for these reasons only.                 *)
Mistreated(T, at) ==
  LET n == T[at]
  IN  \/ n.kind = "arrexpr" /\ NotOfInts(T, n)
      \/ n.kind = "vardec" /\ ~n.single /\ n.type # "int"
      \/ n.kind = "arrinit" /\ Unsure(T, Append(at, 1))
      \/ /\ n.kind = "binop" /\ n.op \in {"add", "mul"} /\ TypeOf(T, at) = "bool"
         /\ Unknown(T, at)

(***************************************************************************)
(* Properties.                                                             *)
(***************************************************************************)
(* A program that goes on to code generation is well typed, but for errors *)
(* of these kinds: an operand that the equations do not reach; a return    *)
(* inside of a condition or loop; an element read as the value returned or *)
(* as a loop's bound, since these are equated before the element is, and   *)
(* the answer for the element is not looked at; arguments of a call before *)
(* the function; the index of an element assigned; the index of an element *)
(* read of an array of another type than int; a call without a result as   *)
(* operand of an operator that has no type of its own; a bool where no     *)
(* class was known when bools were to be refused.                          *)
AcceptsOnlyWellTyped ==
  phase = "accepted" => \A m \in Misfits(tree) : Excused(tree, m[1], m[2])

(* A well typed program is refused for these reasons only: it reads an     *)
(* element of an array that is not of ints, whose index has to be of the   *)
(* elements' type; it has a local array of that kind with a literal, whose *)
(* dimensions have to be; it makes an array whose length was computed from *)
(* names that come later; or it adds or multiplies bools of classes that   *)
(* are not known yet, for which bools are refused as they are for other    *)
(* operators.  And the checker ends early at a return without a value only. *)
RejectsOnlyErrors ==
  /\ phase = "rejected" /\ WellTyped(tree) => \E at \in DOMAIN tree : Mistreated(tree, at)
  /\ phase = "crashed" =>
       \E at \in DOMAIN tree :
         tree[at].kind = "return" /\ tree[at].kids = <<>> /\ OfOuterList(tree, at)

(* The type that the tree holds for an expression, from which code         *)
(* generation takes its instructions, is that of the language, whatever    *)
(* equations were made before and after it was written, unless it hangs on *)
(* a name that comes later or on a negation.                               *)
AnnotationsRight ==
  phase = "accepted" /\ WellTyped(tree) =>
    \A at \in DOMAIN tree :
      tree[at].kind \in Expressions /\ (tree[at].kind = "call" => ~tree[at].in_stmt_pos) =>
        Unsure(tree, at) \/ (at \in DOMAIN ann /\ ann[at] = TypeOf(tree, at))

(* All uses of a name leave it with its declared type: variables, sizes of *)
(* arrays, loop variables, and functions with their parameters and result. *)
NamesHaveTheirTypes ==
  phase = "accepted" =>
    \A at \in DOMAIN tree :
      LET n == tree[at]
          params == Params(n)
          f == Find(links, IdVar(n.id))
      IN  /\ \A d \in Declared(n) : TypeOfTerm(links, IdVar(d[1])) = d[2]
          /\ n.kind = "header" =>
               /\ IsFun(f) /\ TypeOfTerm(links, f[4]) = n.type
               /\ [i \in DOMAIN f[3] |-> TypeOfTerm(links, f[3][i])]
                    = [i \in DOMAIN params |-> params[i].type]

(* "already typechecked in fundef", says the handler of return statements: *)
(* every value returned has the type of its function.                      *)
EveryReturnChecked ==
  phase = "accepted" =>
    \A m \in Misfits(tree) : tree[m[1]].kind = "return" => Untied(tree, m[2])
=============================================================================
