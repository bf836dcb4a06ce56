----------------------------- MODULE ArrayInit -----------------------------
(***************************************************************************)
(* How declared variables get their values.  CheckArrDims compares an      *)
(* array literal with the number of dimensions; ExtractIndices (globals)   *)
(* and InitLocalVars (locals) move the dimensions to variables of their    *)
(* own; InitGlobalVars and InitLocalVars turn initializers into            *)
(* assignments; ParamDims reduces every array access to one dimension.     *)
(* The statements that result are then run, against one memory per array.  *)
(*                                                                         *)
(* A declaration has the values of its dimensions (none for a scalar) and  *)
(* an initializer.  An expression is its place in the text, the number of  *)
(* the declaration, of the node and of the expression in that node: what   *)
(* matters is when it is evaluated, how often, and which element it        *)
(* reaches.  Recursive functions of the code take one step for each call,  *)
(* with the calls that are still to come on a stack.                       *)
(***************************************************************************)
EXTENDS Naturals, Sequences, SequencesExt, RowMajor

CONSTANTS Programs,   (* sequences of declarations                         *)
          None

(***************************************************************************)
(* Initializers as the parser builds them: the nodes in the order of their *)
(* making, the last one at the top.  A node holds the number of its        *)
(* expressions, or its first row and the node of the rows after it, each 0 *)
(* for NULL.  first and at are what the text says: the first of the nodes  *)
(* at and below this one, and the indices at which its elements begin.     *)
(***************************************************************************)
Single     == [splat |-> TRUE,
               lit   |-> <<[exprs |-> 1, next |-> 0, siblings |-> 0, first |-> 1, at |-> <<0>>]>>]
Literal(l) == [splat |-> FALSE, lit |-> l]
NoInit     == [splat |-> TRUE, lit |-> <<>>]

(* The rows after the first one are made last, right before their node.    *)
ParsedNode(lit, n) ==
  LET node  == lit[n]
      after == IF node.siblings = 0 THEN n ELSE lit[node.siblings].first
  IN  /\ node.first \in 1 .. n /\ node.at # <<>>
      /\ node.exprs > 0 => node.next = 0 /\ node.siblings = 0
      /\ node.siblings \in {0, n - 1}
      /\ node.siblings # 0 =>
           /\ lit[node.siblings].exprs = 0
           /\ lit[node.siblings].at = [node.at EXCEPT ![Len(node.at)] = @ + 1]
      /\ node.next \in {0, after - 1}
      /\ node.next # 0 => lit[node.next].at = Append(node.at, 0)
      /\ node.first = IF node.next = 0 THEN after ELSE lit[node.next].first

Parsed(lit) ==
  /\ \A n \in DOMAIN lit : ParsedNode(lit, n)
  /\ lit # <<>> => lit[Len(lit)].first = 1 /\ lit[Len(lit)].at = <<0>>

(* The indices of the j-th element of a node.                              *)
Indices(node, j) == [node.at EXCEPT ![Len(node.at)] = j - 1]

(* A literal that reaches beyond a dimension is the user's error, which    *)
(* nothing looks for.                                                      *)
Fits(dec) ==
  \A n \in DOMAIN dec.init.lit :
    LET node == dec.init.lit[n]
    IN  \A j \in 1 .. node.exprs :
          Len(node.at) = Len(dec.dims) => \A d \in DOMAIN dec.dims : Indices(node, j)[d] < dec.dims[d]

Node        == [exprs : Nat, next : Nat, siblings : Nat, first : Nat, at : Seq(Nat)]
Declaration == [dims : Seq(Nat), init : [splat : BOOLEAN, lit : Seq(Node)]]

ASSUME ProgramsAssumption ==
  /\ Programs \subseteq Seq(Declaration)
  /\ \A prog \in Programs : \A k \in DOMAIN prog :
       IF prog[k].init.splat THEN prog[k].init \in {Single, NoInit}
       ELSE prog[k].dims # <<>> /\ Parsed(prog[k].init.lit) /\ Fits(prog[k])

VARIABLES decs,      (* the program's declarations                         *)
          scope,     (* where they stand: "global", or "local" to a body   *)
          phase,     (* the running pass                                   *)
          left,      (* declarations it has not visited                    *)
          calls,     (* calls of its recursive function still to come      *)
          extracted, (* declarations that ExtractIndices has made          *)
          stmts,     (* generated statements, the ones not yet run         *)
          memory,    (* for each allocated array, its elements             *)
          evaluated  (* expressions in the order of their evaluation       *)

vars == <<decs, scope, phase, left, calls, extracted, stmts, memory, evaluated>>

Dims(k)  == decs[k].dims
Depth(k) == Len(Dims(k))
Lit(k)   == decs[k].init.lit
Splat(k) == decs[k].init.splat

(***************************************************************************)
(* CheckArrDims.                                                           *)
(***************************************************************************)
Check(k, n, expected, toplevel) ==
  [dec |-> k, node |-> n, expected |-> expected, toplevel |-> toplevel]

Init ==
  /\ decs \in Programs
  /\ scope \in {"local", "global"}
  /\ phase = "CheckArrDims"
  /\ left = Len(decs)
  /\ calls = [k \in DOMAIN decs |-> Check(k, Len(Lit(k)), Depth(k), TRUE)]
  /\ extracted = <<>>
  /\ stmts = <<>>
  /\ memory = [k \in DOMAIN decs |-> None]
  /\ evaluated = <<>>

IsSingleExpr(c) == Lit(c.dec)[c.node].exprs = 1

(* Whether the call itself finds nothing wrong.                            *)
checkArrDepth(c) ==
  CASE c.node = 0     -> TRUE
    [] c.expected = 0 -> IsSingleExpr(c)
    [] c.expected = 1 -> Lit(c.dec)[c.node].exprs > 0
    [] OTHER          -> (IsSingleExpr(c) /\ c.toplevel) \/ Lit(c.dec)[c.node].next # 0

(* The calls it makes, for the first row, and the loop of its caller, over *)
(* the nodes that follow in that same row.                                 *)
checkRows(c) ==
  LET node == Lit(c.dec)[c.node]
  IN  (IF c.node = 0 \/ c.expected < 2 \/ (IsSingleExpr(c) /\ c.toplevel) THEN <<>>
       ELSE <<Check(c.dec, node.next, c.expected - 1, FALSE)>>)
      \o (IF c.node = 0 \/ c.toplevel THEN <<>>
          ELSE <<Check(c.dec, node.siblings, c.expected, FALSE)>>)

CheckArrDims ==
  /\ phase = "CheckArrDims" /\ calls # <<>>
  /\ IF checkArrDepth(Head(calls))
     THEN calls' = checkRows(Head(calls)) \o Tail(calls) /\ UNCHANGED phase
     ELSE phase' = "rejected" /\ UNCHANGED calls
  /\ UNCHANGED <<decs, scope, left, extracted, stmts, memory, evaluated>>

CheckArrDimsDone ==
  /\ phase = "CheckArrDims" /\ calls = <<>>
  /\ phase' = "ExtractIndices"
  /\ UNCHANGED <<decs, scope, left, calls, extracted, stmts, memory, evaluated>>

(***************************************************************************)
(* Statements.  "eval" assigns an expression to a variable, "alloc" makes  *)
(* the array, "store" assigns one element, "fill" is the nest of for loops *)
(* that assigns the copied expression to all of them.                      *)
(***************************************************************************)
Eval(what)         == [do |-> "eval", what |-> what]
Alloc(k)           == [do |-> "alloc", dec |-> k]
Fill(k, what)      == [do |-> "fill", dec |-> k, what |-> what]
Store(k, at, what) == [do |-> "store", dec |-> k, at |-> at, what |-> what]

Dimension(k, d)    == <<k, 0, d>>
Element(k, n, j)   == <<k, n, j>>

(***************************************************************************)
(* ExtractIndices visits the globals in order and puts each dimension it   *)
(* meets at the head of the program.                                       *)
(***************************************************************************)
mkGlobalDefExprs(k) == [d \in 1 .. Depth(k) |-> Eval(Dimension(k, Depth(k) + 1 - d))]

ExtractIndices ==
  /\ phase = "ExtractIndices" /\ left > 0
  /\ extracted' = IF scope = "global" THEN mkGlobalDefExprs(Len(decs) + 1 - left) \o extracted
                  ELSE extracted
  /\ left' = left - 1
  /\ UNCHANGED <<decs, scope, phase, calls, stmts, memory, evaluated>>

ExtractIndicesDone ==
  /\ phase = "ExtractIndices" /\ left = 0
  /\ left' = Len(decs)
  /\ phase' = "InitVars"
  /\ UNCHANGED <<decs, scope, calls, extracted, stmts, memory, evaluated>>

(***************************************************************************)
(* InitLocalVars and InitGlobalVars walk the declarations backwards and    *)
(* prepend what they generate.                                             *)
(***************************************************************************)
(* Faulty variants stand before the definition that they are variants of.  *)
(* Faulty: appends.                                                        *)
appendInit(new) == stmts \o new

prependInit(new) == new \o stmts

(* The dimensions of a local array are evaluated right before it is made.  *)
LocalDims(k) ==
  IF scope = "local" THEN [d \in 1 .. Depth(k) |-> Eval(Dimension(k, d))] ELSE <<>>

(* What is generated before the assignments of single elements, if any.    *)
genArrayInit(k) ==
  IF Lit(k) # <<>> /\ Splat(k)
  THEN <<Eval(Element(k, 1, 1)), Alloc(k), Fill(k, Element(k, 1, 1))>>
  ELSE <<Alloc(k)>>

InitOf(k) ==
  CASE Dims(k) # <<>> -> LocalDims(k) \o genArrayInit(k)
    [] Dims(k) = <<>> /\ Lit(k) # <<>> -> <<Eval(Element(k, 1, 1))>>
    [] OTHER -> <<>>

(* A call of genIndividualInit; none for NULL.                             *)
WithCall(n, outer, start, rest) ==
  IF n = 0 THEN rest ELSE <<[node |-> n, outer |-> outer, start |-> start]>> \o rest

HasElements(k) == Dims(k) # <<>> /\ Lit(k) # <<>> /\ ~ Splat(k)

InitVar ==
  /\ phase = "InitVars" /\ left > 0
  /\ IF HasElements(left)
     THEN /\ phase' = "Elements"
          /\ calls' = WithCall(Len(Lit(left)), <<>>, 0, <<>>)
          /\ UNCHANGED <<left, stmts>>
     ELSE /\ stmts' = prependInit(InitOf(left))
          /\ left' = left - 1
          /\ UNCHANGED <<phase, calls>>
  /\ UNCHANGED <<decs, scope, extracted, memory, evaluated>>

genIndividualInit1D(k, n, outer) ==
  [j \in 1 .. Lit(k)[n].exprs |-> Store(k, Append(outer, j - 1), Element(k, n, j))]

(* Faulty: the row number is not counted up.                               *)
RowsOfSameNumber(c, rest) ==
  LET node == Lit(left)[c.node]
  IN  WithCall(node.siblings, c.outer, c.start, WithCall(node.next, Append(c.outer, c.start), 0, rest))

(* The rows after the first one are generated first.                       *)
RowsOf(c, rest) ==
  LET node == Lit(left)[c.node]
  IN  WithCall(node.siblings, c.outer, c.start + 1,
               WithCall(node.next, Append(c.outer, c.start), 0, rest))

genIndividualInit ==
  /\ phase = "Elements" /\ calls # <<>>
  /\ LET c == Head(calls)
     IN  IF Lit(left)[c.node].exprs > 0
         THEN /\ stmts' = prependInit(genIndividualInit1D(left, c.node, c.outer))
              /\ calls' = Tail(calls)
         ELSE calls' = RowsOf(c, Tail(calls)) /\ UNCHANGED stmts
  /\ UNCHANGED <<decs, scope, phase, left, extracted, memory, evaluated>>

InitArray ==
  /\ phase = "Elements" /\ calls = <<>>
  /\ stmts' = prependInit(InitOf(left))
  /\ left' = left - 1
  /\ phase' = "InitVars"
  /\ UNCHANGED <<decs, scope, calls, extracted, memory, evaluated>>

(* The extracted declarations come first, so they are visited last.        *)
InitVarsDone ==
  /\ phase = "InitVars" /\ left = 0
  /\ stmts' = prependInit(extracted)
  /\ phase' = "ParamDims"
  /\ UNCHANGED <<decs, scope, left, calls, extracted, memory, evaluated>>

(***************************************************************************)
(* ParamDims.                                                              *)
(***************************************************************************)
(* Faulty: only missing indices are an error.                              *)
MissingIndices ==
  \E j \in DOMAIN stmts : stmts[j].do = "store" /\ Len(stmts[j].at) < Depth(stmts[j].dec)

(* An element is addressed with as many indices as there are dimensions,   *)
(* or an error is reported.                                                *)
MismatchedIndices ==
  \E j \in DOMAIN stmts : stmts[j].do = "store" /\ Len(stmts[j].at) # Depth(stmts[j].dec)

Lowered(s) ==
  IF s.do = "store" THEN Store(s.dec, reduced(s.at, Dims(s.dec)), s.what) ELSE s

ParamDims ==
  /\ phase = "ParamDims"
  /\ IF MismatchedIndices
     THEN phase' = "rejected" /\ UNCHANGED stmts
     ELSE /\ phase' = "running"
          /\ stmts' = [j \in DOMAIN stmts |-> Lowered(stmts[j])]
  /\ UNCHANGED <<decs, scope, left, calls, extracted, memory, evaluated>>

(***************************************************************************)
(* Running the initializations.                                            *)
(***************************************************************************)
Current == Head(stmts)
Running(do) == phase = "running" /\ stmts # <<>> /\ Current.do = do

RunEval ==
  /\ Running("eval")
  /\ evaluated' = Append(evaluated, Current.what)
  /\ stmts' = Tail(stmts)
  /\ UNCHANGED <<decs, scope, phase, left, calls, extracted, memory>>

RunAlloc ==
  /\ Running("alloc")
  /\ memory' = [memory EXCEPT ![Current.dec] =
                  [i \in 0 .. sizeexprs(Dims(Current.dec)) - 1 |-> None]]
  /\ stmts' = Tail(stmts)
  /\ UNCHANGED <<decs, scope, phase, left, calls, extracted, evaluated>>

RunStore ==
  /\ Running("store")
  /\ evaluated' = Append(evaluated, Current.what)
  /\ memory' = [memory EXCEPT ![Current.dec][Current.at] = Current.what]
  /\ stmts' = Tail(stmts)
  /\ UNCHANGED <<decs, scope, phase, left, calls, extracted>>

(* The loops run over all elements; each index is reduced like any other.  *)
RunFill ==
  /\ Running("fill")
  /\ LET dims  == Dims(Current.dec)
         cells == {reduced(at, dims) : at \in Box(dims)}
     IN  memory' = [memory EXCEPT ![Current.dec] =
                      [i \in DOMAIN @ |-> IF i \in cells THEN Current.what ELSE @[i]]]
  /\ stmts' = Tail(stmts)
  /\ UNCHANGED <<decs, scope, phase, left, calls, extracted, evaluated>>

Next == \/ CheckArrDims \/ CheckArrDimsDone \/ ExtractIndices \/ ExtractIndicesDone
        \/ InitVar \/ genIndividualInit \/ InitArray \/ InitVarsDone \/ ParamDims
        \/ RunEval \/ RunAlloc \/ RunStore \/ RunFill

Spec == Init /\ [][Next]_vars

(***************************************************************************)
(* Properties.                                                             *)
(***************************************************************************)
Done == phase = "running" /\ stmts = <<>>

Arrays == {k \in DOMAIN decs : Dims(k) # <<>>}

(* Two elements of an array never share a place, and every place that is  *)
(* assigned lies inside of the array.                                      *)
ElementsApart == \A k \in Arrays : Apart(Dims(k))

(* The expressions of an initializer, and those that it gives for the      *)
(* element at some indices: the single one, or what stands there in the    *)
(* text, if anything does.                                                 *)
ElementsOf(k) == UNION {{Element(k, n, j) : j \in 1 .. Lit(k)[n].exprs} : n \in DOMAIN Lit(k)}
Given(k, at)  == {e \in ElementsOf(k) : Splat(k) \/ Indices(Lit(k)[e[2]], e[3]) = at}

(* When all initializations have run, the element that an access with the  *)
(* indices of the source addresses has the value that the initializer      *)
(* gives for these indices.                                                *)
ElementsInPlace ==
  Done =>
    \A k \in Arrays : \A at \in Box(Dims(k)) :
      LET value == memory[k][reduced(at, Dims(k))]
      IN  /\ Given(k, at) = {} => value = None
          /\ \A e \in Given(k, at) : value = e

Expressions ==
  UNION {ElementsOf(k) \cup {Dimension(k, d) : d \in DOMAIN Dims(k)} : k \in DOMAIN decs}

(* The order of the text.  Dimensions of globals are evaluated before all  *)
(* other expressions, in some order.                                       *)
InText(e, f) ==
  \/ e[1] < f[1]
  \/ (e[1] = f[1] /\ e[2] < f[2])
  \/ (e[1] = f[1] /\ e[2] = f[2] /\ e[3] < f[3])
Ahead(e)     == scope = "global" /\ e[2] = 0
Before(e, f) == IF Ahead(e) THEN Ahead(f) => e # f ELSE ~ Ahead(f) /\ InText(e, f)

(* Initializers of locals are evaluated in the order of the text: the      *)
(* dimensions of an array, then its elements, each once; a single value is *)
(* evaluated once for all elements of the array.  Dimensions of globals    *)
(* come before all of their values, each once.                             *)
EvaluatedInOrder ==
  /\ \A i, j \in DOMAIN evaluated : i < j => Before(evaluated[i], evaluated[j])
  /\ Done => ToSet(evaluated) = Expressions

(* Of all literals only those get through whose expressions are all as     *)
(* deep as the array has dimensions.  CheckArrDims follows only the first  *)
(* row and lets empty rows pass; the two checks together see to it.        *)
OnlyDeepLiterals ==
  phase = "running" =>
    \A k \in Arrays : ~ Splat(k) =>
      \A n \in DOMAIN Lit(k) : Lit(k)[n].exprs > 0 => Len(Lit(k)[n].at) = Depth(k)
=============================================================================
