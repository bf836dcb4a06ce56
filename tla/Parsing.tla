------------------------------ MODULE Parsing ------------------------------
(***************************************************************************)
(* What the parser's semantic actions make of a part of a program, and     *)
(* what ReverseParams repairs.  Lists that the grammar writes left         *)
(* recursively come out reversed, in whole or but for their first element; *)
(* the step of a for loop travels in a global variable from the loop's     *)
(* head to the end of its block.                                           *)
(***************************************************************************)
EXTENDS Naturals, Sequences, SequencesExt

CONSTANTS Roots,    (* the kinds of list that the program may be           *)
          MaxNodes  (* lists, loops and elements in it                     *)

ASSUME ParsingAssumption ==
  /\ MaxNodes \in Nat \ {0}
  /\ Roots \subseteq {"headerparams", "vardecs", "stmts", "arrayexprs"}

(* What may stand in a list; "leaf" is an element without lists in it.     *)
(* "for" is the block of a loop, "exprs" arguments or indices.             *)
Holds ==
  [headerparams |-> {"leaf", "ids"}, ids |-> {"leaf"},
   vardecs |-> {"leaf", "exprs"},    exprs |-> {"leaf", "exprs"},
   stmts |-> {"exprs", "for"},       for |-> {"exprs", "for"},
   arrayexprs |-> {"exprs", "arrayexprs"}]

VARIABLES nodes,  (* all nodes, by number: as the source and the AST have it *)
          open,   (* numbers of the lists that the parser is in, outermost first *)
          current_forloop_inc_expr,  (* 0, or the loop whose step it is    *)
          reversed                   (* ReverseParams has run              *)

vars == <<nodes, open, current_forloop_inc_expr, reversed>>

(* src and ast: the elements in the order of the text and of the tree.     *)
(* step: the text gives a step.  inc: whose step is in the tree.           *)
Node(kind, in, step) ==
  [kind |-> kind, in |-> in, src |-> <<>>, ast |-> <<>>, step |-> step, inc |-> 0]

Init ==
  /\ \E root \in Roots : nodes = <<Node(root, 0, FALSE)>>
  /\ open = <<1>>
  /\ current_forloop_inc_expr = 0
  /\ reversed = FALSE

(* What the rule of a list makes of one more element.                      *)
Reduced(kind, list, e) ==
  IF kind \in {"headerparams", "vardecs"} THEN <<e>> \o list
  ELSE IF kind \notin {"exprs", "ids"} \/ list = <<>> THEN Append(list, e)
  ELSE <<list[1], e>> \o Tail(list)

Inner == Last(open)
Fresh == Len(nodes) + 1
Added(kind, step) ==
  Append([nodes EXCEPT ![Inner].src = Append(@, Fresh),
                       ![Inner].ast = Reduced(nodes[Inner].kind, @, Fresh)],
         Node(kind, Inner, step))
CanHold(kind) == open # <<>> /\ Fresh <= MaxNodes /\ kind \in Holds[nodes[Inner].kind]

Leaf ==
  /\ CanHold("leaf")
  /\ nodes' = Added("leaf", FALSE)
  /\ UNCHANGED <<open, current_forloop_inc_expr, reversed>>

OpenList(kind) ==
  /\ CanHold(kind)
  /\ nodes' = Added(kind, FALSE)
  /\ open' = Append(open, Fresh)
  /\ UNCHANGED <<current_forloop_inc_expr, reversed>>

(* The head of a loop is reduced before its block is read.                 *)
forloopincs(step) ==
  /\ CanHold("for")
  /\ nodes' = Added("for", step)
  /\ open' = Append(open, Fresh)
  /\ current_forloop_inc_expr' = IF step THEN Fresh ELSE current_forloop_inc_expr
  /\ UNCHANGED reversed

(* Faulty variants stand before the definition that they are variants of.  *)
(* Faulty: the step is not cleared.                                        *)
forloopUncleared ==
  /\ open # <<>> /\ nodes[Inner].kind = "for"
  /\ nodes' = [nodes EXCEPT ![Inner].inc = current_forloop_inc_expr]
  /\ open' = Front(open)
  /\ UNCHANGED <<current_forloop_inc_expr, reversed>>

forloop ==
  /\ open # <<>> /\ nodes[Inner].kind = "for"
  /\ nodes' = [nodes EXCEPT ![Inner].inc = current_forloop_inc_expr]
  /\ current_forloop_inc_expr' = 0
  /\ open' = Front(open)
  /\ UNCHANGED reversed

(* Faulty: nothing is put in order.                                        *)
unreversed_vardecs(list) == list

(* A variable list is put in order when the function's body is complete.   *)
reverse_vardecs(list) == Reverse(list)

CloseList ==
  /\ open # <<>> /\ nodes[Inner].kind # "for" /\ nodes[Inner].src # <<>>
  /\ nodes' = IF nodes[Inner].kind = "vardecs"
              THEN [nodes EXCEPT ![Inner].ast = reverse_vardecs(@)] ELSE nodes
  /\ open' = Front(open)
  /\ UNCHANGED <<current_forloop_inc_expr, reversed>>

(* The traversal goes no further than the first expression list it meets.  *)
InExprs(n) == \E m \in DOMAIN nodes : nodes[m].kind = "exprs" /\ nodes[n].in = m

(* Faulty: the reversed rest is not put behind the first element.          *)
RepairedUnattached(n) ==
  IF nodes[n].kind = "headerparams" THEN Reverse(nodes[n].ast)
  ELSE IF nodes[n].kind = "exprs" /\ ~InExprs(n) /\ Len(nodes[n].ast) > 2
  THEN SubSeq(nodes[n].ast, 1, 2)
  ELSE nodes[n].ast

Repaired(n) ==
  IF nodes[n].kind = "headerparams" THEN Reverse(nodes[n].ast)
  ELSE IF nodes[n].kind = "exprs" /\ ~InExprs(n)
  THEN <<nodes[n].ast[1]>> \o Reverse(Tail(nodes[n].ast))
  ELSE nodes[n].ast

ReverseParams ==
  /\ open = <<>> /\ ~reversed
  /\ nodes' = [n \in DOMAIN nodes |-> [nodes[n] EXCEPT !.ast = Repaired(n)]]
  /\ reversed' = TRUE
  /\ UNCHANGED <<open, current_forloop_inc_expr>>

Next ==
  \/ Leaf
  \/ \E kind \in {"ids", "exprs", "arrayexprs"} : OpenList(kind)
  \/ \E step \in BOOLEAN : forloopincs(step)
  \/ forloop
  \/ CloseList
  \/ ReverseParams

Spec == Init /\ [][Next]_vars

(***************************************************************************)
(* Properties.                                                             *)
(***************************************************************************)
Closed(n) == n \notin Range(open)
ForLoops == {n \in DOMAIN nodes : nodes[n].kind = "for" /\ Closed(n)}

(* No element is dropped or doubled on the way to the tree, and a list of  *)
(* indices or arguments starts with its first even where it is not put in  *)
(* order.                                                                  *)
NoElementLost ==
  \A n \in DOMAIN nodes :
    /\ Len(nodes[n].ast) = Len(nodes[n].src)
    /\ Range(nodes[n].ast) = Range(nodes[n].src)
    /\ nodes[n].kind \in {"exprs", "ids"} /\ nodes[n].src # <<>> => nodes[n].ast[1] = nodes[n].src[1]

(* After ReverseParams lists are in the order of the text: not however the *)
(* dimensions of a parameter and the arguments of a call in an expression  *)
(* list, from the second on.                                               *)
ListsInOrder ==
  reversed =>
    \A n \in DOMAIN nodes :
      \/ nodes[n].ast = nodes[n].src
      \/ nodes[n].kind = "ids" /\ Len(nodes[n].src) > 2
      \/ nodes[n].kind = "exprs" /\ InExprs(n) /\ Len(nodes[n].src) > 2

(* n stands in m: what holds n, and all around that, has m in it.          *)
Within(n, m) ==
  /\ nodes[n].in # 0
  /\ \A around \in SUBSET DOMAIN nodes :
       /\ nodes[n].in \in around
       /\ \A k \in around : nodes[k].in \in around \cup {0}
       => m \in around

(* Every loop has its own step, or none; but where a loop with a step has  *)
(* another loop in its block, the inner one takes the step unless it has   *)
(* its own, and the outer one is left without.  Even then no step is in    *)
(* the tree twice, which would free it twice.                              *)
StepsOfTheirLoop ==
  /\ \A m, n \in ForLoops : nodes[m].inc # 0 /\ nodes[m].inc = nodes[n].inc => m = n
  /\ \A n \in ForLoops :
       \/ nodes[n].inc = IF nodes[n].step THEN n ELSE 0
       \/ nodes[n].step /\ nodes[n].inc = 0 /\ \E m \in ForLoops : Within(m, n)
       \/ ~nodes[n].step /\ Within(n, nodes[n].inc)
=============================================================================
