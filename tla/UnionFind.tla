----------------------------- MODULE UnionFind -----------------------------
(***************************************************************************)
(* The constraint solver of the type checker, ctxanalysis/                 *)
(* unionfindsolver.c: a forest of parent pointers over type terms, kept in *)
(* a hash table that only knows the terms it was told about.  uf_find      *)
(* walks to the root and compresses the path on the way back; uf_unify     *)
(* finds both roots and links them, and for two functions goes on with     *)
(* their parameters and results.  The C recursion is unrolled: path is the *)
(* chain of active uf_find frames, pending the uf_unify calls still to be  *)
(* made by the active frames, in the order they will be made.              *)
(*                                                                         *)
(* The solver is modelled as its header declares it: any two terms may be  *)
(* unified, whether or not the type checker asks for that today.           *)
(***************************************************************************)
EXTENDS TypeTerms

CONSTANTS
  TBool,      (* the base type forbid_bool looks for                       *)
  Ret,        (* the result term of each function term                     *)
  None        (* HTlookup's answer for a term that is not in the table     *)

ASSUME SolverAssumption ==
  /\ None \notin Terms
  /\ TBool \in BaseTypes
  /\ Ret \in [Funs -> BaseTypes]

VARIABLES
  parent,   (* the hash table: parent[t] is None while t is not in it      *)
  pc,       (* what runs: nothing, a uf_find, or the rest of a uf_unify    *)
  pending,  (* uf_unify calls to come, the innermost frame's first         *)
  path,     (* the terms on the stack of uf_find frames, outermost first   *)
  x, y,     (* uf_unify's locals of the same names: the two roots          *)
  goal,     (* arguments of the outermost uf_unify                         *)
  result,   (* what the outermost call returns, "none" until it is known   *)
  dropped   (* history: arguments of recursive calls that answered false   *)

vars == <<parent, pc, pending, path, x, y, goal, result, dropped>>

Pairs == Terms \X Terms

TypeOK ==
  /\ parent \in [Terms -> Terms \cup {None}]
  /\ pc \in {"idle", "lookup", "forbid", "call", "find1", "find2", "link"}
  /\ pending \in Seq(Pairs)
  /\ path \in Seq(Terms)
  /\ x \in Terms \cup {None}
  /\ y \in Terms \cup {None}
  /\ goal \in Pairs \cup {None}
  /\ result \in {"none", "true", "false"}
  /\ dropped \subseteq Pairs

UFInit ==
  /\ parent = [t \in Terms |-> None]
  /\ pc = "idle"
  /\ pending = <<>>
  /\ path = <<>>
  /\ x = None
  /\ y = None
  /\ goal = None
  /\ result = "none"
  /\ dropped = {}

(***************************************************************************)
(* Calls from the type checker.                                            *)
(***************************************************************************)
(* uf_find(t) on its own: the handlers ask what a node's type is.          *)
CallFind(t) ==
  /\ pc = "idle"
  /\ pc' = "lookup"
  /\ path' = <<t>>
  /\ result' = "none"
  /\ UNCHANGED <<parent, pending, x, y, goal, dropped>>

(* forbid_bool(t): a uf_find whose answer is then compared with bool.      *)
CallForbidBool(t) ==
  /\ pc = "idle"
  /\ pc' = "forbid"
  /\ path' = <<t>>
  /\ result' = "none"
  /\ UNCHANGED <<parent, pending, x, y, goal, dropped>>

CallUnify(s, t) ==
  /\ pc = "idle"
  /\ pc' = "call"
  /\ pending' = <<<<s, t>>>>
  /\ goal' = <<s, t>>
  /\ result' = "none"
  /\ UNCHANGED <<parent, path, x, y, dropped>>

(***************************************************************************)
(* uf_makeSet and uf_find.                                                 *)
(***************************************************************************)
(* HTputIfAbsent(parent, t, t): a term that is in the table stays put.     *)
uf_makeSet(p, t) == IF p[t] = None THEN [p EXCEPT ![t] = t] ELSE p

Finding == pc \in {"lookup", "forbid", "find1", "find2"}
Top     == path[Len(path)]

(* Faulty variants stand before the definition that they are variants of.  *)
(* Faulty: the recursion does not stop at a term that is not in the table. *)
FindRecurseOnNull ==
  /\ Finding
  /\ parent[Top] # Top
  /\ path' = Append(path, parent[Top])
  /\ UNCHANGED <<parent, pc, pending, x, y, goal, result, dropped>>

(* A frame that found neither NULL nor itself recurses on the parent.      *)
FindRecurse ==
  /\ Finding
  /\ parent[Top] \notin {None, Top}
  /\ path' = Append(path, parent[Top])
  /\ UNCHANGED <<parent, pc, pending, x, y, goal, result, dropped>>

(* The innermost frame is at a root, which it enters in the table if it    *)
(* was not there; every frame above it then re-inserts its own term with   *)
(* that root as the parent.                                                *)
Compressed ==
  [t \in Terms |-> IF \E i \in 1 .. Len(path) : path[i] = t
                   THEN Top ELSE parent[t]]

(* Faulty: only a term that is its own parent ends the walk.               *)
AtRootInTable == parent[Top] = Top

AtRoot == parent[Top] \in {None, Top}

LookupReturn ==
  /\ pc = "lookup" /\ AtRoot
  /\ parent' = Compressed
  /\ pc' = "idle"
  /\ path' = <<>>
  /\ UNCHANGED <<pending, x, y, goal, result, dropped>>

ForbidBoolReturn ==
  /\ pc = "forbid" /\ AtRoot
  /\ parent' = Compressed
  /\ result' = IF Top = TBool THEN "false" ELSE "true"
  /\ pc' = "idle"
  /\ path' = <<>>
  /\ UNCHANGED <<pending, x, y, goal, dropped>>

(***************************************************************************)
(* uf_unify, from its entry to its return.                                 *)
(***************************************************************************)
UnifyEnter ==
  /\ pc = "call" /\ pending # <<>>
  /\ LET s == Head(pending)[1]
         t == Head(pending)[2]
     IN /\ parent' = uf_makeSet(uf_makeSet(parent, s), t)
        /\ path' = <<s>>
  /\ pc' = "find1"
  /\ UNCHANGED <<pending, x, y, goal, result, dropped>>

Find1Return ==
  /\ pc = "find1" /\ AtRoot
  /\ parent' = Compressed
  /\ x' = Top
  /\ path' = <<Head(pending)[2]>>
  /\ pc' = "find2"
  /\ UNCHANGED <<pending, y, goal, result, dropped>>

(* Faulty: the second argument itself is linked to, and not its root.      *)
Find2ReturnArgument ==
  /\ pc = "find2" /\ AtRoot
  /\ parent' = Compressed
  /\ y' = Head(pending)[2]
  /\ path' = <<>>
  /\ pc' = "link"
  /\ UNCHANGED <<pending, x, goal, result, dropped>>

Find2Return ==
  /\ pc = "find2" /\ AtRoot
  /\ parent' = Compressed
  /\ y' = Top
  /\ path' = <<>>
  /\ pc' = "link"
  /\ UNCHANGED <<pending, x, goal, result, dropped>>

(* Only the outermost call's answer is used: the recursive ones are made   *)
(* as statements and their result is dropped.                              *)
Record(r) ==
  /\ result'  = IF result = "none" THEN r ELSE result
  /\ dropped' = IF result # "none" /\ r = "false" THEN dropped \cup {Head(pending)} ELSE dropped

(* The current call is over, the calls in more come before the others.     *)
Leave(more) ==
  /\ pending' = more \o Tail(pending)
  /\ pc' = "call"
  /\ UNCHANGED <<path, x, y, goal>>

LinkSame ==
  /\ pc = "link" /\ x = y
  /\ Record("true")
  /\ Leave(<<>>)
  /\ UNCHANGED parent

(* Faulty: the variable's class takes in the other, whatever it is.        *)
BindLeftSwapped ==
  /\ pc = "link" /\ x # y
  /\ x \in TypeVars
  /\ parent' = [parent EXCEPT ![y] = x]
  /\ Record("true")
  /\ Leave(<<>>)

BindLeft ==
  /\ pc = "link" /\ x # y
  /\ x \in TypeVars
  /\ parent' = [parent EXCEPT ![x] = y]
  /\ Record("true")
  /\ Leave(<<>>)

BindRight ==
  /\ pc = "link" /\ x # y
  /\ x \notin TypeVars /\ y \in TypeVars
  /\ parent' = [parent EXCEPT ![y] = x]
  /\ Record("true")
  /\ Leave(<<>>)

(* Two base types, or a base type and a function.                          *)
KindClash ==
  /\ pc = "link" /\ x # y
  /\ {x, y} \cap TypeVars = {}
  /\ ~(x \in Funs /\ y \in Funs)
  /\ Record("false")
  /\ Leave(<<>>)
  /\ UNCHANGED parent

(* Faulty: the functions are linked before their sizes are compared.       *)
ArityClashLinked ==
  /\ pc = "link" /\ x # y
  /\ x \in Funs /\ y \in Funs
  /\ Len(Params[x]) # Len(Params[y])
  /\ parent' = [parent EXCEPT ![x] = y]
  /\ Record("false")
  /\ Leave(<<>>)

ArityClash ==
  /\ pc = "link" /\ x # y
  /\ x \in Funs /\ y \in Funs
  /\ Len(Params[x]) # Len(Params[y])
  /\ Record("false")
  /\ Leave(<<>>)
  /\ UNCHANGED parent

(* The parameters in order, and then the result.                           *)
Component(f, i) == IF i <= Len(Params[f]) THEN Params[f][i] ELSE Ret[f]
Positions(f)    == 1 .. Len(Params[f]) + 1

(* Faulty: the last parameter is left out.                                 *)
ComponentPairsShort(f, g) ==
  [i \in 1 .. Len(Params[f]) |->
     IF i < Len(Params[f]) THEN <<Params[f][i], Params[g][i]>> ELSE <<Ret[f], Ret[g]>>]

(* Faulty: the results are left out.                                       *)
ComponentPairsNoResult(f, g) == [i \in DOMAIN Params[f] |-> <<Params[f][i], Params[g][i]>>]

(* The calls made for two functions.                                       *)
ComponentPairs(f, g) == [i \in Positions(f) |-> <<Component(f, i), Component(g, i)>>]

(* The functions are linked before their components are looked at.         *)
LinkFunctions ==
  /\ pc = "link" /\ x # y
  /\ x \in Funs /\ y \in Funs
  /\ Len(Params[x]) = Len(Params[y])
  /\ parent' = [parent EXCEPT ![x] = y]
  /\ Record("true")
  /\ Leave(ComponentPairs(x, y))

(* The outermost call returns; its locals die with it.                     *)
UnifyReturn ==
  /\ pc = "call" /\ pending = <<>>
  /\ pc' = "idle"
  /\ x' = None
  /\ y' = None
  /\ goal' = None
  /\ UNCHANGED <<parent, pending, path, result, dropped>>

(***************************************************************************)
(* The specification.                                                      *)
(***************************************************************************)
Call ==
  \/ \E t \in Terms : CallFind(t) \/ CallForbidBool(t)
  \/ \E s, t \in Terms : CallUnify(s, t)

Step ==
  \/ FindRecurse
  \/ LookupReturn \/ ForbidBoolReturn
  \/ UnifyEnter \/ Find1Return \/ Find2Return
  \/ LinkSame \/ BindLeft \/ BindRight
  \/ KindClash \/ ArityClash \/ LinkFunctions
  \/ UnifyReturn

UFNext == Call \/ Step

UFSpec == UFInit /\ [][UFNext]_vars

(* A call that was made keeps running: there is nothing it waits for.      *)
UFFairSpec == UFSpec /\ WF_vars(Step)

(***************************************************************************)
(* Properties.                                                             *)
(***************************************************************************)
(* The root reached from each term along a table's pointers.               *)
RootOf(p) ==
  LET root[t \in Terms] == IF p[t] \in {None, t} THEN t ELSE root[p[t]] IN root

Root == RootOf(parent)

(* The partition the forest stands for.                                    *)
Classes ==
  LET root == Root IN {{s \in Terms : root[s] = root[t]} : t \in Terms}

Partition == INSTANCE TermClasses WITH classes <- Classes

(* uf_find never loops: among any terms there is one whose parent pointer  *)
(* leads out of the set or stops there.  Every insertion of uf_find and    *)
(* uf_unify keeps it so, in every order of calls.                          *)
Acyclic ==
  \A S \in SUBSET Terms :
    S # {} => \E t \in S : parent[t] \in {None, t} \/ parent[t] \notin S

(* A base type is never linked below anything, so two base types never     *)
(* become one, and a function only ever stands for functions of its arity. *)
RigidStaysRigid ==
  \A t \in Terms \ TypeVars :
    parent[t] # None => parent[t] \notin TypeVars /\ Compatible(t, parent[t])

(* No type is described by both.                                           *)
Apart(r, s) == {r, s} \cap TypeVars = {} /\ ~Compatible(r, s)

(* Two functions that are alike in a position.                             *)
Alike(root, f, g, i) == root[Component(f, i)] = root[Component(g, i)]

(* What the answer of uf_unify to the type checker says of its two         *)
(* arguments when it returns, after everything the recursion has done.     *)
(* True: they are in one class, and any two functions of that class are    *)
(* alike in all positions, parameters and result, which is what unifying   *)
(* functions means (report.typ 245-247).  The exception are positions of   *)
(* which the recursive call for some two functions of the class answered   *)
(* false: that answer is dropped, so a function of int and one of bool are *)
(* unified with true, and true says nothing of their results.  False: no   *)
(* type is described by both arguments.                                    *)
AnswerIsRight ==
  pc = "call" /\ pending = <<>> =>
    LET root  == Root
        r     == root[goal[1]]
        s     == root[goal[2]]
        class == {f \in Funs : root[f] = r}
    IN  CASE result = "true" ->
               /\ r = s
               /\ \A f, g \in class : \A i \in Positions(f) :
                    \/ Alike(root, f, g, i)
                    \/ \E h, k \in class : <<Component(h, i), Component(k, i)>> \in dropped
          [] result = "false" -> Apart(r, s)

(* Functions that were unified have unified parameters, position by        *)
(* position, unless two functions of their class have parameters in that   *)
(* position that stand for different types: the answer of the recursive    *)
(* call is dropped, so nobody hears of those, and a third function may     *)
(* come to stand between two whose parameters were never compared.         *)
Congruent ==
  pc = "idle" =>
    LET root == Root IN
    \A f, g \in Funs : root[f] = root[g] =>
      \A i \in 1 .. Len(Params[f]) :
        \/ root[Params[f][i]] = root[Params[g][i]]
        \/ \E h, k \in Funs : /\ root[h] = root[f] /\ root[k] = root[f]
                             /\ Apart(root[Params[h][i]], root[Params[k][i]])

(* The forest refines the partition: finds, compressions and refused       *)
(* unifications change no class, and an accepted one merges two compatible *)
(* classes.                                                                *)
RefinesPartition == Partition!Spec

(* Every call returns, also for functions that are their own parameters:   *)
(* they are linked before their parameters are, so no pair comes up twice. *)
CallsReturn == pc # "idle" ~> pc = "idle"
=============================================================================
