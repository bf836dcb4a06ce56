------------------------------- MODULE Scopes -------------------------------
(***************************************************************************)
(* How an identifier finds its declaration.  Five passes share the work:   *)
(* MangleFuncVar and MangleForLoopNames give each identifier a logical     *)
(* name before there are symbol tables, InitSymtables builds one table per *)
(* function, SymtableManglingIds appends to each identifier the address of *)
(* the entry it found, SymtableManglingTabs renames the keys of the tables *)
(* alike, and CheckIdentifiers looks every identifier up once more.        *)
(*                                                                         *)
(* A program is one of a set of small programs: a tree of functions, each  *)
(* with its parameters, its variable declarations and their initializers,  *)
(* and statements that use one identifier inside a nest of for loops.  A   *)
(* use in a loop's bounds is a use outside of that loop.  Each pass visits *)
(* the functions in the order TRAVchildren does, from an agenda.           *)
(***************************************************************************)
EXTENDS Naturals, Sequences, FiniteSets

CONSTANTS
  Names,     (* user identifiers                                           *)
  Funs,      (* function definitions of the program                        *)
  Top,       (* the program itself, the outermost scope                    *)
  Programs,  (* what the parser may deliver                                *)
  None

Scopes == Funs \cup {Top}

(* A use of an identifier: of a variable, or of a function in a call.      *)
Refs == [kind : {"var", "func"}, id : Names]

(* The functions of a program form a tree, in which Top is the root.       *)
Tree(children) ==
  /\ children \in [Scopes -> Seq(Funs)]
  /\ \A s, t \in Scopes : \A i \in DOMAIN children[s], j \in DOMAIN children[t] :
       children[s][i] = children[t][j] => s = t /\ i = j
  /\ \A S \in SUBSET Scopes :
       /\ Top \in S
       /\ \A s \in S : \A i \in DOMAIN children[s] : children[s][i] \in S
       => S = Scopes

(* What the mangling makes of an identifier: its kind, and for a counter   *)
(* the number of its loop.                                                 *)
Keys == [kind : {"var", "func"}, id : Names, loop : {None} \cup (Funs \X Nat \X Nat)]

ASSUME ScopesAssumption ==
  /\ Top \notin Funs
  /\ None \notin Names \cup Refs \cup (Funs \X Nat \X Nat) \cup [scope : Scopes, name : Keys]
  /\ \A p \in Programs :
       /\ Tree(p.children)
       /\ p.globals \in Seq(Names)
       /\ \A f \in Funs :
            /\ p.fun[f].id \in Names
            /\ p.fun[f].header \in {"void", "basic"}
            /\ p.fun[f].params \in Seq([id : Names, dims : Seq(Names)])
            /\ p.fun[f].decs \in Seq([id : Names, init : Refs \cup {None}])
            /\ p.fun[f].stmts \in Seq([loops : Seq(Names), ref : Refs])

VARIABLES
  prog,     (* the program being compiled                                  *)
  pass,     (* the running traversal, or how compilation ended             *)
  agenda,   (* functions the traversal has yet to visit, next one first    *)
  param,    (* the parameter that a header's loop has come to              *)
  table,    (* symbol tables: for each scope, a map from keys to entries   *)
  name,     (* logical name of each use, once SymtableManglingIds set it   *)
  error     (* an error was reported, the traversal is the last one        *)

vars == <<prog, pass, agenda, param, table, name, error>>

fun(f) == prog.fun[f]

(* The functions defined in each scope, in the order of the text.          *)
Children == prog.children
Parent == [f \in Funs |->
             CHOOSE s \in Scopes : \E i \in DOMAIN Children[s] : Children[s][i] = f]

(* The scopes around s and s itself: the smallest set that has s and with  *)
(* each function the scope that it is defined in.                          *)
Enclosing(s) ==
  {t \in Scopes : \A S \in SUBSET Scopes :
                    s \in S /\ (\A f \in S \ {Top} : Parent[f] \in S) => t \in S}

(* The first of some scopes on the way out.                                *)
Innermost(S) == CHOOSE s \in S : S \subseteq Enclosing(s)

(* The header's places for a name: <<i, 0>> is the i-th parameter's, and   *)
(* <<i, d>> that of its d-th dimension.                                    *)
HeaderPlaces(f) ==
  UNION {{i} \X (0 .. Len(fun(f).params[i].dims)) : i \in DOMAIN fun(f).params}
NameAt(f, place) ==
  IF place[2] = 0 THEN fun(f).params[place[1]].id
  ELSE fun(f).params[place[1]].dims[place[2]]

ParamNames(f) == {NameAt(f, place) : place \in HeaderPlaces(f)}

(* The identifiers used by f: initializers of declarations, statements.    *)
Uses(f) == ({"init"} \X {i \in DOMAIN fun(f).decs : fun(f).decs[i].init # None})
           \cup ({"stmt"} \X (DOMAIN fun(f).stmts))

AllUses == UNION {{f} \X Uses(f) : f \in Funs}

(***************************************************************************)
(* Names before there are symbol tables.                                   *)
(***************************************************************************)
(* MangleFuncVar: functions and variables live in separate name spaces.    *)
FuncVar(kind, id) == [kind |-> kind, id |-> id, loop |-> None]

(* The running number of a loop: no two loops of the program share one.    *)
LoopNumber(f, k, depth) == <<f, k, depth>>

MaxOf(S) == CHOOSE i \in S : \A j \in S : j <= i
MinOf(S) == CHOOSE i \in S : \A j \in S : i <= j

(* Faulty variants stand before the definition that they are variants of.  *)
(* Faulty: the outermost loop of that name counts.                         *)
ForLoopNameOutermost(f, k, depth, logical) ==
  LET around == {j \in 1 .. depth : fun(f).stmts[k].loops[j] = logical.id}
  IN  IF around = {} THEN logical
      ELSE [logical EXCEPT !.loop = LoopNumber(f, k, MinOf(around))]

(* MangleForLoopNames, on an identifier inside the first depth loops of    *)
(* statement k: the innermost loop whose counter has this user name        *)
(* prefixes it with the loop's number.                                     *)
ForLoopName(f, k, depth, logical) ==
  LET around == {j \in 1 .. depth : fun(f).stmts[k].loops[j] = logical.id}
  IN  IF around = {} THEN logical
      ELSE [logical EXCEPT !.loop = LoopNumber(f, k, MaxOf(around))]

(* The logical name of a use and of a loop's own counter at that point.    *)
PrimaryName(f, u) ==
  IF u[1] = "init"
  THEN FuncVar(fun(f).decs[u[2]].init.kind, fun(f).decs[u[2]].init.id)
  ELSE LET st == fun(f).stmts[u[2]]
       IN  ForLoopName(f, u[2], Len(st.loops), FuncVar(st.ref.kind, st.ref.id))

(* Faulty: a counter has no number.                                        *)
CounterNameBare(f, k, depth) == FuncVar("var", fun(f).stmts[k].loops[depth])

CounterName(f, k, depth) ==
  ForLoopName(f, k, depth, FuncVar("var", fun(f).stmts[k].loops[depth]))

(***************************************************************************)
(* Symbol tables.  An entry is its scope and logical name: it stands for   *)
(* the address of the entry, which no other entry has.                     *)
(***************************************************************************)
Entry(s, key) == [scope |-> s, name |-> key]

symtable_lookup(s, key) ==
  LET hits == {t \in Enclosing(s) : key \in DOMAIN table[t]}
  IN  IF hits = {} THEN None ELSE table[Innermost(hits)][key]

(* Faulty: the parents are left out.                                       *)
SymtableContains(s, key) == key \in DOMAIN table[s]

symtable_isdefined(s, key) == symtable_lookup(s, key) # None

(* Inserting keys one after the other, each of them with the check for a   *)
(* duplicate that reports an error and skips the key, or without it, when  *)
(* symtable_insert asserts that it clobbers nothing.                       *)
Duplicates(s, keys) ==
  {i \in DOMAIN keys : \/ keys[i].key \in DOMAIN table[s]
                       \/ \E j \in 1 .. i - 1 : keys[j].key = keys[i].key}

Entered(s, keys, old) ==
  [k \in DOMAIN old \cup keys |-> IF k \in DOMAIN old THEN old[k] ELSE Entry(s, k)]

Insert(s, keys, tab) ==
  [tab EXCEPT ![s] = Entered(s, {keys[i].key : i \in DOMAIN keys}, @)]

Clobbers(s, keys)   == \E i \in Duplicates(s, keys) : ~keys[i].checked
Redefines(s, keys)  == \E i \in Duplicates(s, keys) : keys[i].checked

(* What InitSymtables inserts for a program, a header, a body, its loops.  *)
GlobalKeys ==
  [i \in DOMAIN prog.globals |->
     [key |-> FuncVar("var", prog.globals[i]), checked |-> TRUE]]
(* A parameter, then its dimensions, which a basic header does not check.  *)
(* The dimensions of a parameter that is there already are passed over.    *)
ParamKeys(f, i) ==
  LET p   == fun(f).params[i]
      own == <<[key |-> FuncVar("var", p.id), checked |-> TRUE]>>
  IN  IF FuncVar("var", p.id) \in DOMAIN table[f] THEN own
      ELSE own \o [d \in DOMAIN p.dims |->
                     [key |-> FuncVar("var", p.dims[d]), checked |-> fun(f).header = "void"]]
HeaderKey(f) == <<[key |-> FuncVar("func", fun(f).id), checked |-> FALSE]>>
DecKeys(f) ==
  [i \in DOMAIN fun(f).decs |->
     [key |-> FuncVar("var", fun(f).decs[i].id), checked |-> TRUE]]
LoopPlaces(f) ==
  UNION {{k} \X (1 .. Len(fun(f).stmts[k].loops)) : k \in DOMAIN fun(f).stmts}
LoopKeys(f) == {CounterName(f, place[1], place[2]) : place \in LoopPlaces(f)}

Init ==
  /\ prog \in Programs
  /\ pass = "InitSymtables"
  /\ agenda = <<<<"program", Top>>>>
  /\ param = 1
  /\ table = [s \in Scopes |-> <<>>]
  /\ name = [u \in AllUses |-> None]
  /\ error = FALSE

(* The next visit, what it adds in front of the agenda, what it leaves.    *)
Visit(what) == agenda # <<>> /\ Head(agenda)[1] = what
Here == Head(agenda)[2]
Then(tasks) == agenda' = tasks \o Tail(agenda)
Each(what, s) == [i \in DOMAIN Children[s] |-> <<what, Children[s][i]>>]

(***************************************************************************)
(* InitSymtables.                                                          *)
(***************************************************************************)
InitProgram ==
  /\ Visit("program")
  /\ table' = Insert(Top, GlobalKeys, table)
  /\ error' = Redefines(Top, GlobalKeys)
  /\ Then(Each("header", Top))
  /\ UNCHANGED <<prog, pass, param, name>>

(* The header's loop over its parameters fills the function's own table.   *)
InitParam ==
  /\ Visit("header") /\ param \in DOMAIN fun(Here).params
  /\ table' = Insert(Here, ParamKeys(Here, param), table)
  /\ error' = (error \/ Redefines(Here, ParamKeys(Here, param)))
  /\ pass' = IF Clobbers(Here, ParamKeys(Here, param)) THEN "assertion failed" ELSE pass
  /\ param' = param + 1
  /\ UNCHANGED <<prog, agenda, name>>

(* Then the header enters the function in the table around it.             *)
InitFunHeader ==
  /\ Visit("header") /\ param \notin DOMAIN fun(Here).params
  /\ table' = Insert(Parent[Here], HeaderKey(Here), table)
  /\ pass' = IF Clobbers(Parent[Here], HeaderKey(Here)) THEN "assertion failed" ELSE pass
  /\ Then(<<<<"body", Here>>>>)
  /\ param' = 1
  /\ UNCHANGED <<prog, name, error>>

InitFunBody ==
  /\ Visit("body")
  /\ table' = Insert(Here, DecKeys(Here), table)
  /\ error' = (error \/ Redefines(Here, DecKeys(Here)))
  /\ Then(Each("header", Here) \o <<<<"loops", Here>>>>)
  /\ UNCHANGED <<prog, pass, param, name>>

(* The loop counters, which nothing but the assertion checks.             *)
InitForLoops ==
  /\ Visit("loops")
  /\ table' = [table EXCEPT ![Here] = Entered(Here, LoopKeys(Here), @)]
  /\ pass' = IF LoopKeys(Here) \cap DOMAIN table[Here] # {}
             THEN "assertion failed" ELSE pass
  /\ Then(<<>>)
  /\ UNCHANGED <<prog, param, name, error>>

(* CCNerrorAction lets the traversal finish and then ends the compiler.    *)
InitSymtablesDone ==
  /\ pass = "InitSymtables" /\ agenda = <<>>
  /\ \/ error /\ pass' = "rejected" /\ UNCHANGED agenda
     \/ ~error /\ pass' = "SymtableMangling" /\ agenda' = Each("ids", Top)
  /\ UNCHANGED <<prog, param, table, name, error>>

InitSymtables ==
  \/ /\ pass = "InitSymtables"
     /\ InitProgram \/ InitParam \/ InitFunHeader \/ InitFunBody \/ InitForLoops
  \/ InitSymtablesDone

(***************************************************************************)
(* SymtableManglingIds and SymtableManglingTabs.                           *)
(***************************************************************************)
(* mangle: the name and the address of the entry, which is nil if the      *)
(* lookup found none.                                                      *)
Mangled(key, entry) == [key |-> key, entry |-> entry]

(* User names seen by the k-th initializer: parameters and earlier         *)
(* declarations of this function.  Other names are looked up outside.      *)
Seen(f, k) == ParamNames(f)
              \cup {fun(f).decs[i].id : i \in 1 .. k - 1}

LookupFrom(f, u) ==
  IF u[1] = "init" /\ fun(f).decs[u[2]].init.id \notin Seen(f, u[2])
  THEN Parent[f] ELSE f

ManglingIds ==
  /\ pass = "SymtableMangling" /\ Visit("ids")
  /\ name' = [v \in DOMAIN name |->
                IF v[1] # Here THEN name[v]
                ELSE LET key == PrimaryName(Here, v[2])
                     IN  Mangled(key, symtable_lookup(LookupFrom(Here, v[2]), key))]
  /\ Then(Each("ids", Here))
  /\ UNCHANGED <<prog, pass, param, table, error>>

(* Faulty: the program's own table keeps its keys, or is lost.             *)
ManglingTabsOfFuns ==
  /\ pass = "SymtableMangling" /\ agenda = <<>>
  /\ table' = [s \in Scopes |-> IF s = Top THEN table[s] ELSE
       [m \in {Mangled(k, table[s][k]) : k \in DOMAIN table[s]} |-> m.entry]]
  /\ pass' = "CheckIdentifiers"
  /\ agenda' = Each("check", Top)
  /\ UNCHANGED <<prog, param, name, error>>

(* Every table is re-keyed; the entries stay where they are.               *)
ManglingTabs ==
  /\ pass = "SymtableMangling" /\ agenda = <<>>
  /\ table' = [s \in Scopes |->
       [m \in {Mangled(k, table[s][k]) : k \in DOMAIN table[s]} |-> m.entry]]
  /\ pass' = "CheckIdentifiers"
  /\ agenda' = Each("check", Top)
  /\ UNCHANGED <<prog, param, name, error>>

(***************************************************************************)
(* CheckIdentifiers.                                                       *)
(***************************************************************************)
CheckFunDef ==
  /\ pass = "CheckIdentifiers" /\ Visit("check")
  /\ error' = (error \/ \E u \in Uses(Here) : ~symtable_isdefined(Here, name[<<Here, u>>]))
  /\ Then(Each("check", Here))
  /\ UNCHANGED <<prog, pass, param, table, name>>

CheckDone ==
  /\ pass = "CheckIdentifiers" /\ agenda = <<>>
  /\ pass' = IF error THEN "rejected" ELSE "accepted"
  /\ UNCHANGED <<prog, agenda, param, table, name, error>>

Next == InitSymtables \/ ManglingIds \/ ManglingTabs \/ CheckFunDef \/ CheckDone

Spec == Init /\ [][Next]_vars

(***************************************************************************)
(* What scoping is: the declarations of the program itself, no tables.     *)
(***************************************************************************)
VarsOf(s) ==
  IF s = Top THEN {prog.globals[i] : i \in DOMAIN prog.globals}
  ELSE ParamNames(s)
       \cup {fun(s).decs[i].id : i \in DOMAIN fun(s).decs}
FunsOf(s) == {fun(Children[s][i]).id : i \in DOMAIN Children[s]}

Declares(s, ref) == ref.id \in IF ref.kind = "var" THEN VarsOf(s) ELSE FunsOf(s)

(* The innermost scope around s that declares ref.                         *)
Around(s, ref) ==
  LET hits == {t \in Enclosing(s) : Declares(t, ref)}
  IN  IF hits = {} THEN None
      ELSE Entry(Innermost(hits), FuncVar(ref.kind, ref.id))

(* The declaration a use means: for a variable in a statement the          *)
(* innermost loop of that name first; for a variable in an initializer     *)
(* the declarations before it, but not its own or a later one.             *)
Meaning(f, u) ==
  IF u[1] = "init"
  THEN LET ref == fun(f).decs[u[2]].init
       IN  IF ref.kind = "var" /\ ref.id \notin Seen(f, u[2])
           THEN Around(Parent[f], ref) ELSE Around(f, ref)
  ELSE LET st     == fun(f).stmts[u[2]]
           around == {j \in DOMAIN st.loops : st.loops[j] = st.ref.id}
       IN  IF st.ref.kind = "var" /\ around # {}
           THEN Entry(f, [FuncVar("var", st.ref.id) EXCEPT
                            !.loop = LoopNumber(f, u[2], MaxOf(around))])
           ELSE Around(f, st.ref)

(* The program declares a name twice in one scope.                         *)
Repeats(seq) == \E i, j \in DOMAIN seq : i < j /\ seq[i] = seq[j]
RepeatsInHeader(f) ==
  \E p, q \in HeaderPlaces(f) : p # q /\ NameAt(f, p) = NameAt(f, q)
FunIds(s) == [i \in DOMAIN Children[s] |-> fun(Children[s][i]).id]
DecIds(f) == [i \in DOMAIN fun(f).decs |-> fun(f).decs[i].id]
Redeclares ==
  \/ Repeats(prog.globals)
  \/ \E s \in Scopes : Repeats(FunIds(s))
  \/ \E f \in Funs : RepeatsInHeader(f) \/ Repeats(DecIds(f))
  \/ \E f \in Funs : \E i \in DOMAIN fun(f).decs : fun(f).decs[i].id \in ParamNames(f)

(***************************************************************************)
(* Properties.                                                             *)
(***************************************************************************)
(* Two calls that the passes get wrong: a function is called in a loop     *)
(* whose counter has its name, and is then looked up as a counter of that  *)
(* loop; an initializer calls a function that stands beside it, and is     *)
(* then looked up from the enclosing function on.                          *)
CallLikeCounter(f, u) ==
  /\ u[1] = "stmt" /\ fun(f).stmts[u[2]].ref.kind = "func"
  /\ \E j \in DOMAIN fun(f).stmts[u[2]].loops :
       fun(f).stmts[u[2]].loops[j] = fun(f).stmts[u[2]].ref.id
CallBesideDec(f, u) ==
  /\ u[1] = "init" /\ fun(f).decs[u[2]].init.kind = "func"
  /\ fun(f).decs[u[2]].init.id \in FunsOf(f)

(* In a program that the checks let through, no scope declares a name      *)
(* twice, and every identifier carries the address of the declaration that *)
(* scoping means: also where a loop counter, a local and an outer variable *)
(* share one name, and where an initializer names the variable it          *)
(* initializes.  The call that goes elsewhere is one to a local function   *)
(* in an initializer beside it, if the name means a function outside, too. *)
BindsLexically ==
  pass = "accepted" =>
    /\ ~Redeclares
    /\ \A v \in AllUses : \/ name[v].entry = Meaning(v[1], v[2])
                          \/ /\ CallBesideDec(v[1], v[2])
                             /\ name[v].entry =
                                  Around(Parent[v[1]], fun(v[1]).decs[v[2][2]].init)

(* A program is only turned away for a reason: a use that means nothing, a *)
(* name declared twice, or one of the two calls above.                     *)
RejectsOnlyErrors ==
  pass \in {"rejected", "assertion failed"} =>
    \/ Redeclares
    \/ \E v \in AllUses : \/ Meaning(v[1], v[2]) = None
                          \/ CallLikeCounter(v[1], v[2])
                          \/ CallBesideDec(v[1], v[2])

(* After re-keying, the key under which a use finds its entry again is     *)
(* found nowhere else: no inner table hides the entry a use was bound to.  *)
RekeyingHidesNothing ==
  pass \in {"CheckIdentifiers", "accepted"} =>
    \A v \in AllUses :
      name[v].entry # None => symtable_lookup(v[1], name[v]) = name[v].entry

(* symtable_insert's assertion only fails on names in function headers: a  *)
(* function defined twice, a dimension called like another parameter.      *)
(* Globals and locals are checked before, and counters, which nothing      *)
(* checks, never meet a name that is there.                                *)
AssertsOnlyOnHeaders ==
  pass = "assertion failed" =>
    \/ \E s \in Scopes : Repeats(FunIds(s))
    \/ \E f \in Funs : RepeatsInHeader(f)
=============================================================================
