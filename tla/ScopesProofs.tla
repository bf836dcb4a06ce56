---------------------------- MODULE ScopesProofs ----------------------------
(***************************************************************************)
(* Proofs about Scopes: for every set of programs, whatever the nesting of *)
(* their functions.                                                        *)
(*                                                                         *)
(* The functions of a program form a tree; what is said of the scopes on   *)
(* the way out is proved from Enclosing's being the smallest set with its  *)
(* property.                                                               *)
(***************************************************************************)
EXTENDS Scopes, FiniteSetTheorems, SequenceTheorems, TLAPS

(***************************************************************************)
(* The tree of functions.                                                  *)
(***************************************************************************)
LEMMA Elements ==
  ASSUME NEW S, NEW seq \in Seq(S)
  PROVE  /\ Len(seq) \in Nat /\ DOMAIN seq = 1 .. Len(seq)
         /\ \A i \in DOMAIN seq : i \in Nat \ {0} /\ seq[i] \in S
OBVIOUS

LEMMA ProgramFacts ==
  ASSUME prog \in Programs
  PROVE  /\ Tree(Children)
         /\ \A s \in Scopes : Children[s] \in Seq(Funs)
         /\ \A s \in Scopes : \A i \in DOMAIN Children[s] : Children[s][i] \in Funs
         /\ Top \notin Funs /\ Scopes = Funs \cup {Top}
         /\ prog.globals \in Seq(Names)
         /\ \A f \in Funs :
              /\ fun(f).id \in Names
              /\ fun(f).params \in Seq([id : Names, dims : Seq(Names)])
              /\ fun(f).decs \in Seq([id : Names, init : Refs \cup {None}])
              /\ fun(f).stmts \in Seq([loops : Seq(Names), ref : Refs])
<1>1. Tree(Children) /\ Top \notin Funs /\ prog.globals \in Seq(Names)
  BY ScopesAssumption DEF Children
<1>2. \A s \in Scopes : Children[s] \in Seq(Funs)
  BY <1>1 DEF Tree
<1>3. \A s \in Scopes : \A i \in DOMAIN Children[s] : Children[s][i] \in Funs
  <2> SUFFICES ASSUME NEW s \in Scopes, NEW i \in DOMAIN Children[s] PROVE Children[s][i] \in Funs
    OBVIOUS
  <2> QED BY <1>2, Elements
<1> QED BY <1>1, <1>2, <1>3, ScopesAssumption DEF fun, Scopes

(* Each function is defined in one scope, its parent.                      *)
LEMMA ParentFacts ==
  ASSUME prog \in Programs
  PROVE  /\ \A f \in Funs : /\ Parent[f] \in Scopes
                            /\ \E i \in DOMAIN Children[Parent[f]] : Children[Parent[f]][i] = f
         /\ \A s \in Scopes : \A i \in DOMAIN Children[s] : Parent[Children[s][i]] = s
<1> DEFINE Found == {s \in Scopes : s = Top \/ \E t \in Scopes : \E i \in DOMAIN Children[t] : Children[t][i] = s}
<1>1. Tree(Children) /\ Top \notin Funs /\ Scopes = Funs \cup {Top}
  BY ProgramFacts
<1>2. \A s \in Scopes : \A i \in DOMAIN Children[s] : Children[s][i] \in Funs
  BY ProgramFacts
<1>3. Found \in SUBSET Scopes /\ Top \in Found
  BY <1>1
<1>4. \A s \in Found : \A i \in DOMAIN Children[s] : Children[s][i] \in Found
  BY <1>1, <1>2
<1>5. Found = Scopes
  BY <1>1, <1>3, <1>4 DEF Tree
<1>6. \A f \in Funs : \E s \in Scopes : \E i \in DOMAIN Children[s] : Children[s][i] = f
  BY <1>1, <1>5
<1>7. \A f \in Funs : /\ Parent[f] \in Scopes
                      /\ \E i \in DOMAIN Children[Parent[f]] : Children[Parent[f]][i] = f
  BY <1>6 DEF Parent
<1>8. \A s, t \in Scopes : \A i \in DOMAIN Children[s], j \in DOMAIN Children[t] :
         Children[s][i] = Children[t][j] => s = t
  BY <1>1 DEF Tree
<1>9. \A s \in Scopes : \A i \in DOMAIN Children[s] : Parent[Children[s][i]] = s
  BY <1>2, <1>7, <1>8
<1> QED BY <1>7, <1>9

(* The scopes on the way out: by definition the smallest set.              *)
LEMMA EnclosingSmallest ==
  ASSUME NEW s \in Scopes, NEW S \in SUBSET Scopes, s \in S,
         \A f \in S \ {Top} : Parent[f] \in S
  PROVE  Enclosing(s) \subseteq S
BY DEF Enclosing

LEMMA EnclosingSteps ==
  ASSUME prog \in Programs
  PROVE  /\ \A s \in Scopes : s \in Enclosing(s) /\ Enclosing(s) \subseteq Scopes
         /\ Enclosing(Top) = {Top}
         /\ \A s \in Scopes : \A f \in Enclosing(s) \ {Top} : Parent[f] \in Enclosing(s)
         /\ \A f \in Funs : Enclosing(f) = {f} \cup Enclosing(Parent[f])
<1>1. Top \notin Funs /\ Scopes = Funs \cup {Top}
  BY ProgramFacts
<1>2. \A f \in Funs : Parent[f] \in Scopes
  BY ParentFacts
<1>3. \A s \in Scopes : s \in Enclosing(s) /\ Enclosing(s) \subseteq Scopes
  BY DEF Enclosing
<1>4. ASSUME NEW s \in Scopes, NEW f \in Enclosing(s) \ {Top}
      PROVE  Parent[f] \in Enclosing(s)
  <2>1. f \in Funs /\ Parent[f] \in Scopes
    BY <1>1, <1>2, <1>3, <1>4
  <2> QED BY <1>4, <2>1 DEF Enclosing
<1>5. Enclosing(Top) = {Top}
  <2>1. Enclosing(Top) \subseteq {Top}
    BY <1>1, EnclosingSmallest
  <2> QED BY <1>1, <1>3, <2>1
<1>6. ASSUME NEW f \in Funs
      PROVE  Enclosing(f) = {f} \cup Enclosing(Parent[f])
  <2>1. f \in Scopes /\ Parent[f] \in Scopes /\ f # Top
    BY <1>1, <1>2
  <2>2. Enclosing(f) \subseteq {f} \cup Enclosing(Parent[f])
    <3>1. {f} \cup Enclosing(Parent[f]) \in SUBSET Scopes
      BY <1>3, <2>1
    <3>2. \A g \in ({f} \cup Enclosing(Parent[f])) \ {Top} :
             Parent[g] \in {f} \cup Enclosing(Parent[f])
      BY <1>3, <1>4, <2>1
    <3> HIDE DEF Enclosing
    <3> QED BY <2>1, <3>1, <3>2, EnclosingSmallest
  <2>3. Parent[f] \in Enclosing(f)
    BY <1>3, <1>4, <2>1
  <2>4. Enclosing(Parent[f]) \subseteq Enclosing(f)
    BY <1>3, <1>4, <2>1, <2>3, EnclosingSmallest
  <2> QED BY <1>3, <2>1, <2>2, <2>4
<1> QED BY <1>3, <1>4, <1>5, <1>6

(* No function is around itself.                                           *)
LEMMA EnclosingOrder ==
  ASSUME prog \in Programs
  PROVE  /\ \A s \in Scopes : \A t \in Enclosing(s) : Enclosing(t) \subseteq Enclosing(s)
         /\ \A s \in Scopes : Top \in Enclosing(s)
         /\ \A f \in Funs : f \notin Enclosing(Parent[f])
         /\ \A s, t \in Scopes : s \in Enclosing(t) /\ t \in Enclosing(s) => s = t
<1>1. /\ Top \notin Funs /\ Scopes = Funs \cup {Top} /\ Tree(Children)
      /\ \A s \in Scopes : \A i \in DOMAIN Children[s] : Children[s][i] \in Funs
  BY ProgramFacts
<1>2. /\ \A f \in Funs : Parent[f] \in Scopes
      /\ \A s \in Scopes : \A i \in DOMAIN Children[s] : Parent[Children[s][i]] = s
  BY ParentFacts
<1>3. /\ \A s \in Scopes : s \in Enclosing(s) /\ Enclosing(s) \subseteq Scopes
      /\ Enclosing(Top) = {Top}
      /\ \A s \in Scopes : \A f \in Enclosing(s) \ {Top} : Parent[f] \in Enclosing(s)
      /\ \A f \in Funs : Enclosing(f) = {f} \cup Enclosing(Parent[f])
  BY EnclosingSteps
<1>4. ASSUME NEW s \in Scopes, NEW t \in Enclosing(s)
      PROVE  Enclosing(t) \subseteq Enclosing(s)
  BY <1>3, EnclosingSmallest
<1>5. \A s \in Scopes : Top \in Enclosing(s)
  <2> DEFINE S == {s \in Scopes : Top \in Enclosing(s)}
  <2>1. S \in SUBSET Scopes /\ Top \in S
    BY <1>1, <1>3
  <2>2. \A s \in S : \A i \in DOMAIN Children[s] : Children[s][i] \in S
    BY <1>1, <1>2, <1>3
  <2>3. S = Scopes
    BY <1>1, <2>1, <2>2 DEF Tree
  <2> QED BY <2>3
<1>6. ASSUME NEW f \in Funs, f \in Enclosing(Parent[f]) PROVE FALSE
  <2> DEFINE S == {t \in Scopes : f \in Enclosing(t)}
  <2>1. S \in SUBSET Scopes /\ Parent[f] \in S /\ Parent[f] \in Scopes
    BY <1>2, <1>6
  <2>2. \A t \in S \ {Top} : Parent[t] \in S
    BY <1>1, <1>2, <1>3, <2>1
  <2>3. Enclosing(Parent[f]) \subseteq S
    BY <2>1, <2>2, EnclosingSmallest
  <2>4. Top \in S
    BY <1>5, <2>1, <2>3
  <2> QED BY <1>1, <1>3, <2>4
<1>7. ASSUME NEW s \in Scopes, NEW t \in Scopes, s \in Enclosing(t), t \in Enclosing(s), s # t
      PROVE  FALSE
  <2>1. s # Top
    BY <1>3, <1>7
  <2>2. s \in Funs /\ t \in Enclosing(Parent[s]) /\ Parent[s] \in Scopes
    BY <1>1, <1>2, <1>3, <1>7, <2>1
  <2>3. s \in Enclosing(Parent[s])
    BY <1>4, <1>7, <2>2
  <2> QED BY <1>6, <2>2, <2>3
<1> QED BY <1>4, <1>5, <1>6, <1>7

(* Of some scopes on one way out, there is a first.                        *)
LEMMA InnermostFacts ==
  ASSUME prog \in Programs, NEW s \in Scopes, NEW H \in SUBSET Enclosing(s), H # {}
  PROVE  Innermost(H) \in H /\ H \subseteq Enclosing(Innermost(H))
<1> SUFFICES \E h \in H : H \subseteq Enclosing(h)
  BY DEF Innermost
<1> SUFFICES ASSUME \A h \in H : ~ (H \subseteq Enclosing(h)) PROVE FALSE
  OBVIOUS
<1> DEFINE S == {t \in Scopes : H \subseteq Enclosing(t)}
<1>1. Top \notin Funs /\ Scopes = Funs \cup {Top}
  BY ProgramFacts
<1>2. \A f \in Funs : Parent[f] \in Scopes
  BY ParentFacts
<1>3. /\ \A t \in Scopes : Enclosing(t) \subseteq Scopes
      /\ \A f \in Funs : Enclosing(f) = {f} \cup Enclosing(Parent[f])
  BY EnclosingSteps
<1>4. S \in SUBSET Scopes /\ s \in S
  OBVIOUS
<1>5. ASSUME NEW t \in S \ {Top} PROVE Parent[t] \in S
  <2>1. t \in Funs /\ t \notin H
    BY <1>1, <1>5
  <2>2. H \subseteq Enclosing(Parent[t])
    BY <1>3, <1>5, <2>1
  <2> QED BY <1>2, <2>1, <2>2
<1>6. Enclosing(s) \subseteq S
  BY <1>4, <1>5, EnclosingSmallest
<1> QED BY <1>6

(* What is around a scope comes one after the other.                       *)
LEMMA EnclosingLinear ==
  ASSUME prog \in Programs, NEW s \in Scopes, NEW t \in Enclosing(s), NEW u \in Enclosing(s)
  PROVE  t \in Enclosing(u) \/ u \in Enclosing(t)
<1>1. {t, u} \in SUBSET Enclosing(s) /\ {t, u} # {}
  OBVIOUS
<1>2. Innermost({t, u}) \in {t, u} /\ {t, u} \subseteq Enclosing(Innermost({t, u}))
  BY <1>1, InnermostFacts
<1> QED BY <1>2

(* Functions beside each other have nothing in common.                     *)
LEMMA SiblingsApart ==
  ASSUME prog \in Programs, NEW f \in Funs, NEW g \in Funs, Parent[f] = Parent[g], f # g,
         NEW h \in Scopes, f \in Enclosing(h), g \in Enclosing(h)
  PROVE  FALSE
<1>1. f \in Enclosing(g) \/ g \in Enclosing(f)
  BY EnclosingLinear
<1>2. f \in Enclosing(Parent[g]) \/ g \in Enclosing(Parent[f])
  BY <1>1, EnclosingSteps
<1> QED BY <1>2, EnclosingOrder

(* On the way from a function to a scope around it, the last function      *)
(* before the scope is defined in it.                                      *)
LEMMA ChildOnTheWay ==
  ASSUME prog \in Programs, NEW f \in Funs, NEW s \in Enclosing(f), s # f
  PROVE  \E i \in DOMAIN Children[s] : Children[s][i] \in Enclosing(f)
<1> DEFINE S == {f} \cup {t \in Scopes : \E c \in Funs : c \in Enclosing(f) /\ Parent[c] = t}
<1>1. Top \notin Funs /\ Scopes = Funs \cup {Top}
  BY ProgramFacts
<1>2. \A g \in Funs : /\ Parent[g] \in Scopes
                      /\ \E i \in DOMAIN Children[Parent[g]] : Children[Parent[g]][i] = g
  BY ParentFacts
<1>3. /\ f \in Enclosing(f) /\ Enclosing(f) \subseteq Scopes
      /\ \A g \in Enclosing(f) \ {Top} : Parent[g] \in Enclosing(f)
  BY <1>1, EnclosingSteps
<1>4. f \in Scopes /\ S \in SUBSET Scopes /\ f \in S
  BY <1>1
<1>5. ASSUME NEW g \in S \ {Top} PROVE Parent[g] \in S
  <2>1. g \in Enclosing(f)
    BY <1>1, <1>3, <1>5
  <2>2. g \in Funs
    BY <1>1, <1>3, <1>5, <2>1
  <2> QED BY <1>2, <2>1, <2>2
<1>6. Enclosing(f) \subseteq S
  BY <1>4, <1>5, EnclosingSmallest
<1>7. PICK c \in Funs : c \in Enclosing(f) /\ Parent[c] = s
  BY <1>6
<1> QED BY <1>2, <1>7

(***************************************************************************)
(* What a program declares, apart from tables.                             *)
(***************************************************************************)
(* The keys that the table of s has in the end.                            *)
KeysOf(s) ==
  {FuncVar("var", n) : n \in VarsOf(s)} \cup {FuncVar("func", n) : n \in FunsOf(s)}
  \cup IF s = Top THEN {} ELSE LoopKeys(s)

(* What a lookup finds when the tables are complete.                       *)
Found(s, key) ==
  LET hits == {t \in Enclosing(s) : key \in KeysOf(t)}
  IN  IF hits = {} THEN None ELSE Entry(Innermost(hits), key)

(* The declaration that a use is bound to.                                 *)
Bound(f, u) == Found(LookupFrom(f, u), PrimaryName(f, u))

(* Two functions of one scope with one name, two names of a header: what   *)
(* symtable_insert's assertion may fail on.                                *)
HeadersRepeat ==
  \/ \E s \in Scopes : Repeats(FunIds(s))
  \/ \E f \in Funs : RepeatsInHeader(f)

LEMMA FuncVarFacts ==
  /\ \A k, n : FuncVar(k, n).kind = k /\ FuncVar(k, n).id = n /\ FuncVar(k, n).loop = None
  /\ \A k, n, j, m : FuncVar(k, n) = FuncVar(j, m) => k = j /\ n = m
  /\ \A s, k, t, j : Entry(s, k) = Entry(t, j) => s = t /\ k = j
  /\ \A k, e : Mangled(k, e).key = k /\ Mangled(k, e).entry = e
  /\ \A k, e, j, d : Mangled(k, e) = Mangled(j, d) => k = j /\ e = d
<1>1. \A k, n : FuncVar(k, n).kind = k /\ FuncVar(k, n).id = n /\ FuncVar(k, n).loop = None
  BY DEF FuncVar
<1>2. \A s, k : Entry(s, k).scope = s /\ Entry(s, k).name = k
  BY DEF Entry
<1>3. \A k, e : Mangled(k, e).key = k /\ Mangled(k, e).entry = e
  BY DEF Mangled
<1>4. \A k, n, j, m : FuncVar(k, n) = FuncVar(j, m) => k = j /\ n = m
  <2> SUFFICES ASSUME NEW k, NEW n, NEW j, NEW m, FuncVar(k, n) = FuncVar(j, m)
               PROVE  k = j /\ n = m
    OBVIOUS
  <2> QED BY <1>1
<1>5. \A s, k, t, j : Entry(s, k) = Entry(t, j) => s = t /\ k = j
  <2> SUFFICES ASSUME NEW s, NEW k, NEW t, NEW j, Entry(s, k) = Entry(t, j)
               PROVE  s = t /\ k = j
    OBVIOUS
  <2> QED BY <1>2
<1>6. \A k, e, j, d : Mangled(k, e) = Mangled(j, d) => k = j /\ e = d
  <2> SUFFICES ASSUME NEW k, NEW e, NEW j, NEW d, Mangled(k, e) = Mangled(j, d)
               PROVE  k = j /\ e = d
    OBVIOUS
  <2> QED BY <1>3
<1> QED BY <1>1, <1>3, <1>4, <1>5, <1>6

(* The largest of some numbers up to a bound.                              *)
LEMMA MaxOfFacts ==
  ASSUME NEW depth \in Nat, NEW S \in SUBSET (1 .. depth), S # {}
  PROVE  MaxOf(S) \in S /\ \A j \in S : j <= MaxOf(S)
<1> SUFFICES \E i \in S : \A j \in S : j <= i
  BY DEF MaxOf
<1> DEFINE T == {depth - i : i \in S}
<1>1. \A j \in S : j \in Nat /\ j <= depth
  OBVIOUS
<1>2. T \subseteq Nat /\ T # {}
  <2>1. \A j \in S : depth - j \in Nat
    BY <1>1
  <2> QED BY <2>1
<1>3. PICK n \in T : \A m \in T : ~ (<<m, n>> \in OpToRel(<, Nat))
  BY <1>2, WFMin, NatLessThanWellFounded
<1>4. \A m \in T : ~ (m < n)
  BY <1>2, <1>3 DEF OpToRel
<1>5. PICK i \in S : n = depth - i
  BY <1>3
<1>6. \A j \in S : ~ (depth - j < depth - i)
  BY <1>4, <1>5
<1>7. \A j \in S : j <= i
  BY <1>6, <1>1
<1> QED BY <1>7

LEMMA NamesOfScopes ==
  ASSUME prog \in Programs
  PROVE  /\ \A f \in Funs : \A place \in HeaderPlaces(f) : NameAt(f, place) \in Names
         /\ \A f \in Funs : \A i \in DOMAIN fun(f).decs : fun(f).decs[i].id \in Names
         /\ \A i \in DOMAIN prog.globals : prog.globals[i] \in Names
         /\ \A s \in Scopes : VarsOf(s) \subseteq Names /\ FunsOf(s) \subseteq Names
<1>1. /\ \A s \in Scopes : \A i \in DOMAIN Children[s] : Children[s][i] \in Funs
      /\ Top \notin Funs /\ Scopes = Funs \cup {Top}
      /\ prog.globals \in Seq(Names)
      /\ \A f \in Funs :
           /\ fun(f).id \in Names
           /\ fun(f).params \in Seq([id : Names, dims : Seq(Names)])
           /\ fun(f).decs \in Seq([id : Names, init : Refs \cup {None}])
  BY ProgramFacts
<1>2. ASSUME NEW f \in Funs, NEW place \in HeaderPlaces(f)
      PROVE  NameAt(f, place) \in Names
  <2>1. PICK i \in DOMAIN fun(f).params : place \in {i} \X (0 .. Len(fun(f).params[i].dims))
    BY DEF HeaderPlaces
  <2>2. /\ fun(f).params[i].id \in Names /\ fun(f).params[i].dims \in Seq(Names)
    <3>1. fun(f).params[i] \in [id : Names, dims : Seq(Names)]
      BY <1>1, Elements
    <3> QED BY <3>1
  <2>3. place[1] = i /\ place[2] \in 0 .. Len(fun(f).params[i].dims)
    BY <2>1
  <2>4. CASE place[2] = 0
    BY <2>2, <2>3, <2>4 DEF NameAt
  <2>5. CASE place[2] # 0
    <3>1. place[2] \in 1 .. Len(fun(f).params[i].dims)
      BY <2>2, <2>3, <2>5
    <3>2. fun(f).params[i].dims[place[2]] \in Names
      BY <2>2, <3>1
    <3> QED BY <2>3, <2>5, <3>2 DEF NameAt
  <2> QED BY <2>4, <2>5
<1>3. \A f \in Funs : \A i \in DOMAIN fun(f).decs : fun(f).decs[i].id \in Names
  <2> SUFFICES ASSUME NEW f \in Funs, NEW i \in DOMAIN fun(f).decs PROVE fun(f).decs[i].id \in Names
    OBVIOUS
  <2>1. fun(f).decs[i] \in [id : Names, init : Refs \cup {None}]
    BY <1>1, Elements, ZenonT(30)
  <2> QED BY <2>1
<1>4. \A i \in DOMAIN prog.globals : prog.globals[i] \in Names
  BY <1>1, Elements
<1>5. ASSUME NEW s \in Scopes PROVE VarsOf(s) \subseteq Names /\ FunsOf(s) \subseteq Names
  <2>1. FunsOf(s) \subseteq Names
    BY <1>1 DEF FunsOf
  <2>2. CASE s = Top
    BY <1>4, <2>1, <2>2 DEF VarsOf
  <2>3. CASE s # Top
    <3>1. s \in Funs
      BY <1>1, <2>3
    <3>2. VarsOf(s) = {NameAt(s, place) : place \in HeaderPlaces(s)}
                      \cup {fun(s).decs[i].id : i \in DOMAIN fun(s).decs}
      BY <2>3 DEF VarsOf, ParamNames
    <3> QED BY <1>2, <1>3, <2>1, <3>1, <3>2
  <2> QED BY <2>2, <2>3
<1> QED BY <1>2, <1>3, <1>4, <1>5

(* The loops around an identifier whose counter has its name.              *)
LoopsNamed(f, k, depth, id) == {j \in 1 .. depth : fun(f).stmts[k].loops[j] = id}

LEMMA ForLoopNames ==
  ASSUME prog \in Programs, NEW f \in Funs, NEW k \in DOMAIN fun(f).stmts,
         NEW depth \in 0 .. Len(fun(f).stmts[k].loops), NEW kind, NEW id
  PROVE  /\ LoopsNamed(f, k, depth, id) = {} =>
              ForLoopName(f, k, depth, FuncVar(kind, id)) = FuncVar(kind, id)
         /\ LoopsNamed(f, k, depth, id) # {} =>
              /\ MaxOf(LoopsNamed(f, k, depth, id)) \in LoopsNamed(f, k, depth, id)
              /\ \A j \in LoopsNamed(f, k, depth, id) : j <= MaxOf(LoopsNamed(f, k, depth, id))
              /\ ForLoopName(f, k, depth, FuncVar(kind, id))
                   = [FuncVar(kind, id) EXCEPT !.loop = <<f, k, MaxOf(LoopsNamed(f, k, depth, id))>>]
<1> DEFINE around == LoopsNamed(f, k, depth, id)
<1>1. around = {j \in 1 .. depth : fun(f).stmts[k].loops[j] = FuncVar(kind, id).id}
  BY FuncVarFacts DEF LoopsNamed
<1>2. fun(f).stmts[k].loops \in Seq(Names)
  <2>1. fun(f).stmts[k] \in [loops : Seq(Names), ref : Refs]
    BY ProgramFacts, Elements
  <2> QED BY <2>1
<1>3. depth \in Nat /\ around \in SUBSET (1 .. depth)
  BY <1>2 DEF LoopsNamed
<1>4. around # {} => MaxOf(around) \in around /\ \A j \in around : j <= MaxOf(around)
  <2> HIDE DEF around
  <2> QED BY <1>3, MaxOfFacts
<1>5. around = {} => ForLoopName(f, k, depth, FuncVar(kind, id)) = FuncVar(kind, id)
  BY <1>1 DEF ForLoopName
<1>6. around # {} => ForLoopName(f, k, depth, FuncVar(kind, id))
                       = [FuncVar(kind, id) EXCEPT !.loop = <<f, k, MaxOf(around)>>]
  BY <1>1 DEF ForLoopName, LoopNumber
<1> QED BY <1>4, <1>5, <1>6

(* A counter has the number of its own loop.                               *)
Counter(f, place) ==
  [kind |-> "var", id |-> fun(f).stmts[place[1]].loops[place[2]], loop |-> <<f, place[1], place[2]>>]

LEMMA CounterNames ==
  ASSUME prog \in Programs, NEW f \in Funs, NEW k \in DOMAIN fun(f).stmts,
         NEW depth \in 1 .. Len(fun(f).stmts[k].loops)
  PROVE  CounterName(f, k, depth) = Counter(f, <<k, depth>>)
<1> DEFINE id == fun(f).stmts[k].loops[depth]
           around == LoopsNamed(f, k, depth, id)
<1>1. depth \in 0 .. Len(fun(f).stmts[k].loops) /\ depth \in around /\ around \subseteq 1 .. depth
  BY DEF LoopsNamed
<1>2. /\ MaxOf(around) \in around /\ \A j \in around : j <= MaxOf(around)
      /\ ForLoopName(f, k, depth, FuncVar("var", id))
           = [FuncVar("var", id) EXCEPT !.loop = <<f, k, MaxOf(around)>>]
  <2> HIDE DEF id
  <2> QED BY <1>1, ForLoopNames
<1>3. MaxOf(around) = depth
  <2>1. MaxOf(around) \in 1 .. depth /\ depth <= MaxOf(around)
    BY <1>1, <1>2
  <2> QED BY <2>1
<1> QED BY <1>2, <1>3 DEF CounterName, Counter, FuncVar

LEMMA LoopKeysFacts ==
  ASSUME prog \in Programs, NEW f \in Funs
  PROVE  /\ LoopKeys(f) = {Counter(f, place) : place \in LoopPlaces(f)}
         /\ \A key \in LoopKeys(f) :
              /\ key \in Keys /\ key.kind = "var" /\ key.loop # None
              /\ key.loop[1] = f
<1>1. ASSUME NEW place \in LoopPlaces(f)
      PROVE  /\ CounterName(f, place[1], place[2]) = Counter(f, place)
             /\ Counter(f, place) \in Keys
  <2>1. PICK k \in DOMAIN fun(f).stmts : place \in {k} \X (1 .. Len(fun(f).stmts[k].loops))
    BY DEF LoopPlaces
  <2>2. PICK depth \in 1 .. Len(fun(f).stmts[k].loops) : place = <<k, depth>>
    BY <2>1
  <2>3. CounterName(f, k, depth) = Counter(f, <<k, depth>>)
    BY CounterNames
  <2>4. fun(f).stmts[k] \in [loops : Seq(Names), ref : Refs] /\ k \in Nat
    BY ProgramFacts, Elements, ZenonT(30)
  <2>5. fun(f).stmts[k].loops[depth] \in Names /\ depth \in Nat
    BY <2>4
  <2> QED BY <2>2, <2>3, <2>4, <2>5 DEF Counter, Keys
<1>2. LoopKeys(f) = {Counter(f, place) : place \in LoopPlaces(f)}
  BY <1>1 DEF LoopKeys
<1>3. \A place : /\ Counter(f, place).kind = "var" /\ Counter(f, place).loop = <<f, place[1], place[2]>>
  BY DEF Counter
<1>4. ASSUME NEW key \in LoopKeys(f)
      PROVE  /\ key \in Keys /\ key.kind = "var" /\ key.loop # None
             /\ key.loop[1] = f
  <2>1. PICK place \in LoopPlaces(f) : key = Counter(f, place)
    BY <1>2
  <2>2. key \in Keys /\ key.kind = "var" /\ key.loop = <<f, place[1], place[2]>>
    BY <1>1, <1>3, <2>1
  <2>3. PICK k \in DOMAIN fun(f).stmts : place \in {k} \X (1 .. Len(fun(f).stmts[k].loops))
    BY DEF LoopPlaces
  <2>4. place[1] \in Nat /\ place[2] \in Nat
    <3>1. k \in Nat
      BY ProgramFacts, Elements
    <3> QED BY <2>3, <3>1
  <2>5. key.loop \in Funs \X Nat \X Nat
    BY <2>2, <2>4
  <2> QED BY <2>2, <2>5, ScopesAssumption
<1> QED BY <1>2, <1>4

LEMMA KeysFacts ==
  ASSUME prog \in Programs
  PROVE  \A s \in Scopes :
           /\ KeysOf(s) \subseteq Keys
           /\ \A n : FuncVar("var", n) \in KeysOf(s) <=> n \in VarsOf(s)
           /\ \A n : FuncVar("func", n) \in KeysOf(s) <=> n \in FunsOf(s)
           /\ \A key \in KeysOf(s) : key.loop # None => s \in Funs /\ key \in LoopKeys(s)
           /\ s \in Funs => LoopKeys(s) \subseteq KeysOf(s)
<1> SUFFICES ASSUME NEW s \in Scopes
             PROVE  /\ KeysOf(s) \subseteq Keys
                    /\ \A n : FuncVar("var", n) \in KeysOf(s) <=> n \in VarsOf(s)
                    /\ \A n : FuncVar("func", n) \in KeysOf(s) <=> n \in FunsOf(s)
                    /\ \A key \in KeysOf(s) : key.loop # None => s \in Funs /\ key \in LoopKeys(s)
                    /\ s \in Funs => LoopKeys(s) \subseteq KeysOf(s)
  OBVIOUS
<1>1. Top \notin Funs /\ Scopes = Funs \cup {Top}
  BY ProgramFacts
<1>2. VarsOf(s) \subseteq Names /\ FunsOf(s) \subseteq Names
  BY NamesOfScopes
<1>3. s \in Funs => \A key \in LoopKeys(s) : key \in Keys /\ key.loop # None
  BY LoopKeysFacts
<1>4. \A n \in Names : FuncVar("var", n) \in Keys /\ FuncVar("func", n) \in Keys
  BY DEF FuncVar, Keys
<1> DEFINE L == IF s = Top THEN {} ELSE LoopKeys(s)
<1>5. /\ L \subseteq Keys /\ \A key \in L : key.loop # None /\ s \in Funs /\ key \in LoopKeys(s)
      /\ s \in Funs => L = LoopKeys(s)
  BY <1>1, <1>3
<1>6. KeysOf(s) = {FuncVar("var", n) : n \in VarsOf(s)} \cup {FuncVar("func", n) : n \in FunsOf(s)} \cup L
  BY DEF KeysOf
<1> HIDE DEF L
<1>7. \A n : FuncVar("var", n) \in KeysOf(s) <=> n \in VarsOf(s)
  BY <1>5, <1>6, FuncVarFacts
<1>8. \A n : FuncVar("func", n) \in KeysOf(s) <=> n \in FunsOf(s)
  BY <1>5, <1>6, FuncVarFacts
<1>9. KeysOf(s) \subseteq Keys
  BY <1>2, <1>4, <1>5, <1>6
<1>10. \A key \in KeysOf(s) : key.loop # None => s \in Funs /\ key \in LoopKeys(s)
  BY <1>5, <1>6, FuncVarFacts
<1>11. s \in Funs => LoopKeys(s) \subseteq KeysOf(s)
  BY <1>5, <1>6
<1> QED BY <1>7, <1>8, <1>9, <1>10, <1>11

(* What a lookup finds in complete tables.                                 *)
LEMMA FoundFacts ==
  ASSUME prog \in Programs, NEW s \in Scopes, NEW key
  PROVE  /\ (\A t \in Enclosing(s) : key \notin KeysOf(t)) => Found(s, key) = None
         /\ (\E t \in Enclosing(s) : key \in KeysOf(t)) =>
              \E h \in Enclosing(s) : /\ key \in KeysOf(h) /\ Found(s, key) = Entry(h, key)
                                      /\ Entry(h, key) # None
<1> DEFINE hits == {t \in Enclosing(s) : key \in KeysOf(t)}
<1>1. Found(s, key) = IF hits = {} THEN None ELSE Entry(Innermost(hits), key)
  BY DEF Found
<1>2. hits # {} => Innermost(hits) \in hits
  BY InnermostFacts
<1>3. \A h \in hits : Entry(h, key) # None
  <2> SUFFICES ASSUME NEW h \in hits PROVE Entry(h, key) # None
    OBVIOUS
  <2>1. h \in Scopes /\ key \in Keys
    BY EnclosingSteps, KeysFacts
  <2>2. Entry(h, key) \in [scope : Scopes, name : Keys]
    BY <2>1 DEF Entry
  <2> QED BY <2>2, ScopesAssumption
<1> QED BY <1>1, <1>2, <1>3

(* A lookup by kind and name finds what scoping means by them.             *)
LEMMA FoundIsAround ==
  ASSUME prog \in Programs, NEW s \in Scopes, NEW ref \in Refs
  PROVE  Found(s, FuncVar(ref.kind, ref.id)) = Around(s, ref)
<1> DEFINE key == FuncVar(ref.kind, ref.id)
           hits == {t \in Enclosing(s) : key \in KeysOf(t)}
           decs == {t \in Enclosing(s) : Declares(t, ref)}
<1>1. ref.kind \in {"var", "func"}
  BY DEF Refs
<1>2. ASSUME NEW t \in Enclosing(s) PROVE key \in KeysOf(t) <=> Declares(t, ref)
  <2>1. t \in Scopes
    BY EnclosingSteps
  <2>2. CASE ref.kind = "var"
    BY <2>1, <2>2, KeysFacts DEF Declares
  <2>3. CASE ref.kind = "func"
    BY <2>1, <2>3, KeysFacts DEF Declares
  <2> QED BY <1>1, <2>2, <2>3
<1>3. hits = decs
  BY <1>2
<1>4. Found(s, key) = IF hits = {} THEN None ELSE Entry(Innermost(hits), key)
  BY DEF Found
<1>5. Around(s, ref) = IF decs = {} THEN None ELSE Entry(Innermost(decs), key)
  BY DEF Around
<1> HIDE DEF hits, decs
<1> QED BY <1>3, <1>4, <1>5

LEMMA AroundFromInside ==
  ASSUME prog \in Programs, NEW f \in Funs, NEW ref, ~ Declares(f, ref)
  PROVE  Around(f, ref) = Around(Parent[f], ref)
<1> DEFINE here == {t \in Enclosing(f) : Declares(t, ref)}
           out  == {t \in Enclosing(Parent[f]) : Declares(t, ref)}
<1>1. here = out
  BY EnclosingSteps
<1>2. /\ Around(f, ref) = IF here = {} THEN None ELSE Entry(Innermost(here), FuncVar(ref.kind, ref.id))
      /\ Around(Parent[f], ref)
           = IF out = {} THEN None ELSE Entry(Innermost(out), FuncVar(ref.kind, ref.id))
  BY DEF Around
<1> HIDE DEF here, out
<1> QED BY <1>1, <1>2

(* The two kinds of use.                                                   *)
LEMMA UseFacts ==
  ASSUME prog \in Programs, NEW f \in Funs, NEW u \in Uses(f)
  PROVE  /\ u[1] \in {"init", "stmt"}
         /\ u[1] = "init" => /\ u[2] \in DOMAIN fun(f).decs
                             /\ fun(f).decs[u[2]].init \in Refs
         /\ u[1] = "stmt" => /\ u[2] \in DOMAIN fun(f).stmts
                             /\ fun(f).stmts[u[2]].ref \in Refs
                             /\ fun(f).stmts[u[2]].loops \in Seq(Names)
<1>1. CASE u \in {"init"} \X {i \in DOMAIN fun(f).decs : fun(f).decs[i].init # None}
  <2>1. u[1] = "init" /\ u[2] \in DOMAIN fun(f).decs /\ fun(f).decs[u[2]].init # None
    BY <1>1
  <2>2. fun(f).decs[u[2]] \in [id : Names, init : Refs \cup {None}]
    <3>1. fun(f).decs \in Seq([id : Names, init : Refs \cup {None}])
      BY ProgramFacts
    <3>2. \A i \in DOMAIN fun(f).decs : fun(f).decs[i] \in [id : Names, init : Refs \cup {None}]
      BY <3>1, Elements, ZenonT(30)
    <3> QED BY <2>1, <3>2
  <2> QED BY <2>1, <2>2
<1>2. CASE u \in {"stmt"} \X (DOMAIN fun(f).stmts)
  <2>1. u[1] = "stmt" /\ u[2] \in DOMAIN fun(f).stmts
    BY <1>2
  <2>2. fun(f).stmts[u[2]] \in [loops : Seq(Names), ref : Refs]
    <3>1. fun(f).stmts \in Seq([loops : Seq(Names), ref : Refs])
      BY ProgramFacts
    <3>2. \A i \in DOMAIN fun(f).stmts : fun(f).stmts[i] \in [loops : Seq(Names), ref : Refs]
      BY <3>1, Elements
    <3> QED BY <2>1, <3>2
  <2> QED BY <2>1, <2>2
<1> QED BY <1>1, <1>2 DEF Uses

LEMMA InitIsBound ==
  ASSUME prog \in Programs, NEW f \in Funs, NEW u \in Uses(f), u[1] = "init"
  PROVE  /\ ~ CallBesideDec(f, u) => Bound(f, u) = Meaning(f, u)
         /\ \/ Bound(f, u) = Meaning(f, u)
            \/ Bound(f, u) = Around(Parent[f], fun(f).decs[u[2]].init)
<1> DEFINE ref == fun(f).decs[u[2]].init
<1>1. ref \in Refs /\ ref.kind \in {"var", "func"} /\ f \in Scopes /\ Parent[f] \in Scopes
  BY UseFacts, ProgramFacts, ParentFacts DEF Refs
<1>2. PrimaryName(f, u) = FuncVar(ref.kind, ref.id)
  BY DEF PrimaryName
<1>3. /\ Found(f, FuncVar(ref.kind, ref.id)) = Around(f, ref)
      /\ Found(Parent[f], FuncVar(ref.kind, ref.id)) = Around(Parent[f], ref)
  <2> HIDE DEF ref
  <2> QED BY <1>1, FoundIsAround
<1>4. CASE ref.id \in Seen(f, u[2])
  <2>1. LookupFrom(f, u) = f
    BY <1>4 DEF LookupFrom
  <2>2. Meaning(f, u) = Around(f, ref)
    BY <1>4 DEF Meaning
  <2> QED BY <1>2, <1>3, <2>1, <2>2 DEF Bound
<1>5. CASE ref.id \notin Seen(f, u[2])
  <2>1. LookupFrom(f, u) = Parent[f]
    BY <1>5 DEF LookupFrom
  <2>2. Bound(f, u) = Around(Parent[f], ref)
    BY <1>2, <1>3, <2>1 DEF Bound
  <2>3. CASE ref.kind = "var"
    BY <1>5, <2>2, <2>3 DEF Meaning
  <2>4. CASE ref.kind = "func"
    <3>1. Meaning(f, u) = Around(f, ref)
      BY <2>4 DEF Meaning
    <3>2. ~ CallBesideDec(f, u) => ~ Declares(f, ref)
      BY <2>4 DEF CallBesideDec, Declares
    <3>3. ~ Declares(f, ref) => Around(f, ref) = Around(Parent[f], ref)
      BY AroundFromInside
    <3> QED BY <2>2, <3>1, <3>2, <3>3
  <2> QED BY <1>1, <2>3, <2>4
<1> QED BY <1>4, <1>5

LEMMA StmtIsBound ==
  ASSUME prog \in Programs, NEW f \in Funs, NEW u \in Uses(f), u[1] = "stmt"
  PROVE  /\ ~ CallLikeCounter(f, u) => Bound(f, u) = Meaning(f, u)
         /\ CallLikeCounter(f, u) => Bound(f, u) = None
<1> DEFINE k == u[2]
           st == fun(f).stmts[k]
           ref == st.ref
           depth == Len(st.loops)
           around == LoopsNamed(f, k, depth, ref.id)
<1>1. /\ k \in DOMAIN fun(f).stmts /\ ref \in Refs /\ ref.kind \in {"var", "func"}
      /\ st.loops \in Seq(Names) /\ f \in Scopes
  BY UseFacts, ProgramFacts DEF Refs
<1>2. /\ depth \in 0 .. depth /\ DOMAIN st.loops = 1 .. depth
      /\ around = {j \in DOMAIN st.loops : st.loops[j] = ref.id}
  BY <1>1, Elements DEF LoopsNamed
<1>3. /\ around = {} => PrimaryName(f, u) = FuncVar(ref.kind, ref.id)
      /\ around # {} => /\ MaxOf(around) \in around
                        /\ PrimaryName(f, u)
                             = [FuncVar(ref.kind, ref.id) EXCEPT !.loop = <<f, k, MaxOf(around)>>]
  <2>1. PrimaryName(f, u) = ForLoopName(f, k, depth, FuncVar(ref.kind, ref.id))
    BY DEF PrimaryName
  <2>2. depth \in 0 .. Len(fun(f).stmts[k].loops)
    BY <1>2
  <2> HIDE DEF ref, k, depth
  <2> QED BY <1>1, <2>1, <2>2, ForLoopNames
<1>4. LookupFrom(f, u) = f
  BY DEF LookupFrom
<1>5. CallLikeCounter(f, u) <=> ref.kind = "func" /\ around # {}
  BY <1>2 DEF CallLikeCounter
<1>6. CASE around = {}
  <2>1. Meaning(f, u) = Around(f, ref)
    BY <1>2, <1>6 DEF Meaning
  <2>2. Found(f, FuncVar(ref.kind, ref.id)) = Around(f, ref)
    <3> HIDE DEF ref
    <3> QED BY <1>1, FoundIsAround
  <2> QED BY <1>3, <1>4, <1>5, <1>6, <2>1, <2>2 DEF Bound
<1>7. CASE around # {} /\ ref.kind = "var"
  <2> DEFINE d == MaxOf(around)
             key == Counter(f, <<k, d>>)
  <2>1. d \in around /\ st.loops[d] = ref.id /\ d \in 1 .. depth
    BY <1>2, <1>3, <1>7
  <2>2. PrimaryName(f, u) = key
    <3>1. key.kind = "var" /\ key.id = ref.id /\ key.loop = <<f, k, d>>
      BY <2>1 DEF Counter
    <3> QED BY <1>3, <1>7, <2>1 DEF Counter, FuncVar
  <2>3. Meaning(f, u) = Entry(f, key)
    <3>1. Meaning(f, u) = Entry(f, [FuncVar("var", ref.id) EXCEPT !.loop = <<f, k, d>>])
      BY <1>2, <1>7 DEF Meaning, LoopNumber
    <3>2. key = [FuncVar("var", ref.id) EXCEPT !.loop = <<f, k, d>>]
      <4> HIDE DEF d, ref
      <4> QED BY <2>1 DEF Counter, FuncVar
    <3> QED BY <3>1, <3>2
  <2>4. key \in LoopKeys(f)
    <3>1. <<k, d>> \in {k} \X (1 .. Len(fun(f).stmts[k].loops))
      <4> HIDE DEF d
      <4> QED BY <2>1
    <3>2. <<k, d>> \in LoopPlaces(f)
      <4> HIDE DEF k, d
      <4> QED BY <1>1, <3>1 DEF LoopPlaces
    <3> QED BY <3>2, LoopKeysFacts
  <2>5. key \in KeysOf(f) /\ key.loop # None /\ key.loop[1] = f
    BY <1>1, <2>4, KeysFacts, LoopKeysFacts
  <2>6. \A t \in Enclosing(f) : key \in KeysOf(t) => t = f
    <3> SUFFICES ASSUME NEW t \in Enclosing(f), key \in KeysOf(t) PROVE t = f
      OBVIOUS
    <3>1. t \in Scopes
      BY <1>1, EnclosingSteps
    <3>2. t \in Funs /\ key \in LoopKeys(t)
      BY <2>5, <3>1, KeysFacts
    <3> QED BY <2>5, <3>2, LoopKeysFacts
  <2>7. f \in Enclosing(f)
    BY <1>1, EnclosingSteps
  <2> HIDE DEF key
  <2>8. Found(f, key) = Entry(f, key)
    BY <1>1, <2>5, <2>6, <2>7, FoundFacts
  <2> QED BY <1>4, <1>5, <1>7, <2>2, <2>3, <2>8 DEF Bound
<1>8. CASE around # {} /\ ref.kind = "func"
  <2> DEFINE key == PrimaryName(f, u)
             d == MaxOf(around)
  <2>1. key.kind = "func" /\ key.loop = <<f, k, d>>
    BY <1>3, <1>8 DEF FuncVar
  <2>2. key.loop # None
    <3>1. d \in Nat /\ k \in Nat
      <4>1. fun(f).stmts \in Seq([loops : Seq(Names), ref : Refs])
        BY ProgramFacts
      <4>2. k \in Nat
        <5> HIDE DEF k
        <5> QED BY <1>1, <4>1, Elements
      <4>3. d \in 1 .. depth /\ depth \in Nat
        <5>1. d \in DOMAIN st.loops
          BY <1>2, <1>3, <1>8
        <5> HIDE DEF d
        <5> QED BY <1>1, <1>2, <5>1
      <4>4. d \in Nat
        <5> HIDE DEF d, depth
        <5> QED BY <4>3
      <4> QED BY <4>2, <4>4
    <3>2. key.loop \in Funs \X Nat \X Nat
      BY <2>1, <3>1
    <3> QED BY <3>2, ScopesAssumption
  <2>3. \A t \in Enclosing(f) : key \notin KeysOf(t)
    <3> SUFFICES ASSUME NEW t \in Enclosing(f), key \in KeysOf(t) PROVE FALSE
      OBVIOUS
    <3>1. t \in Scopes
      BY <1>1, EnclosingSteps
    <3>2. t \in Funs /\ key \in LoopKeys(t)
      BY <2>2, <3>1, KeysFacts
    <3> QED BY <2>1, <3>2, LoopKeysFacts
  <2> HIDE DEF key
  <2>4. Found(f, key) = None
    BY <1>1, <2>3, FoundFacts
  <2> QED BY <1>4, <1>5, <1>8, <2>4 DEF Bound, key
<1> QED BY <1>1, <1>6, <1>7, <1>8

(***************************************************************************)
(* The visits to come.                                                     *)
(***************************************************************************)
Visits == {"header", "body", "loops"}
Tasks  == ({"program"} \X {Top}) \cup (Visits \X Funs)

(* The visit w of function g is still to be made when the task is done.    *)
Owes(task, w, g) ==
  \/ task[1] = "program"
  \/ task[1] = "header" /\ task[2] \in Enclosing(g)
  \/ task[1] = "body" /\ task[2] \in Enclosing(g) /\ (g # task[2] \/ w # "header")
  \/ task[1] = "loops" /\ g = task[2] /\ w = "loops"

OwedBy(tasks, w, g) == \E i \in DOMAIN tasks : Owes(tasks[i], w, g)
Owed(w, g) == OwedBy(agenda, w, g)

(* The header's loop is past this place.                                   *)
Passed(g, place) ==
  \/ ~ Owed("header", g)
  \/ agenda # <<>> /\ agenda[1] = <<"header", g>> /\ place[1] < param

Started == agenda = <<>> \/ agenda[1][1] # "program"

(* No visit is made twice.                                                 *)
Apart(tasks) ==
  \A w \in Visits, g \in Funs : \A i, j \in DOMAIN tasks :
    Owes(tasks[i], w, g) /\ Owes(tasks[j], w, g) => i = j

Schedule ==
  /\ agenda \in Seq(Tasks)
  /\ \A i \in DOMAIN agenda : agenda[i][1] = "program" => i = 1
  /\ Apart(agenda)
  /\ param \in Nat \ {0}
  /\ agenda = <<>> \/ agenda[1][1] # "header" => param = 1

(* No table has a key without a reason.                                    *)
Tables ==
  /\ table = [s \in Scopes |-> table[s]]
  /\ \A s \in Scopes : \A k \in DOMAIN table[s] : k \in KeysOf(s) /\ table[s][k] = Entry(s, k)
  /\ \A s \in Scopes, n \in Names : FuncVar("func", n) \in DOMAIN table[s] =>
       \E g \in Funs : Parent[g] = s /\ fun(g).id = n /\ ~ Owed("header", g)
  /\ \A g \in Funs : Owed("loops", g) => DOMAIN table[g] \cap LoopKeys(g) = {}
  /\ \A g \in Funs : Owed("body", g) =>
       \A k \in DOMAIN table[g] :
         \E place \in HeaderPlaces(g) : Passed(g, place) /\ k = FuncVar("var", NameAt(g, place))
  /\ ~ Started => DOMAIN table[Top] = {}

(* As long as there is no error, every key visited is there, once.         *)
FilledHeaders ==
  \A g \in Funs :
    /\ \A place \in HeaderPlaces(g) : Passed(g, place) => FuncVar("var", NameAt(g, place)) \in DOMAIN table[g]
    /\ \A p, q \in HeaderPlaces(g) :
         Passed(g, p) /\ Passed(g, q) /\ NameAt(g, p) = NameAt(g, q) => p = q
FilledFuns ==
  /\ \A g \in Funs : ~ Owed("header", g) => FuncVar("func", fun(g).id) \in DOMAIN table[Parent[g]]
  /\ \A g, h \in Funs : /\ ~ Owed("header", g) /\ ~ Owed("header", h)
                        /\ Parent[g] = Parent[h] /\ fun(g).id = fun(h).id
                        => g = h
FilledBodies ==
  \A g \in Funs : ~ Owed("body", g) =>
    /\ \A i \in DOMAIN fun(g).decs : /\ FuncVar("var", fun(g).decs[i].id) \in DOMAIN table[g]
                                     /\ fun(g).decs[i].id \notin ParamNames(g)
    /\ ~ Repeats(DecIds(g))
FilledLoops == \A g \in Funs : ~ Owed("loops", g) => LoopKeys(g) \subseteq DOMAIN table[g]
FilledGlobals ==
  Started => /\ \A i \in DOMAIN prog.globals : FuncVar("var", prog.globals[i]) \in DOMAIN table[Top]
             /\ ~ Repeats(prog.globals)

Filled ==
  ~ error => FilledHeaders /\ FilledFuns /\ FilledBodies /\ FilledLoops /\ FilledGlobals

Filling == pass = "InitSymtables" => /\ Schedule /\ Tables /\ Filled
                                     /\ error => Redeclares

(* What the later passes have done.                                        *)
Listed(f) == \E i \in DOMAIN agenda : agenda[i][2] \in Enclosing(f)

Complete ==
  pass = "SymtableMangling" =>
    /\ \A s \in Scopes : /\ DOMAIN table[s] = KeysOf(s)
                         /\ \A k \in KeysOf(s) : table[s][k] = Entry(s, k)
    /\ DOMAIN name = AllUses
    /\ \A v \in AllUses : Listed(v[1]) \/ name[v] = Mangled(PrimaryName(v[1], v[2]), Bound(v[1], v[2]))
    /\ agenda \in Seq({"ids"} \X Funs)
    /\ ~ error

Rekeyed ==
  pass \in {"CheckIdentifiers", "accepted"} =>
    /\ \A s \in Scopes : /\ DOMAIN table[s] = {Mangled(k, Entry(s, k)) : k \in KeysOf(s)}
                         /\ \A m \in DOMAIN table[s] : table[s][m] = m.entry
    /\ \A v \in AllUses : name[v] = Mangled(PrimaryName(v[1], v[2]), Bound(v[1], v[2]))

Checked ==
  /\ pass = "CheckIdentifiers" =>
       /\ ~ error => \A v \in AllUses : Listed(v[1]) \/ Bound(v[1], v[2]) # None
       /\ error => \E v \in AllUses : Bound(v[1], v[2]) = None
       /\ agenda \in Seq({"check"} \X Funs)
  /\ pass = "accepted" => \A v \in AllUses : Bound(v[1], v[2]) # None

Outcome ==
  /\ prog \in Programs
  /\ pass \in {"SymtableMangling", "CheckIdentifiers", "accepted"} => ~ Redeclares
  /\ pass = "assertion failed" => HeadersRepeat
  /\ pass = "rejected" => Redeclares \/ \E v \in AllUses : Bound(v[1], v[2]) = None
  /\ pass \in {"InitSymtables", "SymtableMangling"} => name = [v \in AllUses |-> name[v]]

(***************************************************************************)
(* The program stays as it is.                                             *)
(***************************************************************************)
LEMMA FixedTree ==
  ASSUME prog' = prog
  PROVE  /\ Children' = Children /\ Parent' = Parent
         /\ \A s : Enclosing(s)' = Enclosing(s)
         /\ \A f : fun(f)' = fun(f)
         /\ \A task, w, g : Owes(task, w, g)' = Owes(task, w, g)
         /\ \A tasks, w, g : OwedBy(tasks, w, g)' = OwedBy(tasks, w, g)
         /\ \A tasks : Apart(tasks)' = Apart(tasks)
<1>1. Children' = Children /\ Parent' = Parent
  BY DEF Children, Parent
<1>2. \A s : Enclosing(s)' = Enclosing(s)
  BY <1>1 DEF Enclosing
<1>3. \A f : fun(f)' = fun(f)
  BY DEF fun
<1>4. \A task, w, g : Owes(task, w, g)' = Owes(task, w, g)
  BY <1>2 DEF Owes
<1>5. \A tasks, w, g : OwedBy(tasks, w, g)' = OwedBy(tasks, w, g)
  BY <1>4 DEF OwedBy
<1>6. \A tasks : Apart(tasks)' = Apart(tasks)
  BY <1>4 DEF Apart
<1> QED BY <1>1, <1>2, <1>3, <1>4, <1>5, <1>6

LEMMA FixedNames ==
  ASSUME prog' = prog
  PROVE  /\ \A f : HeaderPlaces(f)' = HeaderPlaces(f)
         /\ \A f, place : NameAt(f, place)' = NameAt(f, place)
         /\ \A f : ParamNames(f)' = ParamNames(f)
         /\ \A f : RepeatsInHeader(f)' = RepeatsInHeader(f)
         /\ \A f : DecIds(f)' = DecIds(f)
         /\ \A s : FunIds(s)' = FunIds(s)
         /\ \A s : VarsOf(s)' = VarsOf(s) /\ FunsOf(s)' = FunsOf(s)
         /\ \A f : LoopKeys(f)' = LoopKeys(f)
         /\ \A s : KeysOf(s)' = KeysOf(s)
<1>1. /\ Children' = Children /\ \A f : fun(f)' = fun(f)
  BY FixedTree
<1>2. \A f : HeaderPlaces(f)' = HeaderPlaces(f)
  BY <1>1 DEF HeaderPlaces
<1>3. \A f, place : NameAt(f, place)' = NameAt(f, place)
  BY <1>1 DEF NameAt
<1>4. \A f : ParamNames(f)' = ParamNames(f)
  BY <1>2, <1>3 DEF ParamNames
<1>5. \A f : RepeatsInHeader(f)' = RepeatsInHeader(f)
  BY <1>2, <1>3 DEF RepeatsInHeader
<1>6. \A f : DecIds(f)' = DecIds(f)
  BY <1>1 DEF DecIds
<1>7. \A s : FunIds(s)' = FunIds(s)
  BY <1>1 DEF FunIds
<1>8. \A s : VarsOf(s)' = VarsOf(s) /\ FunsOf(s)' = FunsOf(s)
  BY <1>1, <1>4 DEF VarsOf, FunsOf
<1>9. \A f : LoopKeys(f)' = LoopKeys(f)
  <2>1. \A f : LoopPlaces(f)' = LoopPlaces(f)
    BY <1>1 DEF LoopPlaces
  <2>2. \A f, k, d : CounterName(f, k, d)' = CounterName(f, k, d)
    <3> SUFFICES ASSUME NEW f, NEW k, NEW d PROVE CounterName(f, k, d)' = CounterName(f, k, d)
      OBVIOUS
    <3>1. fun(f)' = fun(f)
      BY <1>1
    <3> QED BY <3>1 DEF CounterName, ForLoopName
  <2> QED BY <2>1, <2>2 DEF LoopKeys
<1>10. \A s : KeysOf(s)' = KeysOf(s)
  BY <1>8, <1>9 DEF KeysOf
<1> QED BY <1>2, <1>3, <1>4, <1>5, <1>6, <1>7, <1>8, <1>9, <1>10

LEMMA FixedUses ==
  ASSUME prog' = prog
  PROVE  /\ AllUses' = AllUses
         /\ \A f, u : PrimaryName(f, u)' = PrimaryName(f, u)
         /\ \A f, u : LookupFrom(f, u)' = LookupFrom(f, u)
         /\ \A f, u : Bound(f, u)' = Bound(f, u)
         /\ Redeclares' = Redeclares /\ HeadersRepeat' = HeadersRepeat
<1>1. /\ Children' = Children /\ Parent' = Parent /\ \A f : fun(f)' = fun(f)
      /\ \A s : Enclosing(s)' = Enclosing(s)
  BY FixedTree
<1>2. /\ \A f : ParamNames(f)' = ParamNames(f)
      /\ \A f : RepeatsInHeader(f)' = RepeatsInHeader(f)
      /\ \A f : DecIds(f)' = DecIds(f)
      /\ \A s : FunIds(s)' = FunIds(s)
      /\ \A s : KeysOf(s)' = KeysOf(s)
  BY FixedNames
<1>3. AllUses' = AllUses
  <2>1. \A f : Uses(f)' = Uses(f)
    BY <1>1 DEF Uses
  <2> QED BY <2>1 DEF AllUses
<1>4. \A f, u : PrimaryName(f, u)' = PrimaryName(f, u)
  <2>1. \A f, k, depth, logical :
          ForLoopName(f, k, depth, logical)' = ForLoopName(f, k, depth, logical)
    BY <1>1 DEF ForLoopName
  <2> QED BY <1>1, <2>1 DEF PrimaryName
<1>5. \A f, u : LookupFrom(f, u)' = LookupFrom(f, u)
  BY <1>1, <1>2 DEF LookupFrom, Seen
<1>6. \A s, key : Found(s, key)' = Found(s, key)
  <2> SUFFICES ASSUME NEW s, NEW key PROVE Found(s, key)' = Found(s, key)
    OBVIOUS
  <2>1. {t \in Enclosing(s) : key \in KeysOf(t)}' = {t \in Enclosing(s) : key \in KeysOf(t)}
    BY <1>1, <1>2
  <2>2. \A S : Innermost(S)' = Innermost(S)
    BY <1>1 DEF Innermost
  <2> QED BY <2>1, <2>2 DEF Found
<1>7. \A f, u : Bound(f, u)' = Bound(f, u)
  BY <1>4, <1>5, <1>6 DEF Bound
<1>8. Redeclares' = Redeclares /\ HeadersRepeat' = HeadersRepeat
  BY <1>1, <1>2 DEF Redeclares, HeadersRepeat
<1> QED BY <1>3, <1>4, <1>5, <1>7, <1>8

(***************************************************************************)
(* The order of visits.                                                    *)
(***************************************************************************)
LEMMA ReplacedFirst ==
  ASSUME NEW S, NEW seq \in Seq(S), seq # <<>>, NEW tasks \in Seq(S)
  PROVE  /\ tasks \o Tail(seq) \in Seq(S)
         /\ 1 \in DOMAIN seq /\ Head(seq) = seq[1]
         /\ DOMAIN (tasks \o Tail(seq)) = 1 .. Len(tasks) + Len(seq) - 1
         /\ DOMAIN tasks = 1 .. Len(tasks) /\ Len(tasks) \in Nat
         /\ DOMAIN seq = 1 .. Len(seq) /\ Len(seq) \in Nat
         /\ \A i \in 1 .. Len(tasks) : (tasks \o Tail(seq))[i] = tasks[i]
         /\ \A i \in 2 .. Len(seq) : (tasks \o Tail(seq))[i + Len(tasks) - 1] = seq[i]
<1>1. Len(seq) \in Nat \ {0} /\ DOMAIN seq = 1 .. Len(seq) /\ Len(tasks) \in Nat
  BY EmptySeq
<1>2. /\ Tail(seq) \in Seq(S) /\ Len(Tail(seq)) = Len(seq) - 1 /\ Head(seq) = seq[1]
      /\ \A i \in 1 .. Len(Tail(seq)) : Tail(seq)[i] = seq[i + 1]
  BY <1>1, HeadTailProperties
<1>3. /\ tasks \o Tail(seq) \in Seq(S)
      /\ Len(tasks \o Tail(seq)) = Len(tasks) + Len(Tail(seq))
      /\ \A i \in 1 .. Len(tasks) + Len(Tail(seq)) :
           (tasks \o Tail(seq))[i] = IF i <= Len(tasks) THEN tasks[i] ELSE Tail(seq)[i - Len(tasks)]
  BY <1>2, ConcatProperties
<1>4. ASSUME NEW i \in 1 .. Len(tasks) PROVE (tasks \o Tail(seq))[i] = tasks[i]
  <2>1. i \in 1 .. Len(tasks) + Len(Tail(seq)) /\ i <= Len(tasks)
    BY <1>1, <1>2
  <2> QED BY <1>3, <2>1
<1>5. ASSUME NEW i \in 2 .. Len(seq) PROVE (tasks \o Tail(seq))[i + Len(tasks) - 1] = seq[i]
  <2> DEFINE n == i + Len(tasks) - 1
  <2>1. /\ n \in 1 .. Len(tasks) + Len(Tail(seq)) /\ ~ (n <= Len(tasks))
        /\ n - Len(tasks) = i - 1 /\ i - 1 \in 1 .. Len(Tail(seq)) /\ (i - 1) + 1 = i
    BY <1>1, <1>2
  <2>2. (tasks \o Tail(seq))[n] = Tail(seq)[n - Len(tasks)]
    <3> HIDE DEF n
    <3> QED BY <1>3, <2>1
  <2> QED BY <1>2, <2>1, <2>2
<1>6. DOMAIN (tasks \o Tail(seq)) = 1 .. Len(tasks) + Len(seq) - 1
  <2>1. Len(tasks \o Tail(seq)) = Len(tasks) + Len(seq) - 1
    BY <1>1, <1>2, <1>3
  <2> QED BY <1>3, <2>1
<1> QED BY <1>1, <1>2, <1>3, <1>4, <1>5, <1>6

(* The tasks owe nothing that the one task does not owe.                   *)
PartOf(tasks, task) ==
  \A w \in Visits, g \in Funs : OwedBy(tasks, w, g) => Owes(task, w, g)

Replaces(tasks, seq, next) == next = tasks \o Tail(seq)

(* The first task is replaced by tasks that owe part of its visits, each   *)
(* of them another part.                                                   *)
LEMMA Replaced ==
  ASSUME NEW seq \in Seq(Tasks), Apart(seq), seq # <<>>, NEW tasks \in Seq(Tasks), Apart(tasks),
         PartOf(tasks, seq[1]), NEW next, Replaces(tasks, seq, next)
  PROVE  /\ next \in Seq(Tasks) /\ Apart(next)
         /\ \A i \in DOMAIN next : \/ \E j \in DOMAIN tasks : next[i] = tasks[j]
                                   \/ \E j \in DOMAIN seq : j # 1 /\ next[i] = seq[j]
         /\ \A w \in Visits, g \in Funs :
              OwedBy(next, w, g) <=> OwedBy(tasks, w, g) \/ (OwedBy(seq, w, g) /\ ~ Owes(seq[1], w, g))
<1> DEFINE n == Len(tasks)
           m == Len(seq)
<1>1. /\ next \in Seq(Tasks) /\ n \in Nat /\ m \in Nat /\ 1 \in DOMAIN seq
      /\ DOMAIN next = 1 .. n + m - 1 /\ DOMAIN tasks = 1 .. n /\ DOMAIN seq = 1 .. m
      /\ \A i \in 1 .. n : next[i] = tasks[i]
      /\ \A i \in 2 .. m : next[i + n - 1] = seq[i]
  BY ReplacedFirst DEF Replaces
<1> HIDE DEF n, m
<1>2. \A i \in DOMAIN next :
         \/ i \in DOMAIN tasks /\ i <= n /\ next[i] = tasks[i]
         \/ /\ i > n /\ i - n + 1 \in DOMAIN seq /\ i - n + 1 # 1
            /\ next[i] = seq[i - n + 1]
  <2> SUFFICES ASSUME NEW i \in DOMAIN next, i \notin 1 .. n
               PROVE  /\ i > n /\ i - n + 1 \in DOMAIN seq /\ i - n + 1 # 1
                      /\ next[i] = seq[i - n + 1]
    BY <1>1
  <2>1. i > n /\ i - n + 1 \in 2 .. m
    BY <1>1
  <2>2. PICK k \in 2 .. m : k = i - n + 1
    BY <2>1
  <2>3. i = k + n - 1 /\ k # 1 /\ k \in DOMAIN seq
    BY <1>1, <2>2
  <2>4. next[i] = seq[k]
    BY <1>1, <2>3
  <2> QED BY <2>1, <2>2, <2>3, <2>4
<1>3. \A i \in DOMAIN tasks : i \in DOMAIN next /\ next[i] = tasks[i]
  BY <1>1
<1>4. \A i \in DOMAIN seq : i # 1 => i + n - 1 \in DOMAIN next /\ next[i + n - 1] = seq[i]
  BY <1>1
<1>5. ASSUME NEW i \in DOMAIN next, NEW j \in DOMAIN next, NEW w \in Visits, NEW g \in Funs,
             Owes(next[i], w, g), Owes(next[j], w, g)
      PROVE  i = j
  <2>1. CASE i \in DOMAIN tasks /\ i <= n /\ j \in DOMAIN tasks /\ j <= n
    BY <1>3, <1>5, <2>1 DEF Apart
  <2>2. ASSUME NEW a \in DOMAIN next, NEW b \in DOMAIN next, a <= n, b > n,
               Owes(next[a], w, g), Owes(next[b], w, g)
        PROVE  FALSE
    <3>1. a \in DOMAIN tasks /\ next[a] = tasks[a]
      BY <1>1, <1>2, <2>2
    <3>2. ~ (b <= n)
      BY <1>1, <2>2
    <3>3. /\ b - n + 1 \in DOMAIN seq /\ b - n + 1 # 1
          /\ next[b] = seq[b - n + 1]
      BY <1>2, <3>2
    <3>4. Owes(seq[1], w, g) /\ Owes(seq[b - n + 1], w, g)
      BY <2>2, <3>1, <3>3 DEF OwedBy, PartOf
    <3> QED BY <1>1, <3>3, <3>4 DEF Apart
  <2>3. CASE i > n /\ j > n
    <3>1. ASSUME NEW a \in DOMAIN next, a > n, Owes(next[a], w, g)
          PROVE  a - n + 1 \in DOMAIN seq /\ Owes(seq[a - n + 1], w, g)
      BY <1>1, <1>2, <3>1
    <3>2. PICK a \in DOMAIN seq : a = i - n + 1 /\ Owes(seq[a], w, g)
      BY <1>5, <2>3, <3>1
    <3>3. PICK b \in DOMAIN seq : b = j - n + 1 /\ Owes(seq[b], w, g)
      BY <1>5, <2>3, <3>1
    <3>4. a = b
      BY <3>2, <3>3 DEF Apart
    <3> QED BY <1>1, <3>2, <3>3, <3>4
  <2>4. (i <= n \/ i > n) /\ (j <= n \/ j > n)
    BY <1>1
  <2>5. (i <= n => i \in DOMAIN tasks) /\ (j <= n => j \in DOMAIN tasks)
    BY <1>1
  <2>6. ~ (i <= n /\ j > n) /\ ~ (j <= n /\ i > n)
    BY <1>5, <2>2
  <2> QED BY <2>1, <2>3, <2>4, <2>5, <2>6
<1>6. Apart(next)
  <2>1. \A w \in Visits, g \in Funs : \A i, j \in DOMAIN next :
          Owes(next[i], w, g) /\ Owes(next[j], w, g) => i = j
    BY <1>5
  <2> QED BY <2>1 DEF Apart
<1>7. ASSUME NEW w \in Visits, NEW g \in Funs
      PROVE  OwedBy(next, w, g)
               <=> OwedBy(tasks, w, g) \/ (OwedBy(seq, w, g) /\ ~ Owes(seq[1], w, g))
  <2>1. ASSUME NEW i \in DOMAIN next, Owes(next[i], w, g)
        PROVE  OwedBy(tasks, w, g) \/ (OwedBy(seq, w, g) /\ ~ Owes(seq[1], w, g))
    BY <1>1, <1>2, <2>1 DEF OwedBy, Apart
  <2>2. ASSUME NEW i \in DOMAIN tasks, Owes(tasks[i], w, g)
        PROVE  OwedBy(next, w, g)
    BY <1>3, <2>2 DEF OwedBy
  <2>3. ASSUME OwedBy(seq, w, g), ~ Owes(seq[1], w, g)
        PROVE  OwedBy(next, w, g)
    <3>1. PICK i \in DOMAIN seq : Owes(seq[i], w, g)
      BY <2>3 DEF OwedBy
    <3> QED BY <1>4, <2>3, <3>1 DEF OwedBy
  <2> QED BY <2>1, <2>2, <2>3 DEF OwedBy
<1> QED BY <1>1, <1>2, <1>6, <1>7

(* A visit to come has the later ones of the same function behind it.      *)
LEMMA OwedInOrder ==
  ASSUME NEW g \in Funs
  PROVE  /\ Owed("header", g) => Owed("body", g)
         /\ Owed("body", g) => Owed("loops", g)
<1>1. ASSUME NEW task
      PROVE  /\ Owes(task, "header", g) => Owes(task, "body", g)
             /\ Owes(task, "body", g) => Owes(task, "loops", g)
  BY DEF Owes
<1> QED BY <1>1 DEF Owed, OwedBy

(* The visit that is made is owed by the first task only.                  *)
LEMMA FirstOwes ==
  ASSUME Apart(agenda), agenda # <<>>, agenda \in Seq(Tasks), NEW w \in Visits, NEW g \in Funs,
         Owes(agenda[1], w, g)
  PROVE  Owed(w, g) /\ \A i \in DOMAIN agenda : Owes(agenda[i], w, g) => i = 1
<1>1. 1 \in DOMAIN agenda
  BY EmptySeq
<1> QED BY <1>1 DEF Apart, Owed, OwedBy

(* The first task, by its kind.                                            *)
LEMMA FirstTask ==
  ASSUME prog \in Programs, agenda \in Seq(Tasks), agenda # <<>>
  PROVE  /\ Head(agenda) = agenda[1] /\ agenda[1] \in Tasks /\ 1 \in DOMAIN agenda
         /\ Visit("program") => agenda[1] = <<"program", Top>>
         /\ \A w \in Visits : Visit(w) => Here \in Funs /\ agenda[1] = <<w, Here>>
<1>1. Head(agenda) = agenda[1] /\ 1 \in DOMAIN agenda
  BY EmptySeq
<1>2. agenda[1] \in Tasks
  BY <1>1, Elements
<1>3. \A w \in Visits : w # "program"
  BY DEF Visits
<1> QED BY <1>1, <1>2, <1>3 DEF Tasks, Visit, Here

(* The headers of the functions in a scope.                                *)
LEMMA EachFacts ==
  ASSUME prog \in Programs, NEW s \in Scopes
  PROVE  /\ Each("header", s) \in Seq(Tasks) /\ Apart(Each("header", s))
         /\ \A i \in DOMAIN Each("header", s) : Each("header", s)[i][1] = "header"
         /\ \A g \in Funs : \A w \in Visits :
              OwedBy(Each("header", s), w, g) <=> g # s /\ s \in Enclosing(g)
<1> DEFINE each == Each("header", s)
<1>1. /\ Children[s] \in Seq(Funs) /\ \A i \in DOMAIN Children[s] : Children[s][i] \in Funs
      /\ \A i, j \in DOMAIN Children[s] : Children[s][i] = Children[s][j] => i = j
      /\ Top \notin Funs /\ Scopes = Funs \cup {Top}
  BY ProgramFacts DEF Tree
<1>2. /\ DOMAIN each = DOMAIN Children[s]
      /\ \A i \in DOMAIN Children[s] : each[i] = <<"header", Children[s][i]>>
  BY DEF Each
<1>3. each \in Seq(Tasks)
  <2>1. \A i \in DOMAIN Children[s] : <<"header", Children[s][i]>> \in Tasks
    BY <1>1 DEF Tasks, Visits
  <2>2. /\ DOMAIN Children[s] = 1 .. Len(Children[s]) /\ Len(Children[s]) \in Nat
    BY <1>1, Elements
  <2> QED BY <2>1, <2>2 DEF Each
<1> HIDE DEF each
<1>4. \A i \in DOMAIN each : \A w \in Visits : \A g \in Funs :
         Owes(each[i], w, g) <=> Children[s][i] \in Enclosing(g)
  <2> SUFFICES ASSUME NEW i \in DOMAIN each, NEW w \in Visits, NEW g \in Funs
               PROVE  Owes(each[i], w, g) <=> Children[s][i] \in Enclosing(g)
    OBVIOUS
  <2>1. each[i][1] = "header" /\ each[i][2] = Children[s][i]
    BY <1>2
  <2> QED BY <2>1 DEF Owes
<1>5. Apart(each)
  <2> SUFFICES ASSUME NEW w \in Visits, NEW g \in Funs, NEW i \in DOMAIN each, NEW j \in DOMAIN each,
                      Owes(each[i], w, g), Owes(each[j], w, g)
               PROVE  i = j
    BY DEF Apart
  <2>1. /\ Children[s][i] \in Enclosing(g) /\ Children[s][j] \in Enclosing(g)
        /\ Children[s][i] \in Funs /\ Children[s][j] \in Funs /\ g \in Scopes
    BY <1>1, <1>2, <1>4
  <2>2. Parent[Children[s][i]] = s /\ Parent[Children[s][j]] = s
    BY <1>2, ParentFacts
  <2>3. Children[s][i] = Children[s][j]
    BY <2>1, <2>2, SiblingsApart
  <2> QED BY <1>1, <1>2, <2>3
<1>6. ASSUME NEW g \in Funs, NEW w \in Visits
      PROVE  OwedBy(each, w, g) <=> g # s /\ s \in Enclosing(g)
  <2>1. ASSUME NEW i \in DOMAIN each, Owes(each[i], w, g) PROVE g # s /\ s \in Enclosing(g)
    <3>1. Children[s][i] \in Enclosing(g) /\ Children[s][i] \in Funs /\ g \in Scopes
      BY <1>1, <1>2, <1>4, <2>1
    <3>2. Parent[Children[s][i]] = s
      BY <1>2, ParentFacts
    <3>3. s \in Enclosing(g)
      BY <1>1, <3>1, <3>2, EnclosingSteps
    <3>4. g # s
      BY <3>1, <3>2, EnclosingOrder
    <3> QED BY <3>3, <3>4
  <2>2. ASSUME g # s, s \in Enclosing(g) PROVE \E i \in DOMAIN each : Owes(each[i], w, g)
    <3>1. PICK i \in DOMAIN Children[s] : Children[s][i] \in Enclosing(g)
      BY <2>2, ChildOnTheWay
    <3> QED BY <1>2, <1>4, <3>1
  <2> QED BY <2>1, <2>2 DEF OwedBy
<1>7. \A i \in DOMAIN each : each[i][1] = "header"
  BY <1>2
<1> QED BY <1>3, <1>5, <1>6, <1>7 DEF each

(* The agenda after a visit: what the visit owed is replaced by what its   *)
(* own tasks owe, and nothing else has changed.                            *)
LEMMA AfterVisit ==
  ASSUME prog \in Programs, prog' = prog, Schedule, agenda # <<>>, param' = 1,
         NEW tasks \in Seq(Tasks), Apart(tasks), PartOf(tasks, agenda[1]), Then(tasks),
         \A i \in DOMAIN tasks : tasks[i][1] # "program"
  PROVE  /\ Schedule' /\ Started'
         /\ \A w \in Visits, g \in Funs :
              Owed(w, g)' <=> OwedBy(tasks, w, g) \/ (Owed(w, g) /\ ~ Owes(agenda[1], w, g))
<1>1. /\ agenda \in Seq(Tasks) /\ Apart(agenda)
      /\ \A i \in DOMAIN agenda : agenda[i][1] = "program" => i = 1
  BY DEF Schedule
<1>2. PICK next : agenda' = next /\ next = tasks \o Tail(agenda)
  BY DEF Then
<1>3. Replaces(tasks, agenda, next) /\ agenda' = next
  BY <1>2 DEF Replaces
<1>4. /\ next \in Seq(Tasks) /\ Apart(next)
      /\ \A i \in DOMAIN next : \/ \E j \in DOMAIN tasks : next[i] = tasks[j]
                                \/ \E j \in DOMAIN agenda : j # 1 /\ next[i] = agenda[j]
      /\ \A w \in Visits, g \in Funs :
           OwedBy(next, w, g) <=> OwedBy(tasks, w, g) \/ (OwedBy(agenda, w, g) /\ ~ Owes(agenda[1], w, g))
  BY <1>1, <1>3, Replaced
<1>5. \A i \in DOMAIN next : next[i][1] # "program"
  BY <1>1, <1>4
<1>6. next = <<>> \/ 1 \in DOMAIN next
  BY <1>4, EmptySeq
<1>7. Apart(next)' /\ \A w, g : OwedBy(next, w, g)' = OwedBy(next, w, g)
  BY <1>4, FixedTree
<1>8. Schedule'
  BY <1>3, <1>4, <1>5, <1>7 DEF Schedule, Tasks
<1>9. Started'
  BY <1>3, <1>5, <1>6 DEF Started
<1>10. ASSUME NEW w \in Visits, NEW g \in Funs
       PROVE  Owed(w, g)' <=> OwedBy(tasks, w, g) \/ (Owed(w, g) /\ ~ Owes(agenda[1], w, g))
  <2>1. Owed(w, g)' <=> OwedBy(next, w, g)
    BY <1>3, <1>7 DEF Owed
  <2> QED BY <1>4, <2>1 DEF Owed
<1> QED BY <1>8, <1>9, <1>10

LEMMA AfterProgram ==
  ASSUME prog \in Programs, prog' = prog, Schedule, Visit("program"), Then(Each("header", Top)),
         param' = param
  PROVE  /\ Schedule' /\ Started' /\ ~ Started /\ param' = 1
         /\ \A w \in Visits, g \in Funs : Owed(w, g) /\ Owed(w, g)'
<1>1. /\ agenda \in Seq(Tasks) /\ agenda # <<>>
      /\ agenda = <<>> \/ agenda[1][1] # "header" => param = 1
  BY DEF Schedule, Visit
<1>2. agenda[1] = <<"program", Top>> /\ 1 \in DOMAIN agenda
  BY <1>1, FirstTask
<1>3. \A w, g : Owes(agenda[1], w, g)
  BY <1>2 DEF Owes
<1>4. PICK tasks : tasks = Each("header", Top)
  OBVIOUS
<1>5. /\ tasks \in Seq(Tasks) /\ Apart(tasks)
      /\ \A i \in DOMAIN tasks : tasks[i][1] = "header"
      /\ \A g \in Funs : \A w \in Visits : OwedBy(tasks, w, g)
  BY <1>4, EachFacts, ProgramFacts, EnclosingOrder
<1>6. param' = 1 /\ ~ Started
  BY <1>1, <1>2 DEF Started
<1>7. Then(tasks) /\ PartOf(tasks, agenda[1])
  BY <1>3, <1>4 DEF PartOf
<1>8. /\ Schedule' /\ Started'
      /\ \A w \in Visits, g \in Funs :
           Owed(w, g)' <=> OwedBy(tasks, w, g) \/ (Owed(w, g) /\ ~ Owes(agenda[1], w, g))
  BY <1>1, <1>5, <1>6, <1>7, AfterVisit
<1>9. \A w, g : Owed(w, g)
  BY <1>2, <1>3 DEF Owed, OwedBy
<1> QED BY <1>5, <1>6, <1>8, <1>9

(* The other visits: one is made, and all the others are owed as before.   *)
Made(w, f) ==
  /\ Schedule' /\ Started' /\ Started /\ param' = 1
  /\ Owed(w, f)
  /\ \A v \in Visits, g \in Funs : Owed(v, g)' <=> Owed(v, g) /\ ~ (v = w /\ g = f)

LEMMA Singleton ==
  ASSUME prog \in Programs, NEW task \in Tasks, task[1] # "program"
  PROVE  /\ <<task>> \in Seq(Tasks) /\ Apart(<<task>>)
         /\ \A i \in DOMAIN <<task>> : << task >>[i][1] # "program"
         /\ \A w \in Visits, g \in Funs : OwedBy(<<task>>, w, g) <=> Owes(task, w, g)
<1>1. <<task>> \in Seq(Tasks) /\ DOMAIN <<task>> = {1} /\ << task >>[1] = task
  OBVIOUS
<1> QED BY <1>1 DEF Apart, OwedBy

LEMMA AfterHeader ==
  ASSUME prog \in Programs, prog' = prog, Schedule, Visit("header"), Then(<<<<"body", Here>>>>),
         param' = 1
  PROVE  Here \in Funs /\ Made("header", Here)
<1>1. PICK f : f = Here
  OBVIOUS
<1>2. /\ agenda \in Seq(Tasks) /\ agenda # <<>> /\ Apart(agenda)
  BY DEF Schedule, Visit
<1>3. agenda[1] = <<"header", f>> /\ 1 \in DOMAIN agenda /\ f \in Funs
  BY <1>1, <1>2, FirstTask DEF Visits
<1>4. PICK tasks : tasks = <<<<"body", f>>>>
  OBVIOUS
<1>5. <<"body", f>> \in Tasks /\ <<"body", f>>[1] # "program"
  BY <1>3 DEF Tasks, Visits
<1>6. /\ tasks \in Seq(Tasks) /\ Apart(tasks)
      /\ \A i \in DOMAIN tasks : tasks[i][1] # "program"
      /\ \A w \in Visits, g \in Funs : OwedBy(tasks, w, g) <=> Owes(<<"body", f>>, w, g)
  BY <1>4, <1>5, Singleton
<1>7. /\ \A w \in Visits, g \in Funs : Owes(agenda[1], w, g) <=> f \in Enclosing(g)
      /\ \A w \in Visits, g \in Funs :
           Owes(<<"body", f>>, w, g) <=> f \in Enclosing(g) /\ ~ (w = "header" /\ g = f)
  BY <1>3 DEF Owes
<1>8. Then(tasks) /\ PartOf(tasks, agenda[1])
  BY <1>1, <1>4, <1>6, <1>7 DEF PartOf
<1>9. /\ Schedule' /\ Started'
      /\ \A w \in Visits, g \in Funs :
           Owed(w, g)' <=> OwedBy(tasks, w, g) \/ (Owed(w, g) /\ ~ Owes(agenda[1], w, g))
  BY <1>2, <1>6, <1>8, AfterVisit
<1>10. f \in Enclosing(f) /\ "header" \in Visits
  BY <1>3, ProgramFacts, EnclosingSteps DEF Visits
<1>11. \A w \in Visits, g \in Funs : f \in Enclosing(g) => Owed(w, g)
  BY <1>3, <1>7 DEF Owed, OwedBy
<1>12. Owed("header", f) /\ Started
  BY <1>3, <1>10, <1>11 DEF Started
<1>13. \A w \in Visits, g \in Funs : Owed(w, g)' <=> Owed(w, g) /\ ~ (w = "header" /\ g = f)
  BY <1>6, <1>7, <1>9, <1>10, <1>11
<1> QED BY <1>1, <1>3, <1>9, <1>12, <1>13 DEF Made
Extended(seq, task, tasks) == tasks = seq \o <<task>>

LEMMA Appended ==
  ASSUME NEW seq \in Seq(Tasks), Apart(seq), NEW task \in Tasks,
         \A w \in Visits, g \in Funs : ~ (OwedBy(seq, w, g) /\ Owes(task, w, g)),
         NEW tasks, Extended(seq, task, tasks)
  PROVE  /\ tasks \in Seq(Tasks) /\ Apart(tasks)
         /\ \A i \in DOMAIN tasks : tasks[i] = task \/ \E j \in DOMAIN seq : tasks[i] = seq[j]
         /\ \A w \in Visits, g \in Funs :
              OwedBy(tasks, w, g) <=> OwedBy(seq, w, g) \/ Owes(task, w, g)
<1> DEFINE n == Len(seq)
<1>1. /\ tasks \in Seq(Tasks) /\ n \in Nat /\ DOMAIN seq = 1 .. n
      /\ DOMAIN tasks = 1 .. n + 1
      /\ \A i \in 1 .. n : tasks[i] = seq[i]
      /\ tasks[n + 1] = task
  BY DEF Extended
<1> HIDE DEF n
<1>2. \A i \in DOMAIN tasks : (i \in DOMAIN seq /\ tasks[i] = seq[i]) \/ (i = n + 1 /\ tasks[i] = task)
  BY <1>1
<1>3. \A i \in DOMAIN seq : i \in DOMAIN tasks /\ tasks[i] = seq[i]
  BY <1>1
<1>4. n + 1 \in DOMAIN tasks
  BY <1>1
<1>5. Apart(tasks)
  BY <1>2 DEF Apart, OwedBy
<1>6. \A w \in Visits, g \in Funs :
         OwedBy(tasks, w, g) <=> OwedBy(seq, w, g) \/ Owes(task, w, g)
  BY <1>1, <1>2, <1>3, <1>4 DEF OwedBy
<1> QED BY <1>1, <1>2, <1>5, <1>6

LEMMA AfterBody ==
  ASSUME prog \in Programs, prog' = prog, Schedule, Visit("body"),
         Then(Each("header", Here) \o <<<<"loops", Here>>>>), param' = param
  PROVE  Here \in Funs /\ Made("body", Here) /\ ~ Owed("header", Here)
<1>1. PICK f : f = Here
  OBVIOUS
<1>2. /\ agenda \in Seq(Tasks) /\ agenda # <<>> /\ Apart(agenda)
      /\ agenda = <<>> \/ agenda[1][1] # "header" => param = 1
  BY DEF Schedule, Visit
<1>3. agenda[1] = <<"body", f>> /\ 1 \in DOMAIN agenda /\ f \in Funs
  BY <1>1, <1>2, FirstTask DEF Visits
<1>4. PICK each : each = Each("header", f)
  OBVIOUS
<1>5. PICK task : task = <<"loops", f>>
  OBVIOUS
<1>6. PICK tasks : tasks = each \o <<task>>
  OBVIOUS
<1>7. Extended(each, task, tasks)
  BY <1>6 DEF Extended
<1>8. /\ f \in Scopes /\ f \in Enclosing(f) /\ task \in Tasks
      /\ task[1] = "loops" /\ task[2] = f /\ param' = 1
  BY <1>2, <1>3, <1>5, ProgramFacts, EnclosingSteps DEF Tasks, Visits
<1>9. /\ each \in Seq(Tasks) /\ Apart(each)
      /\ \A i \in DOMAIN each : each[i][1] = "header"
      /\ \A g \in Funs : \A w \in Visits : OwedBy(each, w, g) <=> g # f /\ f \in Enclosing(g)
  BY <1>4, <1>8, EachFacts
<1>10. \A w \in Visits, g \in Funs : Owes(task, w, g) <=> g = f /\ w = "loops"
  BY <1>8 DEF Owes
<1>11. /\ tasks \in Seq(Tasks) /\ Apart(tasks)
       /\ \A i \in DOMAIN tasks : tasks[i] = task \/ \E j \in DOMAIN each : tasks[i] = each[j]
       /\ \A w \in Visits, g \in Funs :
            OwedBy(tasks, w, g) <=> OwedBy(each, w, g) \/ Owes(task, w, g)
  BY <1>8, <1>9, <1>10, <1>7, Appended
<1>12. \A i \in DOMAIN tasks : tasks[i][1] # "program"
  BY <1>8, <1>9, <1>11
<1>13. \A w \in Visits, g \in Funs :
          Owes(agenda[1], w, g) <=> f \in Enclosing(g) /\ (g # f \/ w # "header")
  BY <1>3 DEF Owes
<1>14. PartOf(tasks, agenda[1])
  BY <1>8, <1>9, <1>10, <1>11, <1>13 DEF PartOf
<1>15. Then(tasks)
  BY <1>1, <1>4, <1>5, <1>6
<1>16. /\ Schedule' /\ Started'
       /\ \A w \in Visits, g \in Funs :
            Owed(w, g)' <=> OwedBy(tasks, w, g) \/ (Owed(w, g) /\ ~ Owes(agenda[1], w, g))
  BY <1>2, <1>8, <1>11, <1>12, <1>14, <1>15, AfterVisit
<1>17. \A w \in Visits, g \in Funs : Owes(agenda[1], w, g) => Owed(w, g)
  BY <1>3 DEF Owed, OwedBy
<1>18. Started
  BY <1>3 DEF Started
<1>19. "header" \in Visits /\ "body" \in Visits /\ "loops" \in Visits
       /\ \A w \in Visits : w \in {"header", "body", "loops"}
  BY DEF Visits
<1>20. ~ Owed("header", f)
  <2> SUFFICES ASSUME NEW i \in DOMAIN agenda, Owes(agenda[i], "header", f) PROVE FALSE
    BY DEF Owed, OwedBy
  <2>1. Owes(agenda[i], "body", f)
    BY DEF Owes
  <2>2. Owes(agenda[1], "body", f) /\ ~ Owes(agenda[1], "header", f)
    BY <1>3, <1>8, <1>13, <1>19
  <2>3. i = 1
    BY <1>2, <1>3, <1>19, <2>1, <2>2 DEF Apart
  <2> QED BY <2>2, <2>3
<1>21. Owed("body", f)
  BY <1>3, <1>8, <1>13, <1>17, <1>19
<1>22. \A w \in Visits, g \in Funs : Owed(w, g)' <=> Owed(w, g) /\ ~ (w = "body" /\ g = f)
  BY <1>8, <1>9, <1>10, <1>11, <1>13, <1>16, <1>17, <1>19, <1>20
<1> QED BY <1>1, <1>3, <1>8, <1>16, <1>18, <1>20, <1>21, <1>22 DEF Made

LEMMA AfterLoops ==
  ASSUME prog \in Programs, prog' = prog, Schedule, Visit("loops"), Then(<<>>), param' = param
  PROVE  Here \in Funs /\ Made("loops", Here) /\ ~ Owed("header", Here) /\ ~ Owed("body", Here)
<1>1. PICK f : f = Here
  OBVIOUS
<1>2. /\ agenda \in Seq(Tasks) /\ agenda # <<>> /\ Apart(agenda)
      /\ agenda = <<>> \/ agenda[1][1] # "header" => param = 1
  BY DEF Schedule, Visit
<1>3. agenda[1] = <<"loops", f>> /\ 1 \in DOMAIN agenda /\ f \in Funs
  BY <1>1, <1>2, FirstTask DEF Visits
<1>4. agenda[1] = <<"loops", f>> /\ 1 \in DOMAIN agenda /\ f \in Funs /\ param' = 1 /\ Started
  BY <1>2, <1>3 DEF Started
<1>5. PICK tasks : tasks = <<>>
  OBVIOUS
<1>6. /\ tasks \in Seq(Tasks) /\ DOMAIN tasks = {} /\ Then(tasks)
  BY <1>5
<1>7. Apart(tasks) /\ PartOf(tasks, agenda[1]) /\ \A w, g : ~ OwedBy(tasks, w, g)
  BY <1>6 DEF Apart, PartOf, OwedBy
<1>8. \A w \in Visits, g \in Funs : Owes(agenda[1], w, g) <=> g = f /\ w = "loops"
  BY <1>4 DEF Owes
<1>9. /\ Schedule' /\ Started'
      /\ \A w \in Visits, g \in Funs :
           Owed(w, g)' <=> OwedBy(tasks, w, g) \/ (Owed(w, g) /\ ~ Owes(agenda[1], w, g))
  BY <1>2, <1>4, <1>6, <1>7, AfterVisit
<1>10. "loops" \in Visits
  BY DEF Visits
<1>11. Owed("loops", f)
  BY <1>4, <1>8, <1>10 DEF Owed, OwedBy
<1>12. ~ Owed("body", f) /\ ~ Owed("header", f)
  <2>1. ASSUME NEW i \in DOMAIN agenda, Owes(agenda[i], "body", f) \/ Owes(agenda[i], "header", f)
        PROVE  FALSE
    <3>1. Owes(agenda[i], "loops", f) /\ i # 1
      BY <1>4, <2>1 DEF Owes
    <3> QED BY <1>2, <1>4, <1>8, <1>10, <3>1 DEF Apart
  <2> QED BY <2>1 DEF Owed, OwedBy
<1>13. \A w \in Visits, g \in Funs : Owed(w, g)' <=> Owed(w, g) /\ ~ (w = "loops" /\ g = f)
  BY <1>7, <1>8, <1>9
<1> QED BY <1>1, <1>4, <1>9, <1>11, <1>12, <1>13 DEF Made

(* A function whose header is visited stands in a scope that has been      *)
(* entered.                                                                *)
LEMMA OutsideFirst ==
  ASSUME prog \in Programs, Schedule, NEW f \in Funs, agenda # <<>>, agenda[1] = <<"header", f>>,
         Parent[f] \in Funs
  PROVE  ~ Owed("header", Parent[f]) /\ ~ Owed("body", Parent[f])
<1>1. /\ agenda \in Seq(Tasks) /\ Apart(agenda)
      /\ \A i \in DOMAIN agenda : agenda[i][1] = "program" => i = 1
  BY DEF Schedule
<1>2. 1 \in DOMAIN agenda /\ "header" \in Visits
  BY <1>1, FirstTask DEF Visits
<1>3. /\ Parent[f] \in Scopes /\ f \notin Enclosing(Parent[f]) /\ f \in Enclosing(f)
      /\ Enclosing(f) = {f} \cup Enclosing(Parent[f])
  BY ProgramFacts, EnclosingSteps, EnclosingOrder
<1>4. ASSUME NEW i \in DOMAIN agenda,
             Owes(agenda[i], "header", Parent[f]) \/ Owes(agenda[i], "body", Parent[f])
      PROVE  FALSE
  <2>1. agenda[i][1] # "program"
    BY <1>1, <1>4
  <2>2. agenda[i][1] \in {"header", "body"} /\ agenda[i][2] \in Enclosing(Parent[f])
    BY <1>4, <2>1 DEF Owes
  <2>3. agenda[i][2] \in Enclosing(f) /\ agenda[i][2] # f
    BY <1>3, <2>2
  <2>4. Owes(agenda[i], "header", f)
    BY <2>2, <2>3 DEF Owes
  <2>5. Owes(agenda[1], "header", f)
    BY <1>3 DEF Owes
  <2>6. i = 1
    BY <1>1, <1>2, <2>4, <2>5 DEF Apart
  <2> QED BY <2>3, <2>6
<1> QED BY <1>4 DEF Owed, OwedBy
(* How far the headers are then.                                           *)
LEMMA PassedLater ==
  ASSUME prog \in Programs, prog' = prog, Schedule, NEW w \in Visits, NEW f \in Funs, Made(w, f),
         agenda # <<>>, agenda[1] = <<w, f>>,
         w = "header" => param \notin DOMAIN fun(f).params
  PROVE  /\ \A g \in Funs : \A place \in HeaderPlaces(g) : Passed(g, place)' <=> Passed(g, place)
         /\ w = "header" => \A place \in HeaderPlaces(f) : Passed(f, place)
<1>1. /\ param \in Nat \ {0} /\ param' = 1 /\ Owed(w, f) /\ w \in {"header", "body", "loops"}
      /\ \A v \in Visits, g \in Funs : Owed(v, g)' <=> Owed(v, g) /\ ~ (v = w /\ g = f)
      /\ "header" \in Visits
  BY DEF Schedule, Made, Visits
<1>2. ASSUME NEW g \in Funs, NEW place \in HeaderPlaces(g)
      PROVE  place[1] \in DOMAIN fun(g).params /\ place[1] \in Nat \ {0}
             /\ DOMAIN fun(g).params = 1 .. Len(fun(g).params) /\ Len(fun(g).params) \in Nat
  <2>1. PICK i \in DOMAIN fun(g).params : place \in {i} \X (0 .. Len(fun(g).params[i].dims))
    BY DEF HeaderPlaces
  <2>2. fun(g).params \in Seq([id : Names, dims : Seq(Names)])
    BY ProgramFacts
  <2>3. /\ DOMAIN fun(g).params = 1 .. Len(fun(g).params) /\ Len(fun(g).params) \in Nat
        /\ \A j \in DOMAIN fun(g).params : j \in Nat \ {0}
    BY <2>2, Elements
  <2> QED BY <2>1, <2>3
<1>3. ASSUME w = "header", NEW place \in HeaderPlaces(f) PROVE Passed(f, place)
  <2>1. place[1] < param
    BY <1>1, <1>2, <1>3
  <2> QED BY <1>3, <2>1 DEF Passed
<1>4. ASSUME NEW g \in Funs, NEW place \in HeaderPlaces(g)
      PROVE  Passed(g, place)' <=> Passed(g, place)
  <2>1. Passed(g, place)' <=> ~ Owed("header", g)'
    <3>1. ~ (place[1] < 1)
      BY <1>2
    <3> QED BY <1>1, <3>1 DEF Passed
  <2>2. CASE w = "header" /\ g = f
    BY <1>1, <1>3, <2>1, <2>2
  <2>3. CASE ~ (w = "header" /\ g = f)
    <3>1. agenda[1] # <<"header", g>>
      BY <2>3
    <3> QED BY <1>1, <2>1, <2>3, <3>1 DEF Passed
  <2> QED BY <2>2, <2>3
<1> QED BY <1>3, <1>4

(***************************************************************************)
(* The tables after an insertion.                                          *)
(***************************************************************************)
Grown(s, K) ==
  /\ table' = [t \in Scopes |-> table'[t]]
  /\ \A t \in Scopes : t # s => table'[t] = table[t]
  /\ DOMAIN table'[s] = DOMAIN table[s] \cup K
  /\ \A k \in DOMAIN table'[s] : table'[s][k] = Entry(s, k)

LEMMA Inserted ==
  ASSUME NEW s \in Scopes, NEW K, Tables, table' = [table EXCEPT ![s] = Entered(s, K, @)]
  PROVE  Grown(s, K)
<1>1. table = [t \in Scopes |-> table[t]] /\ \A k \in DOMAIN table[s] : table[s][k] = Entry(s, k)
  BY DEF Tables
<1>2. DOMAIN table = Scopes
  BY <1>1
<1>3. table'[s] = Entered(s, K, table[s]) /\ DOMAIN table' = Scopes
      /\ \A t \in Scopes : t # s => table'[t] = table[t]
  BY <1>2
<1>4. table' = [t \in Scopes |-> table'[t]]
  <2>1. table' = [t \in DOMAIN table |-> IF t = s THEN Entered(s, K, table[s]) ELSE table[t]]
    BY <1>2
  <2> QED BY <1>2, <2>1
<1>5. /\ DOMAIN Entered(s, K, table[s]) = DOMAIN table[s] \cup K
      /\ \A k \in DOMAIN table[s] \cup K :
           Entered(s, K, table[s])[k] = IF k \in DOMAIN table[s] THEN table[s][k] ELSE Entry(s, k)
  BY DEF Entered
<1> QED BY <1>1, <1>3, <1>4, <1>5 DEF Grown

(* The facts about the tables outlive an insertion of keys that have a     *)
(* reason.                                                                 *)
LEMMA TablesStay ==
  ASSUME prog \in Programs, prog' = prog, Tables, NEW s \in Scopes, NEW K, Grown(s, K),
         K \subseteq KeysOf(s), Started',
         \A g \in Funs : /\ Owed("header", g)' => Owed("header", g)
                         /\ Owed("body", g)' => Owed("body", g)
                         /\ Owed("loops", g)' => Owed("loops", g),
         \A g \in Funs : \A place \in HeaderPlaces(g) : Passed(g, place) => Passed(g, place)',
         \A n \in Names : FuncVar("func", n) \in K =>
            \E g \in Funs : Parent[g] = s /\ fun(g).id = n /\ ~ Owed("header", g)',
         s \in Funs /\ Owed("loops", s)' => K \cap LoopKeys(s) = {},
         s \in Funs /\ Owed("body", s)' =>
            \A k \in K : \E place \in HeaderPlaces(s) :
               Passed(s, place)' /\ k = FuncVar("var", NameAt(s, place))
  PROVE  Tables' /\ \A t \in Scopes : DOMAIN table[t] \subseteq DOMAIN table'[t]
<1>1. /\ table' = [t \in Scopes |-> table'[t]]
      /\ \A t \in Scopes : t # s => table'[t] = table[t]
      /\ DOMAIN table'[s] = DOMAIN table[s] \cup K
      /\ \A k \in DOMAIN table'[s] : table'[s][k] = Entry(s, k)
  BY DEF Grown
<1>2. /\ Parent' = Parent
      /\ \A f : fun(f)' = fun(f)
      /\ \A f : LoopKeys(f)' = LoopKeys(f)
      /\ \A t : KeysOf(t)' = KeysOf(t)
      /\ \A f : HeaderPlaces(f)' = HeaderPlaces(f)
      /\ \A f, place : NameAt(f, place)' = NameAt(f, place)
  BY FixedTree, FixedNames
<1>3. Funs \subseteq Scopes
  BY ProgramFacts
<1>4. \A t \in Scopes : \A k \in DOMAIN table'[t] : k \in KeysOf(t) /\ table'[t][k] = Entry(t, k)
  <2> SUFFICES ASSUME NEW t \in Scopes, NEW k \in DOMAIN table'[t]
               PROVE  k \in KeysOf(t) /\ table'[t][k] = Entry(t, k)
    OBVIOUS
  <2> QED BY <1>1 DEF Tables
<1>5. ASSUME NEW t \in Scopes, NEW n \in Names, FuncVar("func", n) \in DOMAIN table'[t]
      PROVE  \E g \in Funs : Parent[g] = t /\ fun(g).id = n /\ ~ Owed("header", g)'
  <2>1. CASE FuncVar("func", n) \in DOMAIN table[t]
    BY <2>1 DEF Tables
  <2>2. CASE FuncVar("func", n) \notin DOMAIN table[t]
    BY <1>1, <1>5, <2>2
  <2> QED BY <2>1, <2>2
<1>6. ASSUME NEW g \in Funs, Owed("loops", g)'
      PROVE  DOMAIN table'[g] \cap LoopKeys(g) = {}
  <2>1. DOMAIN table[g] \cap LoopKeys(g) = {}
    BY <1>6 DEF Tables
  <2> QED BY <1>1, <1>3, <1>6, <2>1
<1>7. ASSUME NEW g \in Funs, Owed("body", g)', NEW k \in DOMAIN table'[g]
      PROVE  \E place \in HeaderPlaces(g) : Passed(g, place)' /\ k = FuncVar("var", NameAt(g, place))
  <2>1. CASE k \in DOMAIN table[g]
    <3>1. PICK place \in HeaderPlaces(g) : Passed(g, place) /\ k = FuncVar("var", NameAt(g, place))
      BY <1>7, <2>1 DEF Tables
    <3> QED BY <3>1
  <2>2. CASE k \notin DOMAIN table[g]
    BY <1>1, <1>3, <1>7, <2>2
  <2> QED BY <2>1, <2>2
<1>8. Tables'
  BY <1>1, <1>2, <1>4, <1>5, <1>6, <1>7 DEF Tables, FuncVar, Entry
<1>9. \A t \in Scopes : DOMAIN table[t] \subseteq DOMAIN table'[t]
  BY <1>1
<1> QED BY <1>8, <1>9

(* What is there stays there.                                              *)
LEMMA FilledStays ==
  ASSUME prog \in Programs, prog' = prog,
         \A t \in Scopes : DOMAIN table[t] \subseteq DOMAIN table'[t]
  PROVE  /\ FilledHeaders /\ (\A g \in Funs : \A place \in HeaderPlaces(g) :
                                Passed(g, place)' => Passed(g, place)) => FilledHeaders'
         /\ FilledFuns /\ (\A g \in Funs : Owed("header", g) => Owed("header", g)') => FilledFuns'
         /\ FilledBodies /\ (\A g \in Funs : Owed("body", g) => Owed("body", g)') => FilledBodies'
         /\ FilledLoops /\ (\A g \in Funs : Owed("loops", g) => Owed("loops", g)') => FilledLoops'
         /\ FilledGlobals /\ Started => FilledGlobals'
<1>1. /\ Parent' = Parent
      /\ \A f : fun(f)' = fun(f)
      /\ \A f : LoopKeys(f)' = LoopKeys(f)
      /\ \A f : HeaderPlaces(f)' = HeaderPlaces(f)
      /\ \A f : ParamNames(f)' = ParamNames(f)
      /\ \A f, place : NameAt(f, place)' = NameAt(f, place)
      /\ \A f : DecIds(f)' = DecIds(f)
  BY FixedTree, FixedNames
<1>2. Funs \subseteq Scopes /\ Top \in Scopes /\ \A g \in Funs : Parent[g] \in Scopes
  BY ProgramFacts, ParentFacts
<1>3. FilledHeaders /\ (\A g \in Funs : \A place \in HeaderPlaces(g) :
                          Passed(g, place)' => Passed(g, place)) => FilledHeaders'
  BY <1>1, <1>2 DEF FilledHeaders, FuncVar
<1>4. FilledFuns /\ (\A g \in Funs : Owed("header", g) => Owed("header", g)') => FilledFuns'
  BY <1>1, <1>2 DEF FilledFuns, FuncVar
<1>5. FilledBodies /\ (\A g \in Funs : Owed("body", g) => Owed("body", g)') => FilledBodies'
  BY <1>1, <1>2 DEF FilledBodies, FuncVar
<1>6. FilledLoops /\ (\A g \in Funs : Owed("loops", g) => Owed("loops", g)') => FilledLoops'
  BY <1>1, <1>2 DEF FilledLoops
<1>7. FilledGlobals /\ Started => FilledGlobals'
  BY <1>1, <1>2 DEF FilledGlobals, FuncVar
<1> QED BY <1>3, <1>4, <1>5, <1>6, <1>7
(***************************************************************************)
(* The visits of InitSymtables, one by one.                                *)
(***************************************************************************)
LEMMA PlaceFacts ==
  ASSUME prog \in Programs, NEW f \in Funs
  PROVE  /\ DOMAIN fun(f).params = 1 .. Len(fun(f).params) /\ Len(fun(f).params) \in Nat
         /\ \A i \in DOMAIN fun(f).params : fun(f).params[i] \in [id : Names, dims : Seq(Names)]
         /\ \A place \in HeaderPlaces(f) :
              /\ place[1] \in DOMAIN fun(f).params /\ place[1] \in Nat \ {0}
              /\ place[2] \in 0 .. Len(fun(f).params[place[1]].dims)
              /\ place = <<place[1], place[2]>>
<1>1. fun(f).params \in Seq([id : Names, dims : Seq(Names)])
  BY ProgramFacts
<1>2. /\ DOMAIN fun(f).params = 1 .. Len(fun(f).params) /\ Len(fun(f).params) \in Nat
      /\ \A j \in DOMAIN fun(f).params : /\ j \in Nat \ {0}
                                         /\ fun(f).params[j] \in [id : Names, dims : Seq(Names)]
  BY <1>1, Elements
<1>3. ASSUME NEW place \in HeaderPlaces(f)
      PROVE  /\ place[1] \in DOMAIN fun(f).params /\ place[1] \in Nat \ {0}
             /\ place[2] \in 0 .. Len(fun(f).params[place[1]].dims)
             /\ place = <<place[1], place[2]>>
  <2>1. PICK i \in DOMAIN fun(f).params : place \in {i} \X (0 .. Len(fun(f).params[i].dims))
    BY DEF HeaderPlaces
  <2> QED BY <1>2, <2>1
<1> QED BY <1>2, <1>3

LEMMA ProgramStep ==
  ASSUME prog \in Programs, prog' = prog, Schedule, Tables, InitProgram
  PROVE  Schedule' /\ Tables' /\ Filled' /\ (error' => Redeclares)
<1>1. /\ Schedule' /\ Started' /\ ~ Started /\ param' = 1
      /\ \A w \in Visits, g \in Funs : Owed(w, g) /\ Owed(w, g)'
      /\ "header" \in Visits /\ "body" \in Visits /\ "loops" \in Visits
  BY AfterProgram DEF InitProgram, Visits
<1>2. PICK K : K = {FuncVar("var", prog.globals[i]) : i \in DOMAIN prog.globals}
  OBVIOUS
<1>3. /\ prog.globals \in Seq(Names) /\ Top \in Scopes /\ Top \notin Funs
      /\ DOMAIN prog.globals = 1 .. Len(prog.globals) /\ Len(prog.globals) \in Nat
  BY ProgramFacts, Elements
<1>4. /\ DOMAIN GlobalKeys = DOMAIN prog.globals
      /\ \A i \in DOMAIN prog.globals : /\ GlobalKeys[i].key = FuncVar("var", prog.globals[i])
                                        /\ GlobalKeys[i].checked = TRUE
  BY DEF GlobalKeys
<1>5. {GlobalKeys[i].key : i \in DOMAIN GlobalKeys} = K
  BY <1>2, <1>4
<1>6. Grown(Top, K)
  <2>1. table' = [table EXCEPT ![Top] = Entered(Top, K, @)]
    BY <1>5 DEF InitProgram, Insert
  <2> QED BY <1>3, <2>1, Inserted
<1>7. K \subseteq KeysOf(Top)
  BY <1>2, <1>3, KeysFacts DEF VarsOf
<1>8. \A n : FuncVar("func", n) \notin K
  BY <1>2, FuncVarFacts
<1>9. \A g \in Funs : \A place \in HeaderPlaces(g) : ~ Passed(g, place) /\ ~ Passed(g, place)'
  <2> SUFFICES ASSUME NEW g \in Funs, NEW place \in HeaderPlaces(g)
               PROVE  ~ Passed(g, place) /\ ~ Passed(g, place)'
    OBVIOUS
  <2>1. Owed("header", g) /\ Owed("header", g)'
    BY <1>1
  <2>2. ~ (place[1] < param')
    BY <1>1, PlaceFacts
  <2>3. agenda # <<>> => agenda[1] # <<"header", g>>
    BY <1>1 DEF Started
  <2> QED BY <2>1, <2>2, <2>3 DEF Passed
<1>10. Tables' /\ \A t \in Scopes : DOMAIN table[t] \subseteq DOMAIN table'[t]
  BY <1>1, <1>3, <1>6, <1>7, <1>8, <1>9, TablesStay
<1>11. Duplicates(Top, GlobalKeys)
         = {j \in DOMAIN prog.globals : \E i \in 1 .. j - 1 : prog.globals[i] = prog.globals[j]}
  <2>1. DOMAIN table[Top] = {}
    BY <1>1 DEF Tables
  <2>2. \A j \in DOMAIN prog.globals : \A i \in 1 .. j - 1 :
           GlobalKeys[i].key = GlobalKeys[j].key <=> prog.globals[i] = prog.globals[j]
    <3> SUFFICES ASSUME NEW j \in DOMAIN prog.globals, NEW i \in 1 .. j - 1
                 PROVE  GlobalKeys[i].key = GlobalKeys[j].key <=> prog.globals[i] = prog.globals[j]
      OBVIOUS
    <3>1. i \in DOMAIN prog.globals
      BY <1>3
    <3> QED BY <1>4, <3>1, FuncVarFacts
  <2> QED BY <1>4, <2>1, <2>2 DEF Duplicates
<1>12. Redefines(Top, GlobalKeys) <=> Repeats(prog.globals)
  <2>1. ASSUME NEW j \in DOMAIN prog.globals, NEW i \in 1 .. j - 1, prog.globals[i] = prog.globals[j]
        PROVE  Repeats(prog.globals)
    <3>1. i \in DOMAIN prog.globals /\ i < j
      BY <1>3
    <3> QED BY <2>1, <3>1 DEF Repeats
  <2>2. ASSUME NEW i \in DOMAIN prog.globals, NEW j \in DOMAIN prog.globals, i < j
        PROVE  i \in 1 .. j - 1
    BY <1>3, <2>2
  <2> QED BY <1>4, <1>11, <2>1, <2>2 DEF Redefines, Repeats
<1>13. error' = Redefines(Top, GlobalKeys)
  BY DEF InitProgram
<1>14. error' => Redeclares
  BY <1>12, <1>13 DEF Redeclares
<1>15. ~ error' => FilledGlobals'
  <2>1. \A i \in DOMAIN prog.globals : FuncVar("var", prog.globals[i]) \in DOMAIN table'[Top]
    BY <1>2, <1>6 DEF Grown
  <2> QED BY <1>12, <1>13, <2>1 DEF FilledGlobals, FuncVar
<1>16. FilledHeaders' /\ FilledFuns' /\ FilledBodies' /\ FilledLoops'
  <2>1. \A f : HeaderPlaces(f)' = HeaderPlaces(f)
    BY FixedNames
  <2>2. FilledHeaders'
    BY <1>9, <2>1 DEF FilledHeaders
  <2> QED BY <1>1, <2>2 DEF FilledFuns, FilledBodies, FilledLoops
<1> QED BY <1>1, <1>10, <1>14, <1>15, <1>16 DEF Filled
(* The keys that a parameter brings, and their places in the header.       *)
LEMMA ParamKeysFacts ==
  ASSUME prog \in Programs, NEW f \in Funs, NEW i \in DOMAIN fun(f).params
  PROVE  /\ 1 \in DOMAIN ParamKeys(f, i)
         /\ \A j \in DOMAIN ParamKeys(f, i) :
              /\ j \in Nat \ {0} /\ 1 .. j - 1 \subseteq DOMAIN ParamKeys(f, i)
              /\ <<i, j - 1>> \in HeaderPlaces(f)
              /\ ParamKeys(f, i)[j].key = FuncVar("var", NameAt(f, <<i, j - 1>>))
         /\ FuncVar("var", NameAt(f, <<i, 0>>)) \notin DOMAIN table[f] =>
              \A place \in HeaderPlaces(f) : place[1] = i => place[2] + 1 \in DOMAIN ParamKeys(f, i)
<1> DEFINE p     == fun(f).params[i]
           keys  == ParamKeys(f, i)
           first == [key |-> FuncVar("var", p.id), checked |-> TRUE]
           rest  == [d \in DOMAIN p.dims |->
                       [key |-> FuncVar("var", p.dims[d]), checked |-> fun(f).header = "void"]]
           n     == Len(p.dims)
<1>1. /\ p.dims \in Seq(Names) /\ n \in Nat /\ DOMAIN p.dims = 1 .. n /\ i \in Nat
      /\ \A place \in HeaderPlaces(f) : /\ place[2] \in 0 .. Len(fun(f).params[place[1]].dims)
                                        /\ place = <<place[1], place[2]>>
  <2>1. p \in [id : Names, dims : Seq(Names)] /\ i \in Nat
    BY PlaceFacts
  <2>2. p.dims \in Seq(Names)
    BY <2>1
  <2>3. n \in Nat /\ DOMAIN p.dims = 1 .. n
    <3> HIDE DEF p
    <3> QED BY <2>2, Elements
  <2> QED BY <2>1, <2>2, <2>3, PlaceFacts
<1>2. \A d \in 0 .. n : <<i, d>> \in HeaderPlaces(f)
  BY DEF HeaderPlaces
<1>3. /\ NameAt(f, <<i, 0>>) = p.id
      /\ \A d \in 1 .. n : NameAt(f, <<i, d>>) = p.dims[d]
  BY <1>1 DEF NameAt
<1>4. keys = IF FuncVar("var", p.id) \in DOMAIN table[f] THEN <<first>> ELSE <<first>> \o rest
  BY DEF ParamKeys
<1>5. CASE FuncVar("var", p.id) \in DOMAIN table[f]
  <2>1. keys = <<first>>
    BY <1>4, <1>5
  <2>2. DOMAIN keys = {1} /\ keys[1] = first
    <3> HIDE DEF first, keys
    <3> QED BY <2>1
  <2>3. <<i, 0>> \in HeaderPlaces(f)
    BY <1>1, <1>2
  <2>4. keys[1].key = FuncVar("var", NameAt(f, <<i, 0>>))
    BY <1>3, <2>2
  <2> HIDE DEF keys
  <2> QED BY <1>3, <1>5, <2>2, <2>3, <2>4 DEF keys
<1>6. CASE FuncVar("var", p.id) \notin DOMAIN table[f]
  <2>1. keys = <<first>> \o rest
    BY <1>4, <1>6
  <2>2. DOMAIN rest = 1 .. n
    BY <1>1
  <2>3. \A d \in 1 .. n : rest[d].key = FuncVar("var", p.dims[d])
    BY <2>2
  <2>4. PICK S : first \in S /\ rest \in Seq(S) /\ Len(rest) = n
    <3> DEFINE S == {first} \cup {rest[d] : d \in DOMAIN rest}
    <3>1. rest = [d \in 1 .. n |-> rest[d]] /\ \A d \in 1 .. n : rest[d] \in S
      BY <2>2
    <3> HIDE DEF rest, n, first
    <3>2. first \in S
      OBVIOUS
    <3> HIDE DEF S
    <3>3. rest \in Seq(S) /\ Len(rest) = n
      BY <1>1, <3>1
    <3> QED BY <3>2, <3>3
  <2>5. /\ DOMAIN keys = 1 .. n + 1 /\ keys[1] = first
        /\ \A d \in 1 .. n : keys[d + 1] = rest[d]
    <3> HIDE DEF rest, n, keys, first
    <3>1. <<first>> \in Seq(S) /\ Len(<<first>>) = 1 /\ << first >>[1] = first
      BY <2>4
    <3>2. /\ Len(keys) = 1 + n /\ keys \in Seq(S)
          /\ \A d \in 1 .. 1 + n : keys[d] = IF d <= 1 THEN << first >>[d] ELSE rest[d - 1]
      BY <2>1, <2>4, <3>1, ConcatProperties
    <3>3. \A d \in 1 .. n : keys[d + 1] = rest[d]
      <4> SUFFICES ASSUME NEW d \in 1 .. n PROVE keys[d + 1] = rest[d]
        OBVIOUS
      <4>1. d + 1 \in 1 .. 1 + n /\ ~ (d + 1 <= 1) /\ (d + 1) - 1 = d
        BY <1>1
      <4> QED BY <3>2, <4>1
    <3>4. DOMAIN keys = 1 .. n + 1
      <4>1. Len(keys) = n + 1
        BY <1>1, <3>2
      <4> QED BY <3>2, <4>1
    <3>5. 1 \in 1 .. 1 + n
      BY <1>1
    <3> QED BY <3>1, <3>2, <3>3, <3>4, <3>5
  <2>6. keys[1].key = FuncVar("var", p.id)
    BY <2>5
  <2> HIDE DEF keys, n, rest, first, p
  <2>7. \A d \in 0 .. n : keys[d + 1].key = FuncVar("var", NameAt(f, <<i, d>>))
    <3> SUFFICES ASSUME NEW d \in 0 .. n
                 PROVE  keys[d + 1].key = FuncVar("var", NameAt(f, <<i, d>>))
      OBVIOUS
    <3>1. CASE d = 0
      BY <1>3, <2>6, <3>1
    <3>2. CASE d # 0
      BY <1>1, <1>3, <2>3, <2>5, <3>2
    <3> QED BY <3>1, <3>2
  <2>8. ASSUME NEW j \in DOMAIN keys
        PROVE  /\ j \in Nat \ {0} /\ 1 .. j - 1 \subseteq DOMAIN keys
               /\ <<i, j - 1>> \in HeaderPlaces(f)
               /\ keys[j].key = FuncVar("var", NameAt(f, <<i, j - 1>>))
    <3>1. PICK d \in 0 .. n : j = d + 1 /\ d = j - 1
      <4>1. j - 1 \in 0 .. n /\ j = (j - 1) + 1
        BY <1>1, <2>5
      <4> QED BY <4>1
    <3>2. j \in Nat \ {0} /\ 1 .. j - 1 \subseteq DOMAIN keys
      BY <1>1, <2>5
    <3> QED BY <1>2, <2>7, <3>1, <3>2
  <2>9. ASSUME NEW place \in HeaderPlaces(f), place[1] = i PROVE place[2] + 1 \in DOMAIN keys
    <3>1. place[2] \in 0 .. n
      BY <1>1, <2>9 DEF n, p
    <3> QED BY <1>1, <2>5, <3>1
  <2>10. 1 \in DOMAIN keys
    BY <1>1, <2>5
  <2> QED BY <2>8, <2>9, <2>10 DEF keys
<1> QED BY <1>5, <1>6
LEMMA ParamStep ==
  ASSUME prog \in Programs, prog' = prog, pass = "InitSymtables", Schedule, Tables, Filled, InitParam
  PROVE  /\ Schedule' /\ Tables' /\ (pass' = "InitSymtables" => Filled')
         /\ error' => error \/ Redeclares
         /\ pass' \in {"InitSymtables", "assertion failed"}
         /\ pass' = "assertion failed" => HeadersRepeat
<1>1. PICK f : f = Here
  OBVIOUS
<1>2. PICK n : n = param
  OBVIOUS
<1>3. /\ agenda \in Seq(Tasks) /\ agenda # <<>> /\ Visit("header")
      /\ agenda' = agenda /\ n \in Nat \ {0} /\ param' = n + 1
  BY <1>2 DEF Schedule, InitParam, Visit
<1>4. agenda[1] = <<"header", f>> /\ 1 \in DOMAIN agenda /\ f \in Funs
  BY <1>1, <1>3, FirstTask DEF Visits
<1>5. PICK keys : keys = ParamKeys(f, n)
  OBVIOUS
<1>6. n \in DOMAIN fun(f).params
  BY <1>1, <1>2 DEF InitParam
<1>7. /\ 1 \in DOMAIN keys
      /\ \A j \in DOMAIN keys :
           /\ j \in Nat \ {0} /\ 1 .. j - 1 \subseteq DOMAIN keys
           /\ <<n, j - 1>> \in HeaderPlaces(f)
           /\ keys[j].key = FuncVar("var", NameAt(f, <<n, j - 1>>))
      /\ FuncVar("var", NameAt(f, <<n, 0>>)) \notin DOMAIN table[f] =>
           \A place \in HeaderPlaces(f) : place[1] = n => place[2] + 1 \in DOMAIN keys
  BY <1>4, <1>5, <1>6, ParamKeysFacts
<1>8. \A g \in Funs : \A place \in HeaderPlaces(g) :
         /\ place[1] \in Nat /\ place[2] \in Nat /\ place = <<place[1], place[2]>>
  <2> SUFFICES ASSUME NEW g \in Funs, NEW place \in HeaderPlaces(g)
               PROVE  place[1] \in Nat /\ place[2] \in Nat /\ place = <<place[1], place[2]>>
    OBVIOUS
  <2> QED BY PlaceFacts
<1>9. PICK K : K = {keys[i].key : i \in DOMAIN keys}
  OBVIOUS
<1>10. Grown(f, K)
  <2>1. table' = [table EXCEPT ![f] = Entered(f, K, @)]
    BY <1>1, <1>2, <1>5, <1>9 DEF InitParam, Insert
  <2> QED BY <1>4, <2>1, ProgramFacts, Inserted
(* the agenda stays, the header's loop has come one further *)
<1>11. /\ \A w, g : Owed(w, g)' = Owed(w, g)
       /\ Started /\ Started'
  <2>1. PICK next : next = agenda
    OBVIOUS
  <2>2. \A w, g : OwedBy(next, w, g)' = OwedBy(next, w, g)
    BY FixedTree
  <2> QED BY <1>3, <1>4, <2>1, <2>2 DEF Owed, Started
<1>12. Schedule'
  <2>1. PICK next : next = agenda
    OBVIOUS
  <2>2. Apart(next)' = Apart(next)
    BY FixedTree
  <2> QED BY <1>3, <1>4, <2>1, <2>2 DEF Schedule, Tasks
<1>13. Owed("header", f) /\ Owed("body", f)
  <2>1. f \in Enclosing(f)
    BY <1>4, ProgramFacts, EnclosingSteps
  <2> QED BY <1>4, <2>1 DEF Owed, OwedBy, Owes
<1>14. /\ \A g \in Funs : \A place \in HeaderPlaces(g) :
            Passed(g, place)' <=> Passed(g, place) \/ (g = f /\ place[1] = n)
       /\ \A place \in HeaderPlaces(f) : Passed(f, place) => place[1] # n
  <2> SUFFICES ASSUME NEW g \in Funs, NEW place \in HeaderPlaces(g)
               PROVE  /\ Passed(g, place)' <=> Passed(g, place) \/ (g = f /\ place[1] = n)
                      /\ g = f /\ Passed(f, place) => place[1] # n
    BY <1>4
  <2>1. place[1] < n + 1 <=> place[1] < n \/ place[1] = n
    BY <1>3, <1>8
  <2>2. ~ (n < n)
    BY <1>3
  <2>3. agenda[1] = <<"header", g>> <=> g = f
    BY <1>4
  <2> QED BY <1>2, <1>3, <1>11, <1>13, <2>1, <2>2, <2>3 DEF Passed
<1>15. K \subseteq KeysOf(f) /\ \A m : FuncVar("func", m) \notin K
  <2>1. ASSUME NEW j \in DOMAIN keys PROVE keys[j].key \in KeysOf(f)
    <3>1. f \in Scopes /\ f # Top
      BY <1>4, ProgramFacts
    <3>2. <<n, j - 1>> \in HeaderPlaces(f) /\ keys[j].key = FuncVar("var", NameAt(f, <<n, j - 1>>))
      BY <1>7
    <3>3. NameAt(f, <<n, j - 1>>) \in VarsOf(f)
      BY <3>1, <3>2 DEF VarsOf, ParamNames
    <3> QED BY <3>1, <3>2, <3>3, KeysFacts
  <2>2. ASSUME NEW m, NEW j \in DOMAIN keys PROVE FuncVar("func", m) # keys[j].key
    <3>1. keys[j].key = FuncVar("var", NameAt(f, <<n, j - 1>>))
      BY <1>7
    <3> QED BY <3>1, FuncVarFacts
  <2> QED BY <1>9, <2>1, <2>2
<1>16. K \cap LoopKeys(f) = {}
  <2>1. \A key \in LoopKeys(f) : key.loop # None
    BY <1>4, LoopKeysFacts
  <2>2. ASSUME NEW j \in DOMAIN keys PROVE keys[j].key.loop = None
    <3>1. keys[j].key = FuncVar("var", NameAt(f, <<n, j - 1>>))
      BY <1>7
    <3> QED BY <3>1, FuncVarFacts
  <2> QED BY <1>9, <2>1, <2>2
<1>17. Tables' /\ \A t \in Scopes : DOMAIN table[t] \subseteq DOMAIN table'[t]
  <2>1. \A k \in K : \E place \in HeaderPlaces(f) :
           Passed(f, place)' /\ k = FuncVar("var", NameAt(f, place))
    <3> SUFFICES ASSUME NEW j \in DOMAIN keys
                 PROVE  \E place \in HeaderPlaces(f) :
                          Passed(f, place)' /\ keys[j].key = FuncVar("var", NameAt(f, place))
      BY <1>9
    <3>1. Passed(f, <<n, j - 1>>)'
      BY <1>4, <1>7, <1>14
    <3> QED BY <1>7, <3>1
  <2>2. f \in Scopes
    BY <1>4, ProgramFacts
  <2> QED BY <1>10, <1>11, <1>14, <1>15, <1>16, <2>1, <2>2, TablesStay
(* duplicates are names that the header repeats *)
<1>18. ASSUME NEW j \in Duplicates(f, keys) PROVE RepeatsInHeader(f)
  <2>1. j \in DOMAIN keys /\ <<n, j - 1>> \in HeaderPlaces(f)
    BY <1>7 DEF Duplicates
  <2>2. CASE keys[j].key \in DOMAIN table[f]
    <3>1. PICK q \in HeaderPlaces(f) : Passed(f, q) /\ keys[j].key = FuncVar("var", NameAt(f, q))
      BY <1>4, <1>13, <2>2 DEF Tables
    <3>2. q # <<n, j - 1>> /\ NameAt(f, q) = NameAt(f, <<n, j - 1>>)
      <4>1. q[1] # n
        BY <1>14, <3>1
      <4>2. FuncVar("var", NameAt(f, q)) = FuncVar("var", NameAt(f, <<n, j - 1>>))
        BY <1>7, <2>1, <3>1
      <4>3. NameAt(f, q) = NameAt(f, <<n, j - 1>>)
        BY <4>2, FuncVarFacts
      <4> QED BY <4>1, <4>3
    <3> QED BY <2>1, <3>2 DEF RepeatsInHeader
  <2>3. CASE \E i \in 1 .. j - 1 : keys[i].key = keys[j].key
    <3>1. PICK i \in 1 .. j - 1 : keys[i].key = keys[j].key
      BY <2>3
    <3>2. i \in DOMAIN keys /\ i \in Nat /\ j \in Nat /\ i - 1 # j - 1
      <4>1. j \in Nat \ {0} /\ 1 .. j - 1 \subseteq DOMAIN keys
        BY <1>7, <2>1
      <4>2. i \in DOMAIN keys
        BY <4>1
      <4> QED BY <4>1, <4>2
    <3>3. NameAt(f, <<n, i - 1>>) = NameAt(f, <<n, j - 1>>)
      BY <1>7, <2>1, <3>1, <3>2, FuncVarFacts
    <3>4. <<n, i - 1>> # <<n, j - 1>> /\ <<n, i - 1>> \in HeaderPlaces(f)
      BY <1>7, <3>2
    <3> QED BY <2>1, <3>3, <3>4 DEF RepeatsInHeader
  <2> QED BY <2>2, <2>3 DEF Duplicates
<1>19. /\ error' = (error \/ Redefines(f, keys))
       /\ pass' = IF Clobbers(f, keys) THEN "assertion failed" ELSE "InitSymtables"
  BY <1>1, <1>2, <1>5 DEF InitParam
<1>20. (Redefines(f, keys) => Redeclares) /\ (Clobbers(f, keys) => HeadersRepeat)
  BY <1>4, <1>18 DEF Redefines, Clobbers, Redeclares, HeadersRepeat
(* without duplicates, the keys are new and all of them are there *)
<1>21. ASSUME pass' = "InitSymtables", ~ error'
       PROVE  FilledHeaders'
  <2>1. Duplicates(f, keys) = {} /\ FilledHeaders
    BY <1>19, <1>21 DEF Redefines, Clobbers, Filled
  <2>2. \A j \in DOMAIN keys : /\ keys[j].key \notin DOMAIN table[f]
                               /\ \A i \in 1 .. j - 1 : keys[i].key # keys[j].key
    BY <2>1 DEF Duplicates
  <2>3. keys[1].key = FuncVar("var", NameAt(f, <<n, 0>>))
    <3>1. 1 - 1 = 0
      OBVIOUS
    <3> QED BY <1>7, <3>1
  <2>4. \A place \in HeaderPlaces(f) : place[1] = n => place[2] + 1 \in DOMAIN keys
    BY <1>7, <2>2, <2>3
  <2>5. ASSUME NEW place \in HeaderPlaces(f), place[1] = n
        PROVE  /\ place[2] + 1 \in DOMAIN keys
               /\ keys[place[2] + 1].key = FuncVar("var", NameAt(f, place))
    <3>1. place[2] \in Nat /\ (place[2] + 1) - 1 = place[2] /\ place = <<n, place[2]>>
      BY <1>4, <1>8, <2>5
    <3> QED BY <1>7, <2>4, <2>5, <3>1
  <2>6. \A g \in Funs : \A place \in HeaderPlaces(g) :
           Passed(g, place)' => FuncVar("var", NameAt(g, place)) \in DOMAIN table'[g]
    <3> SUFFICES ASSUME NEW g \in Funs, NEW place \in HeaderPlaces(g), Passed(g, place)'
                 PROVE  FuncVar("var", NameAt(g, place)) \in DOMAIN table'[g]
      OBVIOUS
    <3>1. CASE Passed(g, place)
      BY <1>17, <2>1, <3>1, ProgramFacts DEF FilledHeaders
    <3>2. CASE g = f /\ place[1] = n
      BY <1>9, <1>10, <2>5, <3>2 DEF Grown
    <3> QED BY <1>14, <3>1, <3>2
  <2>7. ASSUME NEW g \in Funs, NEW p \in HeaderPlaces(g), NEW q \in HeaderPlaces(g),
               Passed(g, p)', Passed(g, q)', NameAt(g, p) = NameAt(g, q)
        PROVE  p = q
    <3>1. CASE Passed(g, p) /\ Passed(g, q)
      BY <2>1, <2>7, <3>1 DEF FilledHeaders
    <3>2. ASSUME NEW a \in HeaderPlaces(f), NEW b \in HeaderPlaces(f), a[1] = n, Passed(f, b),
                 NameAt(f, a) = NameAt(f, b)
          PROVE  FALSE
      <4>1. FuncVar("var", NameAt(f, b)) \in DOMAIN table[f]
        BY <1>4, <2>1, <3>2 DEF FilledHeaders
      <4> QED BY <2>2, <2>5, <3>2, <4>1
    <3>3. CASE g = f /\ p[1] = n /\ q[1] = n
      <4>1. /\ p[2] \in Nat /\ q[2] \in Nat /\ p[2] + 1 \in DOMAIN keys /\ q[2] + 1 \in DOMAIN keys
            /\ keys[p[2] + 1].key = keys[q[2] + 1].key
            /\ p = <<n, p[2]>> /\ q = <<n, q[2]>>
        BY <1>4, <1>8, <2>5, <2>7, <3>3
      <4>2. ~ (p[2] < q[2])
        <5>1. p[2] < q[2] => p[2] + 1 \in 1 .. (q[2] + 1) - 1
          BY <4>1
        <5> QED BY <2>2, <4>1, <5>1
      <4>3. ~ (q[2] < p[2])
        <5>1. q[2] < p[2] => q[2] + 1 \in 1 .. (p[2] + 1) - 1
          BY <4>1
        <5> QED BY <2>2, <4>1, <5>1
      <4>4. p[2] = q[2]
        BY <4>1, <4>2, <4>3
      <4> QED BY <4>1, <4>4
    <3> QED BY <1>14, <2>7, <3>1, <3>2, <3>3
  <2>8. /\ \A h : HeaderPlaces(h)' = HeaderPlaces(h)
        /\ \A h, place : NameAt(h, place)' = NameAt(h, place)
    BY FixedNames
  <2> QED BY <2>6, <2>7, <2>8 DEF FilledHeaders, FuncVar
<1>22. ASSUME pass' = "InitSymtables", ~ error' PROVE Filled'
  <2>1. FilledFuns /\ FilledBodies /\ FilledLoops /\ FilledGlobals
    BY <1>19, <1>22 DEF Filled
  <2>2. FilledFuns' /\ FilledBodies' /\ FilledLoops' /\ FilledGlobals'
    BY <1>11, <1>17, <2>1, FilledStays
  <2> QED BY <1>21, <1>22, <2>2 DEF Filled
<1>23. pass' = "InitSymtables" => Filled'
  BY <1>22 DEF Filled
<1> QED BY <1>12, <1>17, <1>19, <1>20, <1>23
(* Two functions of one scope and one name.                                *)
LEMMA SameIds ==
  ASSUME prog \in Programs
  PROVE  \A s \in Scopes :
           Repeats(FunIds(s)) <=> \E f, g \in Funs : /\ f # g /\ Parent[f] = s /\ Parent[g] = s
                                                     /\ fun(f).id = fun(g).id
<1> SUFFICES ASSUME NEW s \in Scopes
             PROVE  Repeats(FunIds(s)) <=> \E f, g \in Funs : /\ f # g /\ Parent[f] = s /\ Parent[g] = s
                                                              /\ fun(f).id = fun(g).id
  OBVIOUS
<1>1. /\ Children[s] \in Seq(Funs)
      /\ \A i \in DOMAIN Children[s] : Children[s][i] \in Funs /\ i \in Nat
      /\ \A i, j \in DOMAIN Children[s] : Children[s][i] = Children[s][j] => i = j
  <2>1. Children[s] \in Seq(Funs) /\ Tree(Children)
    BY ProgramFacts
  <2> QED BY <2>1, Elements DEF Tree
<1>2. /\ \A f \in Funs : Parent[f] = s => \E i \in DOMAIN Children[s] : Children[s][i] = f
      /\ \A i \in DOMAIN Children[s] : Parent[Children[s][i]] = s
  BY ParentFacts
<1>3. /\ DOMAIN FunIds(s) = DOMAIN Children[s]
      /\ \A i \in DOMAIN Children[s] : FunIds(s)[i] = fun(Children[s][i]).id
  BY DEF FunIds
<1>4. ASSUME NEW i \in DOMAIN Children[s], NEW j \in DOMAIN Children[s], i < j,
             FunIds(s)[i] = FunIds(s)[j]
      PROVE  \E f, g \in Funs : /\ f # g /\ Parent[f] = s /\ Parent[g] = s
                                /\ fun(f).id = fun(g).id
  <2>1. i # j
    BY <1>1, <1>4
  <2>2. /\ Children[s][i] # Children[s][j] /\ Children[s][i] \in Funs /\ Children[s][j] \in Funs
        /\ Parent[Children[s][i]] = s /\ Parent[Children[s][j]] = s
        /\ fun(Children[s][i]).id = fun(Children[s][j]).id
    BY <1>1, <1>2, <1>3, <1>4, <2>1
  <2> QED BY <2>2
<1>5. ASSUME NEW f \in Funs, NEW g \in Funs, f # g, Parent[f] = s, Parent[g] = s,
             fun(f).id = fun(g).id
      PROVE  Repeats(FunIds(s))
  <2>1. PICK i \in DOMAIN Children[s] : Children[s][i] = f
    BY <1>2, <1>5
  <2>2. PICK j \in DOMAIN Children[s] : Children[s][j] = g
    BY <1>2, <1>5
  <2>3. i < j \/ j < i
    BY <1>1, <1>5, <2>1, <2>2
  <2>4. FunIds(s)[i] = FunIds(s)[j]
    BY <1>3, <1>5, <2>1, <2>2
  <2> QED BY <1>3, <2>3, <2>4 DEF Repeats
<1> QED BY <1>3, <1>4, <1>5 DEF Repeats

LEMMA FunHeaderStep ==
  ASSUME prog \in Programs, prog' = prog, pass = "InitSymtables", Schedule, Tables, Filled,
         InitFunHeader
  PROVE  /\ Schedule' /\ Tables' /\ (pass' = "InitSymtables" => Filled')
         /\ error' => error \/ Redeclares
         /\ pass' \in {"InitSymtables", "assertion failed"}
         /\ pass' = "assertion failed" => HeadersRepeat
<1>1. PICK f : f = Here
  OBVIOUS
<1>2. /\ agenda \in Seq(Tasks) /\ agenda # <<>> /\ Visit("header")
      /\ Then(<<<<"body", Here>>>>) /\ param' = 1 /\ error' = error
  BY DEF Schedule, InitFunHeader, Visit
<1>3. agenda[1] = <<"header", f>> /\ 1 \in DOMAIN agenda /\ f \in Funs
  BY <1>1, <1>2, FirstTask DEF Visits
<1>4. Made("header", f)
  BY <1>1, <1>2, AfterHeader
<1>5. "header" \in Visits /\ "body" \in Visits /\ "loops" \in Visits
  BY DEF Visits
<1>6. /\ Schedule' /\ Started' /\ Started /\ Owed("header", f)
      /\ \A v \in Visits, g \in Funs : Owed(v, g)' <=> Owed(v, g) /\ ~ (v = "header" /\ g = f)
  BY <1>4 DEF Made
<1>7. \A g \in Funs : /\ Owed("header", g)' <=> Owed("header", g) /\ g # f
                      /\ Owed("body", g)' <=> Owed("body", g)
                      /\ Owed("loops", g)' <=> Owed("loops", g)
  BY <1>5, <1>6
<1>8. \A g \in Funs : \A place \in HeaderPlaces(g) : Passed(g, place)' <=> Passed(g, place)
  <2>1. param \notin DOMAIN fun(f).params
    BY <1>1 DEF InitFunHeader
  <2> QED BY <1>2, <1>3, <1>4, <1>5, <2>1, PassedLater
<1>9. PICK s \in Scopes : s = Parent[f]
  BY <1>3, ParentFacts
<1>10. PICK key : key = FuncVar("func", fun(f).id)
  OBVIOUS
<1>11. HeaderKey(f) = <<[key |-> key, checked |-> FALSE]>>
  BY <1>10 DEF HeaderKey
<1>12. DOMAIN HeaderKey(f) = {1} /\ HeaderKey(f)[1].key = key /\ HeaderKey(f)[1].checked = FALSE
  BY <1>11
<1>13. Grown(s, {key})
  <2>1. {HeaderKey(f)[i].key : i \in DOMAIN HeaderKey(f)} = {key}
    BY <1>12
  <2>2. table' = [table EXCEPT ![s] = Entered(s, {key}, @)]
    BY <1>1, <1>9, <2>1 DEF InitFunHeader, Insert
  <2> QED BY <2>2, Inserted
<1>14. key \in KeysOf(s)
  <2>1. fun(f).id \in FunsOf(s)
    <3>1. PICK i \in DOMAIN Children[s] : Children[s][i] = f
      BY <1>3, <1>9, ParentFacts
    <3> QED BY <3>1 DEF FunsOf
  <2> QED BY <1>10, <2>1, KeysFacts
<1>15. \A g \in Funs : key \notin LoopKeys(g)
  <2> SUFFICES ASSUME NEW g \in Funs PROVE key \notin LoopKeys(g)
    OBVIOUS
  <2>1. key.loop = None
    BY <1>10, FuncVarFacts
  <2> QED BY <2>1, LoopKeysFacts
<1>16. \A n \in Names : FuncVar("func", n) \in {key} =>
          \E g \in Funs : Parent[g] = s /\ fun(g).id = n /\ ~ Owed("header", g)'
  BY <1>3, <1>7, <1>9, <1>10, FuncVarFacts
<1>17. s \in Funs => ~ Owed("body", s)
  BY <1>2, <1>3, <1>9, OutsideFirst
<1>18. Tables' /\ \A t \in Scopes : DOMAIN table[t] \subseteq DOMAIN table'[t]
  <2>1. {key} \subseteq KeysOf(s) /\ (s \in Funs => {key} \cap LoopKeys(s) = {})
    BY <1>14, <1>15
  <2>2. s \in Funs => ~ Owed("body", s)'
    BY <1>7, <1>17
  <2> QED BY <1>6, <1>7, <1>8, <1>13, <1>16, <2>1, <2>2, TablesStay
<1>19. Clobbers(s, HeaderKey(f)) <=> key \in DOMAIN table[s]
  <2>1. Duplicates(s, HeaderKey(f)) = {i \in {1} : key \in DOMAIN table[s]}
    <3>1. \A j \in 1 .. 1 - 1 : FALSE
      OBVIOUS
    <3> QED BY <1>12, <3>1 DEF Duplicates
  <2> QED BY <1>12, <2>1 DEF Clobbers
<1>20. pass' = IF key \in DOMAIN table[s] THEN "assertion failed" ELSE "InitSymtables"
  BY <1>1, <1>9, <1>19 DEF InitFunHeader
<1>21. key \in DOMAIN table[s] => HeadersRepeat
  <2> SUFFICES ASSUME key \in DOMAIN table[s] PROVE HeadersRepeat
    OBVIOUS
  <2>1. fun(f).id \in Names
    BY <1>3, ProgramFacts
  <2>2. PICK g \in Funs : Parent[g] = s /\ fun(g).id = fun(f).id /\ ~ Owed("header", g)
    BY <1>10, <2>1 DEF Tables
  <2>3. f # g
    BY <1>6, <2>2
  <2>4. Repeats(FunIds(s))
    BY <1>3, <1>9, <2>2, <2>3, SameIds
  <2> QED BY <2>4 DEF HeadersRepeat
<1>22. ASSUME pass' = "InitSymtables", ~ error PROVE FilledFuns'
  <2>1. key \notin DOMAIN table[s] /\ FilledFuns
    BY <1>20, <1>22 DEF Filled
  <2>2. /\ Parent' = Parent
        /\ \A g : fun(g)' = fun(g)
    BY FixedTree
  <2>3. \A g \in Funs : Parent[g] \in Scopes
    BY ParentFacts
  <2>4. ASSUME NEW g \in Funs, ~ Owed("header", g)'
        PROVE  FuncVar("func", fun(g).id) \in DOMAIN table'[Parent[g]]
    <3>1. CASE g = f
      BY <1>9, <1>10, <1>13, <3>1 DEF Grown
    <3>2. CASE g # f
      BY <1>7, <1>18, <2>1, <2>3, <2>4, <3>2 DEF FilledFuns
    <3> QED BY <3>1, <3>2
  <2>5. ASSUME NEW g \in Funs, NEW h \in Funs, ~ Owed("header", g)', ~ Owed("header", h)',
               Parent[g] = Parent[h], fun(g).id = fun(h).id
        PROVE  g = h
    <3>1. CASE g # f /\ h # f
      BY <1>7, <2>1, <2>5, <3>1 DEF FilledFuns
    <3>2. ASSUME NEW e \in Funs, e # f, ~ Owed("header", e)', Parent[e] = s, fun(e).id = fun(f).id
          PROVE  FALSE
      <4>1. key \in DOMAIN table[s]
        BY <1>7, <1>10, <2>1, <3>2 DEF FilledFuns
      <4> QED BY <2>1, <4>1
    <3> QED BY <1>9, <2>5, <3>1, <3>2
  <2> QED BY <2>2, <2>4, <2>5 DEF FilledFuns, FuncVar
<1>23. pass' = "InitSymtables" => Filled'
  <2> SUFFICES ASSUME pass' = "InitSymtables", ~ error PROVE Filled'
    BY <1>2 DEF Filled
  <2>1. FilledHeaders /\ FilledBodies /\ FilledLoops /\ FilledGlobals
    BY DEF Filled
  <2>2. FilledHeaders' /\ FilledBodies' /\ FilledLoops' /\ FilledGlobals'
    BY <1>6, <1>7, <1>8, <1>18, <2>1, FilledStays
  <2> QED BY <1>22, <2>2 DEF Filled
<1> QED BY <1>2, <1>6, <1>18, <1>20, <1>21, <1>23
LEMMA FunBodyStep ==
  ASSUME prog \in Programs, prog' = prog, Schedule, Tables, Filled, InitFunBody
  PROVE  /\ Schedule' /\ Tables' /\ Filled'
         /\ error' => error \/ Redeclares
<1>1. PICK f : f = Here
  OBVIOUS
<1>2. /\ agenda \in Seq(Tasks) /\ agenda # <<>> /\ Visit("body")
      /\ Then(Each("header", Here) \o <<<<"loops", Here>>>>) /\ param' = param
  BY DEF Schedule, InitFunBody, Visit
<1>3. "header" \in Visits /\ "body" \in Visits /\ "loops" \in Visits
  BY DEF Visits
<1>4. agenda[1] = <<"body", f>> /\ 1 \in DOMAIN agenda /\ f \in Funs
  BY <1>1, <1>2, <1>3, FirstTask
<1>5. Made("body", f) /\ ~ Owed("header", f)
  BY <1>1, <1>2, AfterBody
<1>6. /\ Schedule' /\ Started' /\ Started /\ Owed("body", f)
      /\ \A g \in Funs : /\ Owed("header", g)' <=> Owed("header", g)
                         /\ Owed("body", g)' <=> Owed("body", g) /\ g # f
                         /\ Owed("loops", g)' <=> Owed("loops", g)
  BY <1>3, <1>5 DEF Made
<1>7. \A g \in Funs : \A place \in HeaderPlaces(g) : Passed(g, place)' <=> Passed(g, place)
  BY <1>2, <1>3, <1>4, <1>5, PassedLater
<1>8. PICK ids : ids = DecIds(f)
  OBVIOUS
<1>9. PICK keys : keys = DecKeys(f)
  OBVIOUS
<1>10. /\ DOMAIN keys = DOMAIN ids /\ DOMAIN fun(f).decs = DOMAIN ids
       /\ \A i \in DOMAIN ids : /\ keys[i].key = FuncVar("var", ids[i]) /\ keys[i].checked = TRUE
                                /\ ids[i] = fun(f).decs[i].id
  BY <1>8, <1>9 DEF DecIds, DecKeys
<1>11. /\ DOMAIN ids = 1 .. Len(fun(f).decs) /\ Len(fun(f).decs) \in Nat
       /\ f \in Scopes /\ f # Top
  <2>1. fun(f).decs \in Seq([id : Names, init : Refs \cup {None}]) /\ f \in Scopes /\ f # Top
    BY <1>4, ProgramFacts
  <2> QED BY <1>10, <2>1, Elements
<1>12. PICK K : K = {FuncVar("var", ids[i]) : i \in DOMAIN ids}
  OBVIOUS
<1>13. Grown(f, K)
  <2>1. {keys[i].key : i \in DOMAIN keys} = K
    BY <1>10, <1>12
  <2>2. table' = [table EXCEPT ![f] = Entered(f, K, @)]
    BY <1>1, <1>9, <2>1 DEF InitFunBody, Insert
  <2> QED BY <1>11, <2>2, Inserted
<1>14. K \subseteq KeysOf(f)
  <2> SUFFICES ASSUME NEW i \in DOMAIN ids PROVE FuncVar("var", ids[i]) \in KeysOf(f)
    BY <1>12
  <2>1. ids[i] \in VarsOf(f)
    BY <1>10, <1>11 DEF VarsOf
  <2> QED BY <1>11, <2>1, KeysFacts
<1>15. (\A n : FuncVar("func", n) \notin K) /\ K \cap LoopKeys(f) = {}
  <2>1. \A k \in K : k.kind = "var" /\ k.loop = None
    BY <1>12, FuncVarFacts
  <2>2. \A n : FuncVar("func", n).kind = "func"
    BY FuncVarFacts
  <2>3. \A k \in LoopKeys(f) : k.loop # None
    BY <1>4, LoopKeysFacts
  <2> QED BY <2>1, <2>2, <2>3
<1>16. Tables' /\ \A t \in Scopes : DOMAIN table[t] \subseteq DOMAIN table'[t]
  BY <1>6, <1>7, <1>11, <1>13, <1>14, <1>15, TablesStay
<1>17. \A j \in DOMAIN ids :
          j \in Duplicates(f, keys) <=> \/ FuncVar("var", ids[j]) \in DOMAIN table[f]
                                        \/ \E i \in 1 .. j - 1 : ids[i] = ids[j]
  <2> SUFFICES ASSUME NEW j \in DOMAIN ids
               PROVE  j \in Duplicates(f, keys) <=> \/ FuncVar("var", ids[j]) \in DOMAIN table[f]
                                                    \/ \E i \in 1 .. j - 1 : ids[i] = ids[j]
    OBVIOUS
  <2>1. \A i \in 1 .. j - 1 : keys[i].key = keys[j].key <=> ids[i] = ids[j]
    <3> SUFFICES ASSUME NEW i \in 1 .. j - 1 PROVE keys[i].key = keys[j].key <=> ids[i] = ids[j]
      OBVIOUS
    <3>1. i \in DOMAIN ids
      BY <1>11
    <3>2. keys[i].key = FuncVar("var", ids[i]) /\ keys[j].key = FuncVar("var", ids[j])
      BY <1>10, <3>1
    <3> QED BY <3>2, FuncVarFacts
  <2> QED BY <1>10, <2>1 DEF Duplicates
<1>18. error' = (error \/ Redefines(f, keys))
       /\ (Redefines(f, keys) <=> \E j \in DOMAIN ids : j \in Duplicates(f, keys))
  BY <1>1, <1>9, <1>10 DEF InitFunBody, Redefines, Duplicates
<1>19. ASSUME NEW j \in DOMAIN ids, j \in Duplicates(f, keys) PROVE Redeclares
  <2>1. CASE FuncVar("var", ids[j]) \in DOMAIN table[f]
    <3>1. PICK place \in HeaderPlaces(f) : FuncVar("var", ids[j]) = FuncVar("var", NameAt(f, place))
      BY <1>4, <1>6, <2>1 DEF Tables
    <3>2. ids[j] = NameAt(f, place)
      BY <3>1, FuncVarFacts
    <3>3. fun(f).decs[j].id \in ParamNames(f) /\ j \in DOMAIN fun(f).decs
      BY <1>10, <3>2 DEF ParamNames
    <3> QED BY <1>4, <3>3 DEF Redeclares
  <2>2. CASE \E i \in 1 .. j - 1 : ids[i] = ids[j]
    <3>1. PICK i \in 1 .. j - 1 : ids[i] = ids[j]
      BY <2>2
    <3>2. i \in DOMAIN ids /\ i < j
      BY <1>11
    <3>3. Repeats(DecIds(f))
      BY <1>8, <3>1, <3>2 DEF Repeats
    <3> QED BY <1>4, <3>3 DEF Redeclares
  <2> QED BY <1>17, <1>19, <2>1, <2>2
<1>20. ASSUME ~ error' PROVE FilledBodies'
  <2>1. FilledHeaders /\ FilledBodies /\ \A j \in DOMAIN ids : j \notin Duplicates(f, keys)
    BY <1>18, <1>20 DEF Filled
  <2>2. ~ Repeats(DecIds(f))
    <3> SUFFICES ASSUME NEW i \in DOMAIN ids, NEW j \in DOMAIN ids, i < j, ids[i] = ids[j] PROVE FALSE
      BY <1>8 DEF Repeats
    <3>1. i \in 1 .. j - 1
      BY <1>11
    <3> QED BY <1>17, <2>1, <3>1
  <2>3. \A i \in DOMAIN fun(f).decs : /\ FuncVar("var", fun(f).decs[i].id) \in DOMAIN table'[f]
                                      /\ fun(f).decs[i].id \notin ParamNames(f)
    <3> SUFFICES ASSUME NEW i \in DOMAIN ids
                 PROVE  FuncVar("var", ids[i]) \in DOMAIN table'[f] /\ ids[i] \notin ParamNames(f)
      BY <1>10
    <3>1. FuncVar("var", ids[i]) \in DOMAIN table'[f]
      BY <1>12, <1>13 DEF Grown
    <3>2. ASSUME NEW place \in HeaderPlaces(f), ids[i] = NameAt(f, place) PROVE FALSE
      <4>1. FuncVar("var", ids[i]) \in DOMAIN table[f]
        BY <1>4, <1>5, <2>1, <3>2 DEF FilledHeaders, Passed
      <4> QED BY <1>17, <2>1, <4>1
    <3> QED BY <3>1, <3>2 DEF ParamNames
  <2>4. ASSUME NEW g \in Funs, ~ Owed("body", g)'
        PROVE  /\ \A i \in DOMAIN fun(g).decs :
                    /\ FuncVar("var", fun(g).decs[i].id) \in DOMAIN table'[g]
                    /\ fun(g).decs[i].id \notin ParamNames(g)
               /\ ~ Repeats(DecIds(g))
    <3>1. CASE g = f
      BY <2>2, <2>3, <3>1
    <3>2. CASE g # f
      <4>1. g \in Scopes /\ ~ Owed("body", g)
        BY <1>6, <2>4, <3>2, ProgramFacts
      <4> QED BY <1>16, <2>1, <4>1 DEF FilledBodies
    <3> QED BY <3>1, <3>2
  <2>5. /\ \A g : fun(g)' = fun(g)
        /\ \A g : ParamNames(g)' = ParamNames(g)
        /\ \A g : DecIds(g)' = DecIds(g)
    BY FixedTree, FixedNames
  <2> QED BY <2>4, <2>5 DEF FilledBodies, FuncVar
<1>21. Filled'
  <2> SUFFICES ASSUME ~ error' PROVE Filled'
    BY DEF Filled
  <2>1. FilledHeaders /\ FilledFuns /\ FilledLoops /\ FilledGlobals
    BY <1>18 DEF Filled
  <2>2. FilledHeaders' /\ FilledFuns' /\ FilledLoops' /\ FilledGlobals'
    BY <1>6, <1>7, <1>16, <2>1, FilledStays
  <2> QED BY <1>20, <2>2 DEF Filled
<1> QED BY <1>6, <1>16, <1>18, <1>19, <1>21

(* The counters meet no name that is there.                                *)
LEMMA ForLoopsStep ==
  ASSUME prog \in Programs, prog' = prog, Schedule, Tables, Filled, InitForLoops
  PROVE  Schedule' /\ Tables' /\ Filled' /\ error' = error /\ pass' = pass
<1>1. PICK f : f = Here
  OBVIOUS
<1>2. /\ agenda \in Seq(Tasks) /\ agenda # <<>> /\ Visit("loops")
      /\ Then(<<>>) /\ param' = param
  BY DEF Schedule, InitForLoops, Visit
<1>3. "header" \in Visits /\ "body" \in Visits /\ "loops" \in Visits
  BY DEF Visits
<1>4. agenda[1] = <<"loops", f>> /\ 1 \in DOMAIN agenda /\ f \in Funs
  BY <1>1, <1>2, <1>3, FirstTask
<1>5. Made("loops", f) /\ ~ Owed("header", f) /\ ~ Owed("body", f)
  BY <1>1, <1>2, AfterLoops
<1>6. /\ Schedule' /\ Started' /\ Started /\ Owed("loops", f)
      /\ \A g \in Funs : /\ Owed("header", g)' <=> Owed("header", g)
                         /\ Owed("body", g)' <=> Owed("body", g)
                         /\ Owed("loops", g)' <=> Owed("loops", g) /\ g # f
  BY <1>3, <1>5 DEF Made
<1>7. \A g \in Funs : \A place \in HeaderPlaces(g) : Passed(g, place)' <=> Passed(g, place)
  BY <1>2, <1>3, <1>4, <1>5, PassedLater
<1>8. PICK K : K = LoopKeys(f)
  OBVIOUS
<1>9. f \in Scopes
  BY <1>4, ProgramFacts
<1>10. Grown(f, K)
  <2>1. table' = [table EXCEPT ![f] = Entered(f, K, @)]
    BY <1>1, <1>8 DEF InitForLoops
  <2> QED BY <1>9, <2>1, Inserted
<1>11. K \subseteq KeysOf(f)
  BY <1>4, <1>8, <1>9, KeysFacts
<1>12. \A n : FuncVar("func", n) \notin K
  <2>1. \A k \in K : k.kind = "var"
    BY <1>4, <1>8, LoopKeysFacts
  <2> QED BY <2>1, FuncVarFacts
<1>13. ~ Owed("body", f)' /\ ~ Owed("loops", f)'
  BY <1>4, <1>5, <1>6
<1>14. Tables' /\ \A t \in Scopes : DOMAIN table[t] \subseteq DOMAIN table'[t]
  BY <1>6, <1>7, <1>9, <1>10, <1>11, <1>12, <1>13, TablesStay
<1>15. pass' = pass /\ error' = error
  <2>1. K \cap DOMAIN table[f] = {}
    BY <1>4, <1>6, <1>8 DEF Tables
  <2> QED BY <1>1, <1>8, <2>1 DEF InitForLoops
<1>16. Filled'
  <2> SUFFICES ASSUME ~ error PROVE Filled'
    BY <1>15 DEF Filled
  <2>1. FilledHeaders /\ FilledFuns /\ FilledBodies /\ FilledLoops /\ FilledGlobals
    BY DEF Filled
  <2>2. FilledHeaders' /\ FilledFuns' /\ FilledBodies' /\ FilledGlobals'
    BY <1>6, <1>7, <1>14, <2>1, FilledStays
  <2>3. FilledLoops'
    <3>1. ASSUME NEW g \in Funs, ~ Owed("loops", g)' PROVE LoopKeys(g) \subseteq DOMAIN table'[g]
      <4>1. CASE g = f
        BY <1>8, <1>10, <4>1 DEF Grown
      <4>2. CASE g # f
        BY <1>6, <1>14, <2>1, <3>1, <4>2, ProgramFacts DEF FilledLoops
      <4> QED BY <4>1, <4>2
    <3>2. \A g : LoopKeys(g)' = LoopKeys(g)
      BY FixedNames
    <3> QED BY <3>1, <3>2 DEF FilledLoops
  <2> QED BY <2>2, <2>3 DEF Filled
<1> QED BY <1>6, <1>14, <1>15, <1>16
(* Nothing is left to visit: the tables are complete, and no scope has     *)
(* declared a name twice.                                                  *)
LEMMA TablesComplete ==
  ASSUME prog \in Programs, agenda = <<>>, Tables, Filled, ~ error
  PROVE  /\ ~ Redeclares
         /\ \A s \in Scopes : /\ DOMAIN table[s] = KeysOf(s)
                              /\ \A k \in KeysOf(s) : table[s][k] = Entry(s, k)
<1>1. /\ \A w, g : ~ Owed(w, g)
      /\ Started
  BY DEF Owed, OwedBy, Started
<1>2. \A g, place : Passed(g, place)
  BY <1>1 DEF Passed
<1>3. FilledHeaders /\ FilledFuns /\ FilledBodies /\ FilledLoops /\ FilledGlobals
  BY DEF Filled
<1>4. /\ Top \notin Funs /\ Scopes = Funs \cup {Top}
      /\ \A s \in Scopes : \A i \in DOMAIN Children[s] : Children[s][i] \in Funs
      /\ \A s \in Scopes : \A i \in DOMAIN Children[s] : Parent[Children[s][i]] = s
      /\ \A f \in Funs : Parent[f] \in Scopes
  BY ProgramFacts, ParentFacts
<1>5. ASSUME NEW s \in Scopes, NEW n \in VarsOf(s) PROVE FuncVar("var", n) \in DOMAIN table[s]
  <2>1. CASE s = Top
    BY <1>1, <1>3, <1>5, <2>1 DEF VarsOf, FilledGlobals
  <2>2. CASE s # Top
    <3>1. s \in Funs /\ n \in ParamNames(s) \cup {fun(s).decs[i].id : i \in DOMAIN fun(s).decs}
      BY <1>4, <1>5, <2>2 DEF VarsOf
    <3>2. CASE n \in ParamNames(s)
      BY <1>2, <1>3, <3>1, <3>2 DEF ParamNames, FilledHeaders
    <3>3. CASE n \in {fun(s).decs[i].id : i \in DOMAIN fun(s).decs}
      BY <1>1, <1>3, <3>1, <3>3 DEF FilledBodies
    <3> QED BY <3>1, <3>2, <3>3
  <2> QED BY <2>1, <2>2
<1>6. ASSUME NEW s \in Scopes, NEW n \in FunsOf(s) PROVE FuncVar("func", n) \in DOMAIN table[s]
  <2>1. PICK i \in DOMAIN Children[s] : n = fun(Children[s][i]).id
    BY <1>6 DEF FunsOf
  <2> QED BY <1>1, <1>3, <1>4, <2>1 DEF FilledFuns
<1>7. ASSUME NEW s \in Scopes
      PROVE  /\ DOMAIN table[s] = KeysOf(s)
             /\ \A k \in KeysOf(s) : table[s][k] = Entry(s, k)
  <2>1. s # Top => LoopKeys(s) \subseteq DOMAIN table[s]
    BY <1>1, <1>3, <1>4 DEF FilledLoops
  <2>2. KeysOf(s) \subseteq DOMAIN table[s]
    BY <1>5, <1>6, <2>1 DEF KeysOf
  <2>3. \A k \in DOMAIN table[s] : k \in KeysOf(s) /\ table[s][k] = Entry(s, k)
    BY DEF Tables
  <2> QED BY <2>2, <2>3
<1>8. ~ Repeats(prog.globals)
  BY <1>1, <1>3 DEF FilledGlobals
<1>9. \A s \in Scopes : ~ Repeats(FunIds(s))
  <2> SUFFICES ASSUME NEW s \in Scopes, Repeats(FunIds(s)) PROVE FALSE
    OBVIOUS
  <2>1. PICK f, g \in Funs : f # g /\ Parent[f] = s /\ Parent[g] = s /\ fun(f).id = fun(g).id
    BY SameIds
  <2> QED BY <1>1, <1>3, <2>1 DEF FilledFuns
<1>10. \A f \in Funs : ~ RepeatsInHeader(f)
  BY <1>2, <1>3 DEF FilledHeaders, RepeatsInHeader
<1>11. \A f \in Funs : /\ ~ Repeats(DecIds(f))
                       /\ \A i \in DOMAIN fun(f).decs : fun(f).decs[i].id \notin ParamNames(f)
  BY <1>1, <1>3 DEF FilledBodies
<1>12. ~ Redeclares
  BY <1>8, <1>9, <1>10, <1>11 DEF Redeclares
<1> QED BY <1>7, <1>12

(***************************************************************************)
(* The passes after InitSymtables.                                         *)
(***************************************************************************)
(* A lookup in complete tables, and one in re-keyed tables.                *)
LEMMA CompleteLookup ==
  ASSUME prog \in Programs, NEW s \in Scopes, NEW key,
         \A t \in Scopes : /\ DOMAIN table[t] = KeysOf(t)
                           /\ \A k \in KeysOf(t) : table[t][k] = Entry(t, k)
  PROVE  symtable_lookup(s, key) = Found(s, key)
<1> DEFINE hits == {t \in Enclosing(s) : key \in DOMAIN table[t]}
           same == {t \in Enclosing(s) : key \in KeysOf(t)}
<1>1. Enclosing(s) \subseteq Scopes
  BY EnclosingSteps
<1>2. hits = same
  BY <1>1
<1>3. /\ symtable_lookup(s, key) = IF hits = {} THEN None ELSE table[Innermost(hits)][key]
      /\ Found(s, key) = IF same = {} THEN None ELSE Entry(Innermost(same), key)
  BY DEF symtable_lookup, Found
<1>4. same # {} => table[Innermost(same)][key] = Entry(Innermost(same), key)
  <2>1. same # {} => Innermost(same) \in same
    BY InnermostFacts
  <2> QED BY <1>1, <2>1
<1> HIDE DEF hits, same
<1> QED BY <1>2, <1>3, <1>4

LEMMA LookupFromFacts ==
  ASSUME prog \in Programs, NEW f \in Funs, NEW u
  PROVE  /\ LookupFrom(f, u) \in Scopes
         /\ Enclosing(LookupFrom(f, u)) \subseteq Enclosing(f)
<1>1. f \in Scopes /\ Parent[f] \in Scopes /\ Enclosing(Parent[f]) \subseteq Enclosing(f)
  BY ProgramFacts, ParentFacts, EnclosingSteps
<1>2. LookupFrom(f, u) = f \/ LookupFrom(f, u) = Parent[f]
  BY DEF LookupFrom
<1> QED BY <1>1, <1>2

LEMMA RekeyedLookup ==
  ASSUME prog \in Programs, NEW f \in Funs, NEW u,
         \A t \in Scopes : /\ DOMAIN table[t] = {Mangled(k, Entry(t, k)) : k \in KeysOf(t)}
                           /\ \A m \in DOMAIN table[t] : table[t][m] = m.entry
  PROVE  symtable_lookup(f, Mangled(PrimaryName(f, u), Bound(f, u))) = Bound(f, u)
<1> DEFINE key  == PrimaryName(f, u)
           b    == Bound(f, u)
           m    == Mangled(key, b)
           hits == {t \in Enclosing(f) : m \in DOMAIN table[t]}
<1>1. f \in Scopes /\ Enclosing(f) \subseteq Scopes
  BY ProgramFacts, EnclosingSteps
<1>2. /\ LookupFrom(f, u) \in Scopes
      /\ Enclosing(LookupFrom(f, u)) \subseteq Enclosing(f)
  BY LookupFromFacts
<1>3. b = Found(LookupFrom(f, u), key)
  BY DEF Bound
<1>4. \A t \in Scopes : m \in DOMAIN table[t] <=> key \in KeysOf(t) /\ b = Entry(t, key)
  <2> SUFFICES ASSUME NEW t \in Scopes
               PROVE  m \in DOMAIN table[t] <=> key \in KeysOf(t) /\ b = Entry(t, key)
    OBVIOUS
  <2> HIDE DEF key, b
  <2>1. m \in DOMAIN table[t] <=> \E k \in KeysOf(t) : m = Mangled(k, Entry(t, k))
    BY DEF m
  <2>2. \A k, e : Mangled(key, b) = Mangled(k, e) => key = k /\ b = e
    BY FuncVarFacts
  <2> QED BY <2>1, <2>2
<1>5. symtable_lookup(f, m) = IF hits = {} THEN None ELSE table[Innermost(hits)][m]
  BY DEF symtable_lookup
<1>6. CASE b = None
  <2>1. \A t \in Scopes : key \in KeysOf(t) => Entry(t, key) # None
    <3> SUFFICES ASSUME NEW t \in Scopes, key \in KeysOf(t) PROVE Entry(t, key) # None
      OBVIOUS
    <3> HIDE DEF key
    <3>1. key \in Keys
      BY KeysFacts
    <3>2. Entry(t, key) \in [scope : Scopes, name : Keys]
      BY <3>1 DEF Entry
    <3> QED BY <3>2, ScopesAssumption
  <2> HIDE DEF key, b, m
  <2>2. hits = {}
    BY <1>1, <1>4, <1>6, <2>1
  <2> QED BY <1>5, <1>6, <2>2 DEF m, key, b
<1>7. CASE b # None
  <2>1. PICK h \in Enclosing(LookupFrom(f, u)) : key \in KeysOf(h) /\ b = Entry(h, key)
    <3> HIDE DEF key, b
    <3> QED BY <1>2, <1>3, <1>7, FoundFacts
  <2>2. h \in Enclosing(f) /\ h \in Scopes
    BY <1>1, <1>2, <2>1
  <2>3. \A t \in Scopes : b = Entry(t, key) => t = h
    <3> HIDE DEF key, b
    <3> QED BY <2>1, FuncVarFacts
  <2>4. m.entry = b
    BY FuncVarFacts
  <2> HIDE DEF key, b, m
  <2>5. hits = {h}
    BY <1>1, <1>4, <2>1, <2>2, <2>3
  <2>6. Innermost(hits) = h
    <3>1. {h} \in SUBSET Enclosing(f) /\ {h} # {}
      BY <2>2
    <3>2. Innermost({h}) \in {h}
      BY <1>1, <3>1, InnermostFacts
    <3> HIDE DEF hits
    <3> QED BY <2>5, <3>2
  <2>7. m \in DOMAIN table[h]
    BY <1>4, <2>1, <2>2
  <2>8. table[h][m] = b
    BY <2>2, <2>4, <2>7
  <2> HIDE DEF hits
  <2> QED BY <1>5, <2>5, <2>6, <2>8 DEF m, key, b
<1> QED BY <1>6, <1>7
(* The agendas of the later passes.                                        *)
LEMMA EachOf ==
  ASSUME prog \in Programs, NEW what, NEW s \in Scopes
  PROVE  /\ Each(what, s) \in Seq({what} \X Funs)
         /\ \A f \in Funs : s \in Enclosing(f) /\ s # f =>
              \E i \in DOMAIN Each(what, s) : Each(what, s)[i][2] \in Enclosing(f)
<1>1. /\ Children[s] \in Seq(Funs) /\ \A i \in DOMAIN Children[s] : Children[s][i] \in Funs
  BY ProgramFacts
<1>2. /\ DOMAIN Each(what, s) = DOMAIN Children[s]
      /\ \A i \in DOMAIN Children[s] : Each(what, s)[i] = <<what, Children[s][i]>>
  BY DEF Each
<1>3. Each(what, s) \in Seq({what} \X Funs)
  <2>1. \A i \in DOMAIN Children[s] : <<what, Children[s][i]>> \in {what} \X Funs
    BY <1>1
  <2>2. DOMAIN Children[s] = 1 .. Len(Children[s]) /\ Len(Children[s]) \in Nat
    BY <1>1, Elements
  <2> QED BY <2>1, <2>2 DEF Each
<1>4. ASSUME NEW f \in Funs, s \in Enclosing(f), s # f
      PROVE  \E i \in DOMAIN Each(what, s) : Each(what, s)[i][2] \in Enclosing(f)
  <2>1. PICK i \in DOMAIN Children[s] : Children[s][i] \in Enclosing(f)
    BY <1>4, ChildOnTheWay
  <2>2. i \in DOMAIN Each(what, s) /\ Each(what, s)[i][2] = Children[s][i]
    BY <1>2
  <2> QED BY <2>1, <2>2
<1> QED BY <1>3, <1>4

LEMMA AllListed ==
  ASSUME prog \in Programs, prog' = prog, NEW what, agenda' = Each(what, Top)
  PROVE  agenda' \in Seq({what} \X Funs) /\ \A f \in Funs : Listed(f)'
<1>1. PICK next : next = Each(what, Top)
  OBVIOUS
<1>2. Top \in Scopes /\ \A f \in Funs : Top \in Enclosing(f) /\ Top # f
  BY ProgramFacts, EnclosingOrder
<1>3. /\ next \in Seq({what} \X Funs)
      /\ \A f \in Funs : \E i \in DOMAIN next : next[i][2] \in Enclosing(f)
  BY <1>1, <1>2, EachOf
<1>4. agenda' = next /\ \A f : Enclosing(f)' = Enclosing(f)
  BY <1>1, FixedTree
<1> QED BY <1>3, <1>4 DEF Listed

(* A function that has been visited is not listed any more, all the others *)
(* still are.                                                              *)
LEMMA StillListed ==
  ASSUME prog \in Programs, prog' = prog, NEW what, agenda \in Seq({what} \X Funs), agenda # <<>>,
         Then(Each(what, Here))
  PROVE  /\ Here \in Funs /\ agenda' \in Seq({what} \X Funs)
         /\ \A f \in Funs : Listed(f) => f = Here \/ Listed(f)'
<1>1. PICK h : h = Here
  OBVIOUS
<1>2. PICK each : each = Each(what, h)
  OBVIOUS
<1>3. PICK seq : seq = agenda
  OBVIOUS
<1>4. PICK next : agenda' = next /\ next = each \o Tail(seq)
  BY <1>1, <1>2, <1>3 DEF Then
<1>5. /\ seq \in Seq({what} \X Funs) /\ seq # <<>> /\ Head(seq)[2] = h
  BY <1>1, <1>3 DEF Here
<1>6. Head(seq) = seq[1] /\ seq[1] \in {what} \X Funs /\ 1 \in DOMAIN seq
  <2>1. Head(seq) = seq[1] /\ 1 \in DOMAIN seq
    BY <1>5, EmptySeq
  <2> QED BY <1>5, <2>1, Elements
<1>7. h \in Funs /\ h \in Scopes /\ seq[1][2] = h
  BY <1>5, <1>6, ProgramFacts
<1>8. /\ each \in Seq({what} \X Funs)
      /\ \A f \in Funs : h \in Enclosing(f) /\ h # f =>
           \E i \in DOMAIN each : each[i][2] \in Enclosing(f)
  BY <1>2, <1>7, EachOf
<1>9. /\ next \in Seq({what} \X Funs)
      /\ DOMAIN next = 1 .. Len(each) + Len(seq) - 1
      /\ DOMAIN each = 1 .. Len(each) /\ Len(each) \in Nat
      /\ DOMAIN seq = 1 .. Len(seq) /\ Len(seq) \in Nat
      /\ \A i \in 1 .. Len(each) : next[i] = each[i]
      /\ \A i \in 2 .. Len(seq) : next[i + Len(each) - 1] = seq[i]
  BY <1>4, <1>5, <1>8, ReplacedFirst
<1>10. ASSUME NEW f \in Funs, NEW i \in DOMAIN seq, seq[i][2] \in Enclosing(f), f # h
       PROVE  \E j \in DOMAIN next : next[j][2] \in Enclosing(f)
  <2>1. CASE i = 1
    <3>1. PICK j \in DOMAIN each : each[j][2] \in Enclosing(f)
      BY <1>7, <1>8, <1>10, <2>1
    <3>2. j \in DOMAIN next /\ next[j] = each[j]
      BY <1>6, <1>9
    <3> QED BY <3>1, <3>2
  <2>2. CASE i # 1
    <3>1. /\ i \in 2 .. Len(seq) /\ i + Len(each) - 1 \in DOMAIN next
      BY <1>9, <2>2
    <3>2. next[i + Len(each) - 1] = seq[i]
      BY <1>9, <3>1
    <3> QED BY <1>10, <3>1, <3>2
  <2> QED BY <2>1, <2>2
<1>11. \A f : Enclosing(f)' = Enclosing(f)
  BY FixedTree
<1>12. \A f \in Funs : Listed(f) => f = h \/ Listed(f)'
  <2> SUFFICES ASSUME NEW f \in Funs, Listed(f), f # h PROVE Listed(f)'
    OBVIOUS
  <2>1. PICK i \in DOMAIN seq : seq[i][2] \in Enclosing(f)
    BY <1>3 DEF Listed
  <2>2. \E j \in DOMAIN next : next[j][2] \in Enclosing(f)
    BY <1>10, <2>1
  <2> QED BY <1>4, <1>11, <2>2 DEF Listed
<1> QED BY <1>1, <1>4, <1>7, <1>9, <1>12

(***************************************************************************)
(* The inductive invariant.                                                *)
(***************************************************************************)
IInv == Outcome /\ Filling /\ Complete /\ Rekeyed /\ Checked

LEMMA Initially == Init => IInv
<1> SUFFICES ASSUME Init PROVE IInv
  OBVIOUS
<1>1. /\ prog \in Programs /\ pass = "InitSymtables" /\ agenda = <<<<"program", Top>>>> /\ param = 1
      /\ table = [s \in Scopes |-> <<>>] /\ name = [u \in AllUses |-> None] /\ error = FALSE
  BY DEF Init
<1>2. /\ agenda \in Seq(Tasks) /\ DOMAIN agenda = {1} /\ agenda[1] = <<"program", Top>>
      /\ agenda # <<>>
  <2>1. <<"program", Top>> \in Tasks
    BY DEF Tasks
  <2> QED BY <1>1, <2>1
<1>3. \A w, g : Owes(agenda[1], w, g)
  BY <1>2 DEF Owes
<1>4. (\A w, g : Owed(w, g)) /\ ~ Started
  BY <1>2, <1>3 DEF Owed, OwedBy, Started
<1>5. \A g, place : ~ Passed(g, place)
  BY <1>2, <1>4 DEF Passed
<1>6. Schedule
  <2>1. Apart(agenda)
    BY <1>2 DEF Apart
  <2> QED BY <1>1, <1>2, <2>1 DEF Schedule
<1>7. Tables
  <2>1. /\ table = [s \in Scopes |-> table[s]]
        /\ \A s \in Scopes : DOMAIN table[s] = {}
    BY <1>1
  <2>2. Funs \subseteq Scopes /\ Top \in Scopes
    BY <1>1, ProgramFacts
  <2> QED BY <2>1, <2>2 DEF Tables
<1>8. FilledHeaders /\ FilledFuns /\ FilledBodies /\ FilledLoops /\ FilledGlobals
  BY <1>4, <1>5 DEF FilledHeaders, FilledFuns, FilledBodies, FilledLoops, FilledGlobals
<1>9. Filling
  BY <1>1, <1>6, <1>7, <1>8 DEF Filling, Filled
<1>10. Outcome
  BY <1>1 DEF Outcome
<1>11. Complete /\ Rekeyed /\ Checked
  BY <1>1 DEF Complete, Rekeyed, Checked
<1> QED BY <1>9, <1>10, <1>11 DEF IInv

(* Nothing happens.                                                        *)
LEMMA Stutters ==
  ASSUME IInv, UNCHANGED vars
  PROVE  IInv'
<1>1. /\ prog' = prog /\ pass' = pass /\ agenda' = agenda /\ param' = param /\ table' = table
      /\ name' = name /\ error' = error
  BY DEF vars
<1>2. PICK next : next = agenda
  OBVIOUS
<1>3. /\ \A w, g : OwedBy(next, w, g)' = OwedBy(next, w, g)
      /\ Apart(next)' = Apart(next)
      /\ Parent' = Parent
      /\ \A f : fun(f)' = fun(f)
      /\ \A s : Enclosing(s)' = Enclosing(s)
  BY <1>1, FixedTree
<1>4. /\ \A f : HeaderPlaces(f)' = HeaderPlaces(f)
      /\ \A f, place : NameAt(f, place)' = NameAt(f, place)
      /\ \A f : ParamNames(f)' = ParamNames(f)
      /\ \A f : DecIds(f)' = DecIds(f)
      /\ \A f : LoopKeys(f)' = LoopKeys(f)
      /\ \A s : KeysOf(s)' = KeysOf(s)
  BY <1>1, FixedNames
<1>5. /\ AllUses' = AllUses
      /\ \A f, u : PrimaryName(f, u)' = PrimaryName(f, u)
      /\ \A f, u : Bound(f, u)' = Bound(f, u)
      /\ Redeclares' = Redeclares /\ HeadersRepeat' = HeadersRepeat
  BY <1>1, FixedUses
<1>6. /\ \A w, g : Owed(w, g)' = Owed(w, g)
      /\ Started' = Started
      /\ \A f : Listed(f)' = Listed(f)
  BY <1>1, <1>2, <1>3 DEF Owed, Started, Listed
<1>7. \A g, place : Passed(g, place)' = Passed(g, place)
  BY <1>1, <1>6 DEF Passed
<1>8. Schedule => Schedule'
  BY <1>1, <1>2, <1>3 DEF Schedule, Tasks
<1>9. Tables => Tables'
  <2> SUFFICES ASSUME Tables PROVE Tables'
    OBVIOUS
  <2>1. \A s \in Scopes : \A k \in DOMAIN table'[s] : k \in KeysOf(s)' /\ table'[s][k] = Entry(s, k)
    BY <1>1, <1>4 DEF Tables
  <2>2. \A s \in Scopes, n \in Names : FuncVar("func", n) \in DOMAIN table'[s] =>
          \E g \in Funs : Parent'[g] = s /\ fun(g)'.id = n /\ ~ Owed("header", g)'
    BY <1>1, <1>3, <1>6 DEF Tables
  <2>3. \A g \in Funs : Owed("loops", g)' => DOMAIN table'[g] \cap LoopKeys(g)' = {}
    BY <1>1, <1>4, <1>6 DEF Tables
  <2>4. \A g \in Funs : Owed("body", g)' =>
          \A k \in DOMAIN table'[g] :
            \E place \in HeaderPlaces(g)' : Passed(g, place)' /\ k = FuncVar("var", NameAt(g, place)')
    BY <1>1, <1>4, <1>6, <1>7 DEF Tables
  <2>5. table' = [s \in Scopes |-> table'[s]] /\ (~ Started' => DOMAIN table'[Top] = {})
    BY <1>1, <1>6 DEF Tables
  <2> QED BY <2>1, <2>2, <2>3, <2>4, <2>5 DEF Tables, FuncVar, Entry
<1>10. Filled => Filled'
  <2>1. /\ FilledHeaders => FilledHeaders'
        /\ FilledLoops => FilledLoops'
    BY <1>1, <1>4, <1>6, <1>7 DEF FilledHeaders, FilledLoops, FuncVar
  <2>2. /\ FilledFuns => FilledFuns'
        /\ FilledGlobals => FilledGlobals'
    BY <1>1, <1>3, <1>6 DEF FilledFuns, FilledGlobals, FuncVar
  <2>3. FilledBodies => FilledBodies'
    BY <1>1, <1>3, <1>4, <1>6 DEF FilledBodies, FuncVar
  <2> QED BY <1>1, <2>1, <2>2, <2>3 DEF Filled
<1>11. Filling'
  BY <1>1, <1>5, <1>8, <1>9, <1>10 DEF IInv, Filling
<1>12. Outcome'
  BY <1>1, <1>5 DEF IInv, Outcome
<1>13. Complete'
  BY <1>1, <1>4, <1>5, <1>6 DEF IInv, Complete, Entry, Mangled
<1>14. Rekeyed'
  BY <1>1, <1>4, <1>5 DEF IInv, Rekeyed, Entry, Mangled
<1>15. Checked'
  BY <1>1, <1>5, <1>6 DEF IInv, Checked
<1> QED BY <1>11, <1>12, <1>13, <1>14, <1>15 DEF IInv
(* The visits of InitSymtables: what the lemmas above say of each.         *)
LEMMA FillingStep ==
  ASSUME IInv, pass = "InitSymtables",
         InitProgram \/ InitParam \/ InitFunHeader \/ InitFunBody \/ InitForLoops
  PROVE  IInv'
<1>1. /\ prog \in Programs /\ Schedule /\ Tables /\ Filled /\ (error => Redeclares)
      /\ name = [v \in AllUses |-> name[v]]
  BY DEF IInv, Outcome, Filling
<1>2. prog' = prog /\ name' = name
  BY DEF InitProgram, InitParam, InitFunHeader, InitFunBody, InitForLoops
<1>3. /\ Schedule' /\ Tables' /\ (pass' = "InitSymtables" => Filled')
      /\ error' => Redeclares
      /\ pass' \in {"InitSymtables", "assertion failed"}
      /\ pass' = "assertion failed" => HeadersRepeat
  <2>1. CASE InitProgram
    <3>1. Schedule' /\ Tables' /\ Filled' /\ (error' => Redeclares)
      BY <1>1, <1>2, <2>1, ProgramStep
    <3>2. pass' = pass
      BY <2>1 DEF InitProgram
    <3> QED BY <3>1, <3>2
  <2>2. CASE InitParam
    BY <1>1, <1>2, <2>2, ParamStep
  <2>3. CASE InitFunHeader
    BY <1>1, <1>2, <2>3, FunHeaderStep
  <2>4. CASE InitFunBody
    <3>1. pass' = pass
      BY <2>4 DEF InitFunBody
    <3> QED BY <1>1, <1>2, <2>4, <3>1, FunBodyStep
  <2>5. CASE InitForLoops
    BY <1>1, <1>2, <2>5, ForLoopsStep
  <2> QED BY <2>1, <2>2, <2>3, <2>4, <2>5
<1>4. /\ AllUses' = AllUses /\ Redeclares' = Redeclares /\ HeadersRepeat' = HeadersRepeat
  BY <1>2, FixedUses
<1>5. Filling'
  BY <1>3, <1>4 DEF Filling
<1>6. Outcome'
  BY <1>1, <1>2, <1>3, <1>4 DEF Outcome
<1>7. Complete' /\ Rekeyed' /\ Checked'
  BY <1>3 DEF Complete, Rekeyed, Checked
<1> QED BY <1>5, <1>6, <1>7 DEF IInv

LEMMA FillingDone == ASSUME IInv, InitSymtablesDone PROVE IInv'
<1>1. /\ prog \in Programs /\ Schedule /\ Tables /\ Filled /\ (error => Redeclares)
      /\ pass = "InitSymtables" /\ agenda = <<>> /\ name = [v \in AllUses |-> name[v]]
      /\ prog' = prog /\ table' = table /\ name' = name /\ error' = error
  BY DEF IInv, Outcome, Filling, InitSymtablesDone
<1>2. /\ AllUses' = AllUses /\ Redeclares' = Redeclares
      /\ \A f, u : PrimaryName(f, u)' = PrimaryName(f, u)
      /\ \A f, u : Bound(f, u)' = Bound(f, u)
      /\ \A s : KeysOf(s)' = KeysOf(s)
  BY <1>1, FixedUses, FixedNames
<1>3. CASE error /\ pass' = "rejected"
  <2>1. Outcome'
    BY <1>1, <1>2, <1>3 DEF Outcome
  <2>2. Filling' /\ Complete' /\ Rekeyed' /\ Checked'
    BY <1>3 DEF Filling, Complete, Rekeyed, Checked
  <2> QED BY <2>1, <2>2 DEF IInv
<1>4. CASE ~ error /\ pass' = "SymtableMangling" /\ agenda' = Each("ids", Top)
  <2>1. /\ ~ Redeclares
        /\ \A s \in Scopes : /\ DOMAIN table[s] = KeysOf(s)
                             /\ \A k \in KeysOf(s) : table[s][k] = Entry(s, k)
    BY <1>1, <1>4, TablesComplete
  <2>2. agenda' \in Seq({"ids"} \X Funs) /\ \A f \in Funs : Listed(f)'
    BY <1>1, <1>4, AllListed
  <2>3. \A v \in AllUses : v[1] \in Funs
    BY DEF AllUses
  <2>4. DOMAIN name = AllUses
    BY <1>1
  <2>5. ~ error'
    BY <1>1, <1>4
  <2>6. Complete'
    BY <1>1, <1>2, <1>4, <2>1, <2>2, <2>3, <2>4, <2>5 DEF Complete, Entry, Mangled
  <2>7. Outcome'
    BY <1>1, <1>2, <1>4, <2>1 DEF Outcome
  <2>8. Filling' /\ Rekeyed' /\ Checked'
    BY <1>4 DEF Filling, Rekeyed, Checked
  <2> QED BY <2>6, <2>7, <2>8 DEF IInv
<1> QED BY <1>3, <1>4 DEF InitSymtablesDone
LEMMA ManglingIdsStep == ASSUME IInv, ManglingIds PROVE IInv'
<1>1. /\ prog \in Programs /\ pass = "SymtableMangling" /\ ~ Redeclares
      /\ \A s \in Scopes : /\ DOMAIN table[s] = KeysOf(s)
                           /\ \A k \in KeysOf(s) : table[s][k] = Entry(s, k)
      /\ DOMAIN name = AllUses /\ name = [v \in AllUses |-> name[v]]
      /\ \A v \in AllUses : Listed(v[1]) \/ name[v] = Mangled(PrimaryName(v[1], v[2]), Bound(v[1], v[2]))
      /\ agenda \in Seq({"ids"} \X Funs) /\ agenda # <<>> /\ ~ error
      /\ prog' = prog /\ pass' = pass /\ table' = table /\ error' = error
      /\ Then(Each("ids", Here))
  BY DEF IInv, Outcome, Complete, ManglingIds, Visit
<1>2. /\ AllUses' = AllUses /\ Redeclares' = Redeclares
      /\ \A f, u : PrimaryName(f, u)' = PrimaryName(f, u)
      /\ \A f, u : Bound(f, u)' = Bound(f, u)
      /\ \A s : KeysOf(s)' = KeysOf(s)
  BY <1>1, FixedUses, FixedNames
<1>3. PICK h : h = Here
  OBVIOUS
<1>4. /\ h \in Funs /\ agenda' \in Seq({"ids"} \X Funs)
      /\ \A f \in Funs : Listed(f) => f = h \/ Listed(f)'
  BY <1>1, <1>3, StillListed
<1>5. \A v \in AllUses : v[1] \in Funs
  BY DEF AllUses
<1>6. /\ name' = [v \in AllUses |-> name'[v]]
      /\ \A v \in AllUses : name'[v] = IF v[1] # h THEN name[v]
           ELSE Mangled(PrimaryName(h, v[2]), symtable_lookup(LookupFrom(h, v[2]), PrimaryName(h, v[2])))
  BY <1>1, <1>3 DEF ManglingIds
<1>7. ASSUME NEW v \in AllUses, v[1] = h
      PROVE  name'[v] = Mangled(PrimaryName(v[1], v[2]), Bound(v[1], v[2]))
  <2>1. LookupFrom(h, v[2]) \in Scopes
    BY <1>1, <1>4, LookupFromFacts
  <2>2. symtable_lookup(LookupFrom(h, v[2]), PrimaryName(h, v[2])) = Bound(h, v[2])
    BY <1>1, <2>1, CompleteLookup DEF Bound
  <2> QED BY <1>6, <1>7, <2>2
<1>8. \A v \in AllUses :
         Listed(v[1])' \/ name'[v] = Mangled(PrimaryName(v[1], v[2]), Bound(v[1], v[2]))
  <2> SUFFICES ASSUME NEW v \in AllUses, ~ Listed(v[1])'
               PROVE  name'[v] = Mangled(PrimaryName(v[1], v[2]), Bound(v[1], v[2]))
    OBVIOUS
  <2>1. CASE v[1] = h
    BY <1>7, <2>1
  <2>2. CASE v[1] # h
    <3>1. ~ Listed(v[1])
      BY <1>4, <1>5, <2>2
    <3> QED BY <1>1, <1>6, <2>2, <3>1
  <2> QED BY <2>1, <2>2
<1>9. DOMAIN name' = AllUses
  BY <1>6
<1>10. Complete'
  BY <1>1, <1>2, <1>4, <1>8, <1>9 DEF Complete, Entry, Mangled
<1>11. Outcome'
  BY <1>1, <1>2, <1>6 DEF Outcome
<1>12. Filling' /\ Rekeyed' /\ Checked'
  BY <1>1 DEF Filling, Rekeyed, Checked
<1> QED BY <1>10, <1>11, <1>12 DEF IInv

LEMMA ManglingTabsStep == ASSUME IInv, ManglingTabs PROVE IInv'
<1>1. /\ prog \in Programs /\ pass = "SymtableMangling" /\ ~ Redeclares
      /\ \A s \in Scopes : /\ DOMAIN table[s] = KeysOf(s)
                           /\ \A k \in KeysOf(s) : table[s][k] = Entry(s, k)
      /\ \A v \in AllUses : Listed(v[1]) \/ name[v] = Mangled(PrimaryName(v[1], v[2]), Bound(v[1], v[2]))
      /\ agenda = <<>> /\ ~ error
      /\ prog' = prog /\ pass' = "CheckIdentifiers" /\ name' = name /\ error' = error
      /\ agenda' = Each("check", Top)
  BY DEF IInv, Outcome, Complete, ManglingTabs
<1>2. /\ AllUses' = AllUses /\ Redeclares' = Redeclares
      /\ \A f, u : PrimaryName(f, u)' = PrimaryName(f, u)
      /\ \A f, u : Bound(f, u)' = Bound(f, u)
      /\ \A s : KeysOf(s)' = KeysOf(s)
  BY <1>1, FixedUses, FixedNames
<1>3. \A f : ~ Listed(f)
  BY <1>1 DEF Listed
<1>4. agenda' \in Seq({"check"} \X Funs) /\ \A f \in Funs : Listed(f)'
  BY <1>1, AllListed
<1>5. \A v \in AllUses : v[1] \in Funs
  BY DEF AllUses
<1>6. ASSUME NEW s \in Scopes
      PROVE  /\ DOMAIN table'[s] = {Mangled(k, Entry(s, k)) : k \in KeysOf(s)}
             /\ \A m \in DOMAIN table'[s] : table'[s][m] = m.entry
  <2>1. table'[s] = [m \in {Mangled(k, table[s][k]) : k \in DOMAIN table[s]} |-> m.entry]
    BY DEF ManglingTabs
  <2>2. {Mangled(k, table[s][k]) : k \in DOMAIN table[s]} = {Mangled(k, Entry(s, k)) : k \in KeysOf(s)}
    BY <1>1
  <2> QED BY <2>1, <2>2
<1>7. Rekeyed'
  BY <1>1, <1>2, <1>3, <1>6 DEF Rekeyed, Entry, Mangled
<1>8. Checked'
  BY <1>1, <1>2, <1>4, <1>5 DEF Checked
<1>9. Outcome'
  BY <1>1, <1>2 DEF Outcome
<1>10. Filling' /\ Complete'
  BY <1>1 DEF Filling, Complete
<1> QED BY <1>7, <1>8, <1>9, <1>10 DEF IInv

LEMMA CheckFunDefStep == ASSUME IInv, CheckFunDef PROVE IInv'
<1>1. /\ prog \in Programs /\ pass = "CheckIdentifiers" /\ ~ Redeclares
      /\ \A s \in Scopes : /\ DOMAIN table[s] = {Mangled(k, Entry(s, k)) : k \in KeysOf(s)}
                           /\ \A m \in DOMAIN table[s] : table[s][m] = m.entry
      /\ \A v \in AllUses : name[v] = Mangled(PrimaryName(v[1], v[2]), Bound(v[1], v[2]))
      /\ ~ error => \A v \in AllUses : Listed(v[1]) \/ Bound(v[1], v[2]) # None
      /\ error => \E v \in AllUses : Bound(v[1], v[2]) = None
      /\ agenda \in Seq({"check"} \X Funs) /\ agenda # <<>>
      /\ prog' = prog /\ pass' = pass /\ table' = table /\ name' = name
      /\ Then(Each("check", Here))
  BY DEF IInv, Outcome, Rekeyed, Checked, CheckFunDef, Visit
<1>2. /\ AllUses' = AllUses /\ Redeclares' = Redeclares
      /\ \A f, u : PrimaryName(f, u)' = PrimaryName(f, u)
      /\ \A f, u : Bound(f, u)' = Bound(f, u)
      /\ \A s : KeysOf(s)' = KeysOf(s)
  BY <1>1, FixedUses, FixedNames
<1>3. PICK h : h = Here
  OBVIOUS
<1>4. /\ h \in Funs /\ agenda' \in Seq({"check"} \X Funs)
      /\ \A f \in Funs : Listed(f) => f = h \/ Listed(f)'
  BY <1>1, <1>3, StillListed
<1>5. \A v \in AllUses : v[1] \in Funs /\ v[2] \in Uses(v[1]) /\ v = <<v[1], v[2]>>
  <2> SUFFICES ASSUME NEW v \in AllUses
               PROVE  v[1] \in Funs /\ v[2] \in Uses(v[1]) /\ v = <<v[1], v[2]>>
    OBVIOUS
  <2>1. PICK f \in Funs : v \in {f} \X Uses(f)
    BY DEF AllUses
  <2> QED BY <2>1
<1>6. \A u \in Uses(h) : /\ <<h, u>> \in AllUses
                         /\ symtable_isdefined(h, name[<<h, u>>]) <=> Bound(h, u) # None
  <2> SUFFICES ASSUME NEW u \in Uses(h)
               PROVE  /\ <<h, u>> \in AllUses
                      /\ symtable_isdefined(h, name[<<h, u>>]) <=> Bound(h, u) # None
    OBVIOUS
  <2>1. <<h, u>> \in AllUses
    BY <1>4 DEF AllUses
  <2>2. name[<<h, u>>] = Mangled(PrimaryName(h, u), Bound(h, u))
    BY <1>1, <2>1
  <2>3. symtable_lookup(h, Mangled(PrimaryName(h, u), Bound(h, u))) = Bound(h, u)
    BY <1>1, <1>4, RekeyedLookup
  <2> QED BY <2>1, <2>2, <2>3 DEF symtable_isdefined
<1>7. error' = (error \/ \E u \in Uses(h) : Bound(h, u) = None)
  <2>1. error' = (error \/ \E u \in Uses(h) : ~ symtable_isdefined(h, name[<<h, u>>]))
    BY <1>3 DEF CheckFunDef
  <2> QED BY <1>6, <2>1
<1>8. error' => \E v \in AllUses : Bound(v[1], v[2]) = None
  <2> SUFFICES ASSUME NEW u \in Uses(h), Bound(h, u) = None
               PROVE  \E v \in AllUses : Bound(v[1], v[2]) = None
    BY <1>1, <1>7
  <2>1. <<h, u>> \in AllUses /\ <<h, u>>[1] = h /\ <<h, u>>[2] = u
    BY <1>6
  <2> QED BY <2>1
<1>9. ~ error' => \A v \in AllUses : Listed(v[1])' \/ Bound(v[1], v[2]) # None
  <2> SUFFICES ASSUME ~ error', NEW v \in AllUses, ~ Listed(v[1])' PROVE Bound(v[1], v[2]) # None
    OBVIOUS
  <2>1. CASE v[1] = h
    BY <1>5, <1>7, <2>1
  <2>2. CASE v[1] # h
    <3>1. ~ Listed(v[1]) /\ ~ error
      BY <1>4, <1>5, <1>7, <2>2
    <3> QED BY <1>1, <3>1
  <2> QED BY <2>1, <2>2
<1>10. Checked'
  BY <1>1, <1>2, <1>4, <1>8, <1>9 DEF Checked
<1>11. Rekeyed'
  BY <1>1, <1>2 DEF Rekeyed, Entry, Mangled
<1>12. Outcome'
  BY <1>1, <1>2 DEF Outcome
<1>13. Filling' /\ Complete'
  BY <1>1 DEF Filling, Complete
<1> QED BY <1>10, <1>11, <1>12, <1>13 DEF IInv

LEMMA CheckDoneStep == ASSUME IInv, CheckDone PROVE IInv'
<1>1. /\ prog \in Programs /\ pass = "CheckIdentifiers" /\ ~ Redeclares
      /\ \A s \in Scopes : /\ DOMAIN table[s] = {Mangled(k, Entry(s, k)) : k \in KeysOf(s)}
                           /\ \A m \in DOMAIN table[s] : table[s][m] = m.entry
      /\ \A v \in AllUses : name[v] = Mangled(PrimaryName(v[1], v[2]), Bound(v[1], v[2]))
      /\ ~ error => \A v \in AllUses : Listed(v[1]) \/ Bound(v[1], v[2]) # None
      /\ error => \E v \in AllUses : Bound(v[1], v[2]) = None
      /\ agenda = <<>> /\ prog' = prog /\ table' = table /\ name' = name
      /\ pass' = IF error THEN "rejected" ELSE "accepted"
  BY DEF IInv, Outcome, Rekeyed, Checked, CheckDone
<1>2. /\ AllUses' = AllUses /\ Redeclares' = Redeclares
      /\ \A f, u : PrimaryName(f, u)' = PrimaryName(f, u)
      /\ \A f, u : Bound(f, u)' = Bound(f, u)
      /\ \A s : KeysOf(s)' = KeysOf(s)
  BY <1>1, FixedUses, FixedNames
<1>3. \A f : ~ Listed(f)
  BY <1>1 DEF Listed
<1>4. Checked'
  BY <1>1, <1>2, <1>3 DEF Checked
<1>5. Rekeyed'
  BY <1>1, <1>2 DEF Rekeyed, Entry, Mangled
<1>6. Outcome'
  BY <1>1, <1>2 DEF Outcome
<1>7. Filling' /\ Complete'
  BY <1>1 DEF Filling, Complete
<1> QED BY <1>4, <1>5, <1>6, <1>7 DEF IInv
(* The inductive invariant: while the tables are filled, what is in them   *)
(* is what the visits made so far have declared; afterwards they hold      *)
(* exactly the program's declarations, and each use the one it is bound to.*)
THEOREM PassesInOrder == Spec => []IInv
<1>1. Init => IInv
  BY Initially
<1>2. IInv /\ [Next]_vars => IInv'
  <2> SUFFICES ASSUME IInv, [Next]_vars PROVE IInv'
    OBVIOUS
  <2>1. CASE UNCHANGED vars
    BY <2>1, Stutters
  <2>2. CASE pass = "InitSymtables" /\ (InitProgram \/ InitParam \/ InitFunHeader \/ InitFunBody \/ InitForLoops)
    BY <2>2, FillingStep
  <2>3. CASE InitSymtablesDone
    BY <2>3, FillingDone
  <2>4. CASE ManglingIds
    BY <2>4, ManglingIdsStep
  <2>5. CASE ManglingTabs
    BY <2>5, ManglingTabsStep
  <2>6. CASE CheckFunDef
    BY <2>6, CheckFunDefStep
  <2>7. CASE CheckDone
    BY <2>7, CheckDoneStep
  <2> QED BY <2>1, <2>2, <2>3, <2>4, <2>5, <2>6, <2>7 DEF Next, InitSymtables
<1> QED BY <1>1, <1>2, PTL DEF Spec

(***************************************************************************)
(* What follows.                                                           *)
(***************************************************************************)
LEMMA UsesOfFunctions ==
  \A v \in AllUses : v[1] \in Funs /\ v[2] \in Uses(v[1])
<1> SUFFICES ASSUME NEW v \in AllUses PROVE v[1] \in Funs /\ v[2] \in Uses(v[1])
  OBVIOUS
<1>1. PICK f \in Funs : v \in {f} \X Uses(f)
  BY DEF AllUses
<1> QED BY <1>1

(* Once the tables are re-keyed, each use finds the entry that it was      *)
(* bound to, whatever the scopes in between declare                        *)
(* (trav_symtablemangling.c re-keys all tables alike).                     *)
THEOREM EntriesStayVisible == Spec => []RekeyingHidesNothing
<1>1. IInv => RekeyingHidesNothing
  <2> SUFFICES ASSUME IInv, pass \in {"CheckIdentifiers", "accepted"}, NEW v \in AllUses
               PROVE  symtable_lookup(v[1], name[v]) = name[v].entry
    BY DEF RekeyingHidesNothing
  <2>1. /\ prog \in Programs
        /\ \A s \in Scopes : /\ DOMAIN table[s] = {Mangled(k, Entry(s, k)) : k \in KeysOf(s)}
                             /\ \A m \in DOMAIN table[s] : table[s][m] = m.entry
        /\ name[v] = Mangled(PrimaryName(v[1], v[2]), Bound(v[1], v[2]))
    BY DEF IInv, Outcome, Rekeyed
  <2>2. symtable_lookup(v[1], name[v]) = Bound(v[1], v[2])
    BY <2>1, UsesOfFunctions, RekeyedLookup
  <2> QED BY <2>1, <2>2, FuncVarFacts
<1> QED BY <1>1, PassesInOrder, PTL

(* symtable_insert's assertion fails on names of headers only: the checks  *)
(* of trav_initsymtables.c cover all that it inserts besides.              *)
THEOREM OnlyHeadersAssert == Spec => []AssertsOnlyOnHeaders
<1>1. IInv => AssertsOnlyOnHeaders
  BY DEF IInv, Outcome, AssertsOnlyOnHeaders, HeadersRepeat
<1> QED BY <1>1, PassesInOrder, PTL

(* In an accepted program each identifier carries the address of the       *)
(* declaration that scoping means, but for a call in an initializer to a   *)
(* function beside it, which goes to one outside.                          *)
THEOREM NamesAreBound == Spec => []BindsLexically
<1>1. IInv => BindsLexically
  <2> SUFFICES ASSUME IInv, pass = "accepted"
               PROVE  /\ ~ Redeclares
                      /\ \A v \in AllUses :
                           \/ name[v].entry = Meaning(v[1], v[2])
                           \/ /\ CallBesideDec(v[1], v[2])
                              /\ name[v].entry = Around(Parent[v[1]], fun(v[1]).decs[v[2][2]].init)
    BY DEF BindsLexically
  <2>1. /\ prog \in Programs /\ ~ Redeclares
        /\ \A v \in AllUses : /\ name[v] = Mangled(PrimaryName(v[1], v[2]), Bound(v[1], v[2]))
                              /\ Bound(v[1], v[2]) # None
    BY DEF IInv, Outcome, Rekeyed, Checked
  <2>2. ASSUME NEW v \in AllUses
        PROVE  \/ name[v].entry = Meaning(v[1], v[2])
               \/ /\ CallBesideDec(v[1], v[2])
                  /\ name[v].entry = Around(Parent[v[1]], fun(v[1]).decs[v[2][2]].init)
    <3>1. v[1] \in Funs /\ v[2] \in Uses(v[1])
      BY UsesOfFunctions
    <3>2. name[v].entry = Bound(v[1], v[2]) /\ Bound(v[1], v[2]) # None
      BY <2>1, FuncVarFacts
    <3>3. CASE v[2][1] = "init"
      <4>1. /\ ~ CallBesideDec(v[1], v[2]) => Bound(v[1], v[2]) = Meaning(v[1], v[2])
            /\ \/ Bound(v[1], v[2]) = Meaning(v[1], v[2])
               \/ Bound(v[1], v[2]) = Around(Parent[v[1]], fun(v[1]).decs[v[2][2]].init)
        BY <2>1, <3>1, <3>3, InitIsBound
      <4> QED BY <3>2, <4>1
    <3>4. CASE v[2][1] = "stmt"
      BY <2>1, <3>1, <3>2, <3>4, StmtIsBound
    <3>5. v[2][1] \in {"init", "stmt"}
      BY <2>1, <3>1, UseFacts
    <3> QED BY <3>3, <3>4, <3>5
  <2> QED BY <2>1, <2>2
<1> QED BY <1>1, PassesInOrder, PTL

(* A program is turned away only for a name that means nothing or is       *)
(* declared twice, or for a call that the passes look up wrongly.          *)
THEOREM RejectionsHaveReasons == Spec => []RejectsOnlyErrors
<1>1. IInv => RejectsOnlyErrors
  <2> SUFFICES ASSUME IInv, pass \in {"rejected", "assertion failed"}, ~ Redeclares
               PROVE  \E v \in AllUses : \/ Meaning(v[1], v[2]) = None
                                         \/ CallLikeCounter(v[1], v[2])
                                         \/ CallBesideDec(v[1], v[2])
    BY DEF RejectsOnlyErrors
  <2>1. prog \in Programs /\ ~ HeadersRepeat
    BY DEF IInv, Outcome, HeadersRepeat, Redeclares
  <2>2. PICK v \in AllUses : Bound(v[1], v[2]) = None
    BY <2>1 DEF IInv, Outcome
  <2>3. v[1] \in Funs /\ v[2] \in Uses(v[1])
    BY UsesOfFunctions
  <2>4. CASE v[2][1] = "init"
    <3>1. ~ CallBesideDec(v[1], v[2]) => Bound(v[1], v[2]) = Meaning(v[1], v[2])
      BY <2>1, <2>3, <2>4, InitIsBound
    <3> QED BY <2>2, <3>1
  <2>5. CASE v[2][1] = "stmt"
    <3>1. ~ CallLikeCounter(v[1], v[2]) => Bound(v[1], v[2]) = Meaning(v[1], v[2])
      BY <2>1, <2>3, <2>5, StmtIsBound
    <3> QED BY <2>2, <3>1
  <2>6. v[2][1] \in {"init", "stmt"}
    BY <2>1, <2>3, UseFacts
  <2> QED BY <2>4, <2>5, <2>6
<1> QED BY <1>1, PassesInOrder, PTL
====
