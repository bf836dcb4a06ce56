-------------------------- MODULE UnionFindProofs --------------------------
(***************************************************************************)
(* For any number of terms, and any order of calls: the solver's state is  *)
(* well formed, its parent pointers have no cycle, so that uf_find always  *)
(* reaches a root, and no base type is ever united with another type.      *)
(***************************************************************************)
EXTENDS UnionFind, SequenceTheorems, TLAPS

(* Following a pointer from s to t does not change what s may stand for.   *)
Leads(s, t) == s \in TypeVars \/ (t \notin TypeVars /\ Compatible(s, t))

Edges == \A t \in Terms : parent[t] # None => Leads(t, parent[t])

(* The uf_find frames: the innermost is the only one that may be at a      *)
(* root, and every other one will be right to point its term there.        *)
FramesOK ==
  Finding =>
    /\ path # <<>>
    /\ \A i \in 1 .. Len(path) :
         /\ Leads(path[i], Top)
         /\ i # Len(path) => parent[path[i]] \notin {None, path[i]}

(* uf_unify's locals are roots from the moment they are assigned.          *)
LocalsOK ==
  /\ pc \in {"find1", "find2", "link"} => pending # <<>>
  /\ pc \in {"find2", "link"} => x \in Terms /\ parent[x] = x
  /\ pc = "link" => y \in Terms /\ parent[y] = y

IInv == TypeOK /\ Acyclic /\ Edges /\ FramesOK /\ LocalsOK

-----------------------------------------------------------------------------
(* Pointers compose: what s may stand for survives any number of hops.     *)
LEMMA LeadsTransitive ==
  ASSUME NEW r, NEW s, NEW t, Leads(r, s), Leads(s, t)
  PROVE  Leads(r, t)
BY DEF Leads, Compatible

LEMMA LeadsReflexive == \A t : Leads(t, t)
BY DEF Leads, Compatible

(* The innermost frame's term is a term, and so is any frame's.            *)
LEMMA FrameTerms ==
  ASSUME TypeOK, path # <<>>
  PROVE  Top \in Terms /\ \A i \in 1 .. Len(path) : path[i] \in Terms
BY DEF TypeOK, Top

(* A parent table stays a forest when its root s is linked below another   *)
(* root t.                                                                 *)
LEMMA LinkKeepsForest ==
  ASSUME TypeOK, Acyclic, Edges,
         NEW s \in Terms, NEW t \in Terms, s # t,
         parent[s] = s, parent[t] = t, Leads(s, t),
         parent' = [parent EXCEPT ![s] = t]
  PROVE  /\ parent' \in [Terms -> Terms \cup {None}]
         /\ Acyclic'
         /\ Edges'
<1>1. parent' \in [Terms -> Terms \cup {None}]
  BY DEF TypeOK
<1>2. Acyclic'
  <2> SUFFICES ASSUME NEW S \in SUBSET Terms, S # {}
               PROVE  \E r \in S : parent'[r] \in {None, r} \/ parent'[r] \notin S
    BY DEF Acyclic
  <2>1. CASE t \in S
    BY <2>1 DEF TypeOK
  <2>2. CASE t \notin S /\ s \in S
    BY <2>2 DEF TypeOK
  <2>3. CASE t \notin S /\ s \notin S
    <3>1. PICK r \in S : parent[r] \in {None, r} \/ parent[r] \notin S
      BY DEF Acyclic
    <3>2. parent'[r] = parent[r]
      BY <2>3 DEF TypeOK
    <3> QED BY <3>1, <3>2
  <2> QED BY <2>1, <2>2, <2>3
<1>3. Edges'
  BY DEF Edges, TypeOK, Leads, Compatible
<1> QED BY <1>1, <1>2, <1>3

(* Compression keeps the forest, leaves every root a root, and makes the   *)
(* found term one, whether it was in the table before or not.              *)
LEMMA CompressKeepsForest ==
  ASSUME IInv, Finding, AtRoot, parent' = Compressed
  PROVE  /\ parent' \in [Terms -> Terms \cup {None}]
         /\ Acyclic'
         /\ Edges'
         /\ Top \in Terms /\ parent'[Top] = Top
         /\ \A t \in Terms : parent[t] = t => parent'[t] = t
<1> USE DEF IInv
<1>1. /\ path # <<>> /\ Len(path) \in Nat /\ Len(path) \in 1 .. Len(path)
      /\ Top \in Terms
  BY FrameTerms DEF FramesOK, TypeOK
<1>2. \A t \in Terms : parent'[t] = IF \E i \in 1 .. Len(path) : path[i] = t
                                    THEN Top ELSE parent[t]
  BY DEF Compressed
<1>3. parent' \in [Terms -> Terms \cup {None}]
  BY <1>1 DEF Compressed, TypeOK
<1>4. parent'[Top] = Top
  BY <1>1, <1>2 DEF Top
<1>5. Acyclic'
  <2> SUFFICES ASSUME NEW S \in SUBSET Terms, S # {}
               PROVE  \E r \in S : parent'[r] \in {None, r} \/ parent'[r] \notin S
    BY DEF Acyclic
  <2>1. CASE Top \in S
    BY <2>1, <1>4
  <2>2. CASE Top \notin S
    <3>1. PICK r \in S : parent[r] \in {None, r} \/ parent[r] \notin S
      BY DEF Acyclic
    <3> QED BY <3>1, <1>2, <2>2
  <2> QED BY <2>1, <2>2
<1>6. Edges'
  <2> SUFFICES ASSUME NEW t \in Terms, parent'[t] # None
               PROVE  Leads(t, parent'[t])
    BY DEF Edges, Leads, Compatible
  <2>1. CASE \E i \in 1 .. Len(path) : path[i] = t
    BY <2>1, <1>2 DEF FramesOK
  <2>2. CASE ~ \E i \in 1 .. Len(path) : path[i] = t
    BY <2>2, <1>2 DEF Edges
  <2> QED BY <2>1, <2>2
<1>7. ASSUME NEW t \in Terms, parent[t] = t
      PROVE  parent'[t] = t
  <2>1. CASE \E i \in 1 .. Len(path) : path[i] = t
    <3>1. PICK i \in 1 .. Len(path) : path[i] = t
      BY <2>1
    <3>2. i = Len(path)
      BY <3>1, <1>7 DEF FramesOK
    <3> QED BY <3>1, <3>2, <1>4 DEF Top
  <2>2. CASE ~ \E i \in 1 .. Len(path) : path[i] = t
    BY <2>2, <1>2, <1>7
  <2> QED BY <2>1, <2>2
<1> QED BY <1>1, <1>3, <1>4, <1>5, <1>6, <1>7

(* Entering terms in the table as their own roots.                         *)
LEMMA MakeSetKeepsForest ==
  ASSUME TypeOK, Acyclic, Edges, NEW s \in Terms, NEW t \in Terms,
         parent' = uf_makeSet(uf_makeSet(parent, s), t)
  PROVE  /\ parent' \in [Terms -> Terms \cup {None}]
         /\ Acyclic'
         /\ Edges'
<1>1. /\ parent' \in [Terms -> Terms \cup {None}]
      /\ \A r \in Terms : parent'[r] = parent[r] \/ parent'[r] = r
  BY DEF uf_makeSet, TypeOK
<1>2. Acyclic'
  BY <1>1 DEF Acyclic
<1>3. Edges'
  BY <1>1, LeadsReflexive DEF Edges, Leads, Compatible
<1> QED BY <1>1, <1>2, <1>3

(* A function's parameters and its result are terms.                       *)
LEMMA ComponentTerms ==
  ASSUME NEW f \in Funs
  PROVE  /\ Len(Params[f]) \in Nat
         /\ \A i \in Positions(f) : Component(f, i) \in Terms
<1>1. Params[f] \in Seq(TypeVars) /\ Ret[f] \in BaseTypes /\ Len(Params[f]) \in Nat
  BY TermsAssumption, SolverAssumption
<1>2. ASSUME NEW i \in Positions(f) PROVE Component(f, i) \in Terms
  <2>1. CASE i <= Len(Params[f])
    <3>1. i \in 1 .. Len(Params[f])
      BY <2>1, <1>1, <1>2 DEF Positions
    <3> QED BY <3>1, <2>1, <1>1 DEF Component, Terms
  <2>2. CASE ~(i <= Len(Params[f]))
    BY <2>2, <1>1 DEF Component, Terms
  <2> QED BY <2>1, <2>2
<1> QED BY <1>1, <1>2

(* The calls that unifying two functions makes are about terms.            *)
LEMMA ComponentPairsProperties ==
  ASSUME NEW f \in Funs, NEW g \in Funs, Len(Params[f]) = Len(Params[g])
  PROVE  /\ ComponentPairs(f, g) \in Seq(Pairs)
         /\ \A i \in Positions(f) :
              /\ i \in 1 .. Len(ComponentPairs(f, g))
              /\ ComponentPairs(f, g)[i] = <<Component(f, i), Component(g, i)>>
<1>1. Len(Params[f]) \in Nat /\ Len(Params[f]) + 1 \in Nat /\ Positions(f) = Positions(g)
  BY ComponentTerms DEF Positions
<1>2. \A i \in Positions(f) : <<Component(f, i), Component(g, i)>> \in Pairs
  BY <1>1, ComponentTerms DEF Pairs
<1>3. ComponentPairs(f, g) \in [1 .. Len(Params[f]) + 1 -> Pairs]
  BY <1>2 DEF ComponentPairs, Positions
<1>4. ComponentPairs(f, g) \in Seq(Pairs)
  BY <1>1, <1>3, SeqDef
<1>5. Len(ComponentPairs(f, g)) = Len(Params[f]) + 1
  BY <1>1, <1>3, <1>4, LenProperties
<1> QED BY <1>4, <1>5 DEF ComponentPairs, Positions

-----------------------------------------------------------------------------
LEMMA InitIInv == UFInit => IInv
BY SolverAssumption DEF UFInit, IInv, TypeOK, Acyclic, Edges, FramesOK, LocalsOK, Finding

LEMMA NextIInv == IInv /\ [UFNext]_vars => IInv'
<1> SUFFICES ASSUME IInv, [UFNext]_vars PROVE IInv'
  OBVIOUS
<1> USE DEF IInv
<1>1. ASSUME NEW t \in Terms, CallFind(t) \/ CallForbidBool(t)
      PROVE  IInv'
  <2>1. TypeOK'
    <3>1. path' = <<t>> /\ parent' = parent /\ result' = "none"
      BY <1>1 DEF CallFind, CallForbidBool
    <3>4. <<t>> \in Seq(Terms)
      OBVIOUS
    <3>2. pc' \in {"lookup", "forbid"}
      BY <1>1 DEF CallFind, CallForbidBool
    <3>3. UNCHANGED <<pending, x, y, goal, dropped>>
      BY <1>1 DEF CallFind, CallForbidBool
    <3> QED BY <3>1, <3>2, <3>3, <3>4 DEF TypeOK
  <2>2. Acyclic' /\ Edges'
    BY <1>1 DEF Acyclic, Edges, CallFind, CallForbidBool, Leads, Compatible
  <2>3. FramesOK'
    <3>1. path' = <<t>> /\ Top' = t
      BY <1>1 DEF CallFind, CallForbidBool, Top
    <3> QED BY <3>1, LeadsReflexive DEF FramesOK, Leads, Compatible
  <2>4. LocalsOK'
    BY <1>1 DEF LocalsOK, CallFind, CallForbidBool
  <2> QED BY <2>1, <2>2, <2>3, <2>4
<1>2. ASSUME NEW s \in Terms, NEW t \in Terms, CallUnify(s, t)
      PROVE  IInv'
  <2>1. TypeOK'
    <3>1. <<s, t>> \in Pairs
      BY DEF Pairs
    <3> QED BY <1>2, <3>1 DEF TypeOK, CallUnify
  <2>2. Acyclic' /\ Edges'
    BY <1>2 DEF Acyclic, Edges, CallUnify, Leads, Compatible
  <2>3. FramesOK' /\ LocalsOK'
    BY <1>2 DEF FramesOK, LocalsOK, CallUnify, Finding
  <2> QED BY <2>1, <2>2, <2>3
<1>3. CASE FindRecurse
  <2> USE <1>3 DEF FindRecurse
  <2>1. path # <<>> /\ Top \in Terms /\ parent[Top] \in Terms
    BY FrameTerms DEF FramesOK, TypeOK
  <2>2. TypeOK'
    BY <2>1 DEF TypeOK
  <2>3. Acyclic' /\ Edges'
    BY DEF Acyclic, Edges, Leads, Compatible
  <2>4. FramesOK'
    <3>1. /\ Len(path') = Len(path) + 1
          /\ Len(path) \in Nat /\ Len(path) # 0
          /\ Top' = parent[Top]
          /\ \A i \in 1 .. Len(path) : path'[i] = path[i]
      BY <2>1 DEF Top, TypeOK
    <3>2. Leads(Top, parent[Top])
      BY <2>1 DEF Edges
    <3>3. ASSUME NEW i \in 1 .. Len(path')
          PROVE  /\ Leads(path'[i], Top')
                 /\ i # Len(path') => parent'[path'[i]] \notin {None, path'[i]}
      <4>1. CASE i = Len(path')
        BY <4>1, <3>1, LeadsReflexive DEF Top
      <4>2. CASE i # Len(path')
        <5>1. i \in 1 .. Len(path) /\ path'[i] = path[i]
          BY <4>2, <3>1
        <5>2. Leads(path[i], Top)
          BY <5>1 DEF FramesOK
        <5>3. parent[path[i]] \notin {None, path[i]}
          BY <5>1 DEF FramesOK, Top
        <5> QED BY <5>1, <5>2, <5>3, <3>1, <3>2, LeadsTransitive
      <4> QED BY <4>1, <4>2
    <3>4. path' # <<>>
      BY <3>1 DEF TypeOK
    <3> QED BY <3>3, <3>4 DEF FramesOK, Leads, Compatible
  <2>5. LocalsOK'
    BY DEF LocalsOK
  <2> QED BY <2>2, <2>3, <2>4, <2>5
<1>4. CASE LookupReturn \/ ForbidBoolReturn
  <2> USE <1>4 DEF LookupReturn, ForbidBoolReturn
  <2>1. /\ parent' \in [Terms -> Terms \cup {None}]
        /\ Acyclic' /\ Edges'
    BY CompressKeepsForest DEF Finding
  <2>2. TypeOK'
    <3>1. pc' = "idle" /\ path' = <<>> /\ UNCHANGED <<pending, x, y, goal, dropped>>
      OBVIOUS
    <3>3. <<>> \in Seq(Terms)
      BY EmptySeq
    <3>2. result' \in {"none", "true", "false"}
      BY DEF TypeOK
    <3> QED BY <2>1, <3>1, <3>2, <3>3 DEF TypeOK
  <2>3. FramesOK' /\ LocalsOK'
    BY DEF FramesOK, LocalsOK, Finding
  <2> QED BY <2>1, <2>2, <2>3
<1>5. CASE UnifyEnter
  <2> USE <1>5 DEF UnifyEnter
  <2>1. Head(pending)[1] \in Terms /\ Head(pending)[2] \in Terms
    BY DEF TypeOK, Pairs
  <2>2. /\ parent' \in [Terms -> Terms \cup {None}]
        /\ Acyclic' /\ Edges'
    BY <2>1, MakeSetKeepsForest
  <2>3. TypeOK'
    BY <2>1, <2>2 DEF TypeOK
  <2>4. FramesOK'
    BY LeadsReflexive DEF FramesOK, Top, Leads, Compatible
  <2>5. LocalsOK'
    BY DEF LocalsOK
  <2> QED BY <2>2, <2>3, <2>4, <2>5
<1>6. CASE Find1Return
  <2> USE <1>6 DEF Find1Return
  <2>1. /\ parent' \in [Terms -> Terms \cup {None}]
        /\ Acyclic' /\ Edges'
        /\ Top \in Terms /\ parent'[Top] = Top
    BY CompressKeepsForest DEF Finding
  <2>2. pending # <<>> /\ Head(pending)[2] \in Terms
    BY DEF TypeOK, Pairs, LocalsOK
  <2>3. TypeOK'
    BY <2>1, <2>2 DEF TypeOK
  <2>4. FramesOK'
    BY LeadsReflexive DEF FramesOK, Top, Leads, Compatible
  <2>5. LocalsOK'
    BY <2>1, <2>2 DEF LocalsOK
  <2> QED BY <2>1, <2>3, <2>4, <2>5
<1>7. CASE Find2Return
  <2> USE <1>7 DEF Find2Return
  <2>1. /\ parent' \in [Terms -> Terms \cup {None}]
        /\ Acyclic' /\ Edges'
        /\ Top \in Terms /\ parent'[Top] = Top
        /\ \A t \in Terms : parent[t] = t => parent'[t] = t
    BY CompressKeepsForest DEF Finding
  <2>2. TypeOK'
    BY <2>1 DEF TypeOK
  <2>3. FramesOK'
    BY DEF FramesOK, Finding
  <2>4. LocalsOK'
    BY <2>1 DEF LocalsOK
  <2> QED BY <2>1, <2>2, <2>3, <2>4
<1>8. CASE LinkSame \/ KindClash \/ ArityClash
  <2> USE <1>8 DEF LinkSame, KindClash, ArityClash, Leave, Record
  <2>1. pending # <<>> /\ pc' = "call" /\ parent' = parent
    BY DEF LocalsOK
  <2>2. pending' \in Seq(Pairs)
    <3>1. pending \in Seq(Pairs) /\ pending' = <<>> \o Tail(pending)
      BY DEF TypeOK
    <3> QED BY <2>1, <3>1, HeadTailProperties, EmptySeq, ConcatProperties
  <2>3. dropped' \subseteq Pairs
    BY <2>1, HeadTailProperties DEF TypeOK
  <2>4. TypeOK'
    BY <2>1, <2>2, <2>3 DEF TypeOK
  <2>5. Acyclic' /\ Edges'
    BY <2>1 DEF Acyclic, Edges, Leads, Compatible
  <2>6. FramesOK' /\ LocalsOK'
    BY <2>1 DEF FramesOK, LocalsOK, Finding
  <2> QED BY <2>4, <2>5, <2>6
<1>9. CASE BindLeft \/ BindRight
  <2> USE <1>9 DEF BindLeft, BindRight, Leave, Record
  <2>1. /\ pending # <<>> /\ x \in Terms /\ y \in Terms
        /\ parent[x] = x /\ parent[y] = y /\ dropped' = dropped
    BY DEF LocalsOK
  <2>2. /\ parent' \in [Terms -> Terms \cup {None}]
        /\ Acyclic' /\ Edges'
    <3>1. CASE BindLeft
      BY <2>1, <3>1, LinkKeepsForest DEF Leads
    <3>2. CASE BindRight
      BY <2>1, <3>2, LinkKeepsForest DEF Leads
    <3> QED BY <3>1, <3>2
  <2>3. pc' = "call" /\ pending' \in Seq(Pairs)
    <3>1. pending \in Seq(Pairs) /\ pending' = <<>> \o Tail(pending) /\ pc' = "call"
      BY DEF TypeOK
    <3> QED BY <2>1, <3>1, HeadTailProperties, EmptySeq, ConcatProperties
  <2>4. TypeOK'
    BY <2>1, <2>2, <2>3 DEF TypeOK
  <2>5. FramesOK' /\ LocalsOK'
    BY <2>3 DEF FramesOK, LocalsOK, Finding
  <2> QED BY <2>2, <2>4, <2>5
<1>10. CASE LinkFunctions
  <2> USE <1>10 DEF LinkFunctions, Leave, Record
  <2>1. /\ pending # <<>> /\ x \in Terms /\ y \in Terms
        /\ parent[x] = x /\ parent[y] = y
        /\ x \in Funs /\ y \in Funs
        /\ Len(Params[x]) = Len(Params[y]) /\ dropped' = dropped
    BY DEF LocalsOK
  <2>2. /\ parent' \in [Terms -> Terms \cup {None}]
        /\ Acyclic' /\ Edges'
    <3>1. Leads(x, y)
      BY <2>1, TermsAssumption DEF Leads, Compatible
    <3> QED BY <2>1, <3>1, LinkKeepsForest
  <2>3. ComponentPairs(x, y) \in Seq(Pairs)
    BY <2>1, ComponentPairsProperties
  <2>4. pc' = "call" /\ pending' \in Seq(Pairs)
    <3>1. /\ pending \in Seq(Pairs)
          /\ pending' = ComponentPairs(x, y) \o Tail(pending)
          /\ pc' = "call"
      BY DEF TypeOK
    <3> QED BY <2>1, <2>3, <3>1, HeadTailProperties, ConcatProperties
  <2>5. TypeOK'
    BY <2>1, <2>2, <2>4 DEF TypeOK
  <2>6. FramesOK' /\ LocalsOK'
    BY <2>4 DEF FramesOK, LocalsOK, Finding
  <2> QED BY <2>2, <2>5, <2>6
<1>11. CASE UnifyReturn
  <2> USE <1>11 DEF UnifyReturn
  <2>1. TypeOK'
    BY DEF TypeOK
  <2>2. Acyclic' /\ Edges'
    BY DEF Acyclic, Edges, Leads, Compatible
  <2>3. FramesOK' /\ LocalsOK'
    BY DEF FramesOK, LocalsOK, Finding
  <2> QED BY <2>1, <2>2, <2>3
<1>12. CASE UNCHANGED vars
  BY <1>12 DEF vars, TypeOK, Acyclic, Edges, FramesOK, LocalsOK, Finding, Top,
               Leads, Compatible
<1> QED
  BY <1>1, <1>2, <1>3, <1>4, <1>5, <1>6, <1>7, <1>8, <1>9, <1>10, <1>11, <1>12
  DEF UFNext, Call, Step

LEMMA AlwaysIInv == UFSpec => []IInv
<1>1. UFInit => IInv
  BY InitIInv
<1>2. IInv /\ [UFNext]_vars => IInv'
  BY NextIInv
<1> QED BY <1>1, <1>2, PTL DEF UFSpec

-----------------------------------------------------------------------------
(* The solver's state has the shape the C code relies on, in every state   *)
(* of every sequence of calls.                                             *)
THEOREM TypeCorrect == UFSpec => []TypeOK
<1>1. IInv => TypeOK
  BY DEF IInv
<1> QED BY <1>1, AlwaysIInv, PTL

(* No order of uf_find and uf_unify calls, on any number of terms, ties    *)
(* parent pointers into a cycle: uf_find's recursion ends at a root.       *)
THEOREM FindReachesRoot == UFSpec => []Acyclic
<1>1. IInv => Acyclic
  BY DEF IInv
<1> QED BY <1>1, AlwaysIInv, PTL

(* A base type is only ever its own representative and a function only     *)
(* gives way to functions of its arity: whatever is unified, int never     *)
(* becomes float.                                                          *)
THEOREM RigidTermsKeepTheirType == UFSpec => []RigidStaysRigid
<1>1. IInv => RigidStaysRigid
  BY DEF IInv, RigidStaysRigid, Edges, Leads
<1> QED BY <1>1, AlwaysIInv, PTL

-----------------------------------------------------------------------------
(* The roots of a table p of parent pointers, as constants of a lemma, so  *)
(* that what is shown holds before and after a step.                       *)
Forest(p) ==
  \A S \in SUBSET Terms : S # {} => \E t \in S : p[t] \in {None, t} \/ p[t] \notin S

Walks(p, g) == g = [t \in Terms |-> IF p[t] \in {None, t} THEN t ELSE g[p[t]]]

(* The sets that a walk along the pointers of p does not leave.            *)
Closed(p) == {S \in SUBSET Terms : \A t \in S : p[t] \in {None, t} \cup S}

(* A root that every walk from t comes to.                                 *)
EndOf(p, t, r) ==
  r \in Terms /\ p[r] \in {None, r} /\ \A S \in Closed(p) : t \in S => r \in S

LEMMA EndExists ==
  ASSUME NEW p \in [Terms -> Terms \cup {None}], Forest(p)
  PROVE  \A t \in Terms : \E r : EndOf(p, t, r)
<1> DEFINE S == {t \in Terms : ~ \E r : EndOf(p, t, r)}
<1> SUFFICES ASSUME S # {} PROVE FALSE
  OBVIOUS
<1>1. PICK t \in S : p[t] \in {None, t} \/ p[t] \notin S
  BY DEF Forest
<1>2. CASE p[t] \in {None, t}
  BY <1>2 DEF EndOf
<1>3. CASE p[t] \notin {None, t} /\ p[t] \notin S
  <2>1. PICK r : EndOf(p, p[t], r)
    BY <1>3
  <2>2. \A C \in Closed(p) : t \in C => p[t] \in C
    BY <1>3 DEF Closed
  <2> QED BY <2>1, <2>2 DEF EndOf
<1> QED BY <1>1, <1>2, <1>3

LEMMA EndUnique ==
  ASSUME NEW p \in [Terms -> Terms \cup {None}], Forest(p)
  PROVE  \A t \in Terms : \A q, r : EndOf(p, t, q) /\ EndOf(p, t, r) => q = r
<1> DEFINE S == {t \in Terms : \E q, r : EndOf(p, t, q) /\ EndOf(p, t, r) /\ q # r}
<1> SUFFICES ASSUME S # {} PROVE FALSE
  OBVIOUS
<1>1. PICK t \in S : p[t] \in {None, t} \/ p[t] \notin S
  BY DEF Forest
<1>2. CASE p[t] \in {None, t}
  <2>1. {t} \in Closed(p)
    BY <1>2 DEF Closed
  <2> QED BY <2>1 DEF EndOf
<1>3. CASE p[t] \notin {None, t} /\ p[t] \notin S
  <2>1. ASSUME NEW r, EndOf(p, t, r) PROVE EndOf(p, p[t], r)
    <3>1. r # t
      BY <1>3, <2>1 DEF EndOf
    <3>2. ASSUME NEW C \in Closed(p), p[t] \in C PROVE r \in C
      <4>1. C \cup {t} \in Closed(p)
        BY <1>3, <3>2 DEF Closed
      <4> QED BY <2>1, <3>1, <4>1 DEF EndOf
    <3> QED BY <2>1, <3>2 DEF EndOf
  <2> QED BY <1>3, <2>1
<1> QED BY <1>1, <1>2, <1>3

(* In a forest every term has a root, and the function that the recursion  *)
(* describes exists.                                                       *)
LEMMA RootWalks ==
  ASSUME NEW p \in [Terms -> Terms \cup {None}], Forest(p)
  PROVE  Walks(p, RootOf(p))
<1> DEFINE g == [t \in Terms |-> CHOOSE r : EndOf(p, t, r)]
<1>1. \A t \in Terms : EndOf(p, t, g[t])
  BY EndExists
<1>2. ASSUME NEW t \in Terms
      PROVE  g[t] = IF p[t] \in {None, t} THEN t ELSE g[p[t]]
  <2>1. CASE p[t] \in {None, t}
    BY <1>1, <2>1, EndUnique DEF EndOf
  <2>2. CASE p[t] \notin {None, t}
    <3>1. p[t] \in Terms
      BY <2>2
    <3>2. EndOf(p, t, g[p[t]])
      BY <1>1, <2>2, <3>1 DEF EndOf, Closed
    <3> QED BY <1>1, <2>2, <3>2, EndUnique
  <2> QED BY <2>1, <2>2
<1> HIDE DEF g
<1>3. g = [t \in Terms |-> IF p[t] \in {None, t} THEN t ELSE g[p[t]]]
  BY <1>2 DEF g
<1> QED BY <1>3 DEF RootOf, Walks

(* Nothing else satisfies the recursion.                                   *)
LEMMA WalkIsRoot ==
  ASSUME NEW p \in [Terms -> Terms \cup {None}], Forest(p), NEW g, Walks(p, g)
  PROVE  g = RootOf(p)
<1> DEFINE h == RootOf(p)
           S == {t \in Terms : g[t] # h[t]}
<1>1. Walks(p, h)
  BY RootWalks
<1> HIDE DEF h
<1>2. CASE S # {}
  <2>1. PICK t \in S : p[t] \in {None, t} \/ p[t] \notin S
    BY <1>2 DEF Forest
  <2>2. /\ g[t] = IF p[t] \in {None, t} THEN t ELSE g[p[t]]
        /\ h[t] = IF p[t] \in {None, t} THEN t ELSE h[p[t]]
    BY <1>1 DEF Walks
  <2> QED BY <2>1, <2>2
<1>3. CASE S = {}
  BY <1>1, <1>3 DEF Walks, h
<1> QED BY <1>2, <1>3

(* What a root is, and that a rigid term's root may stand for it.          *)
LEMMA RootProperties ==
  ASSUME NEW p \in [Terms -> Terms \cup {None}], Forest(p)
  PROVE  /\ RootOf(p) \in [Terms -> Terms]
         /\ \A t \in Terms :
              /\ p[RootOf(p)[t]] \in {None, RootOf(p)[t]}
              /\ p[t] \in {None, t} => RootOf(p)[t] = t
              /\ p[t] # None => RootOf(p)[p[t]] = RootOf(p)[t]
         /\ (\A t \in Terms : p[t] # None => Leads(t, p[t]))
              => \A t \in Terms : Leads(t, RootOf(p)[t])
<1> DEFINE g == RootOf(p)
<1>1. Walks(p, g)
  BY RootWalks
<1> HIDE DEF g
<1>2. \A t \in Terms : g[t] = IF p[t] \in {None, t} THEN t ELSE g[p[t]]
  BY <1>1 DEF Walks
<1>3. ASSUME NEW t \in Terms
      PROVE  g[t] \in Terms /\ p[g[t]] \in {None, g[t]}
  <2> DEFINE S == {s \in Terms : ~(g[s] \in Terms /\ p[g[s]] \in {None, g[s]})}
  <2> SUFFICES ASSUME S # {} PROVE FALSE
    OBVIOUS
  <2>1. PICK s \in S : p[s] \in {None, s} \/ p[s] \notin S
    BY DEF Forest
  <2> QED BY <2>1, <1>2
<1>4. g \in [Terms -> Terms]
  <2>1. g = [t \in Terms |-> IF p[t] \in {None, t} THEN t ELSE g[p[t]]]
    BY <1>1 DEF Walks
  <2> QED BY <1>2, <1>3, <2>1
<1>5. ASSUME \A t \in Terms : p[t] # None => Leads(t, p[t])
      PROVE  \A t \in Terms : Leads(t, g[t])
  <2> DEFINE S == {s \in Terms : ~Leads(s, g[s])}
  <2> SUFFICES ASSUME S # {} PROVE FALSE
    OBVIOUS
  <2>1. PICK s \in S : p[s] \in {None, s} \/ p[s] \notin S
    BY DEF Forest
  <2> QED BY <2>1, <1>2, <1>5, LeadsTransitive, LeadsReflexive
<1> QED BY <1>2, <1>3, <1>4, <1>5 DEF g

-----------------------------------------------------------------------------
(* What a step does to the roots.  A compression changes none.             *)
FramesRooted == Finding => \A i \in 1 .. Len(path) : Root[path[i]] = Root[Top]

LEMMA ForestNow == Acyclic <=> Forest(parent)
BY DEF Acyclic, Forest

LEMMA RootsNow ==
  ASSUME IInv
  PROVE  /\ Root \in [Terms -> Terms]
         /\ \A t \in Terms :
              /\ parent[Root[t]] \in {None, Root[t]}
              /\ parent[t] \in {None, t} => Root[t] = t
              /\ parent[t] # None => Root[parent[t]] = Root[t]
              /\ Leads(t, Root[t])
<1>1. parent \in [Terms -> Terms \cup {None}] /\ Forest(parent)
  BY ForestNow DEF IInv, TypeOK
<1>2. \A t \in Terms : parent[t] # None => Leads(t, parent[t])
  BY DEF IInv, Edges
<1> QED BY <1>1, <1>2, RootProperties DEF Root

LEMMA SameRoots ==
  ASSUME IInv, parent' \in [Terms -> Terms \cup {None}], Acyclic',
         \A t \in Terms :
           Root[t] = IF parent'[t] \in {None, t} THEN t ELSE Root[parent'[t]]
  PROVE  Root' = Root
<1>1. Forest(parent')
  BY DEF Acyclic, Forest
<1>2. Root \in [Terms -> Terms]
  BY RootsNow
<1>3. Walks(parent', Root)
  BY <1>2 DEF Walks
<1> QED BY <1>1, <1>3, WalkIsRoot DEF Root

LEMMA CompressKeepsRoots ==
  ASSUME IInv, FramesRooted, Finding, AtRoot, parent' = Compressed
  PROVE  Root' = Root
<1> USE DEF IInv
<1>1. path # <<>> /\ Len(path) \in 1 .. Len(path) /\ Top \in Terms
  BY FrameTerms DEF FramesOK, TypeOK
<1>2. \A t \in Terms : parent'[t] = IF \E i \in 1 .. Len(path) : path[i] = t
                                    THEN Top ELSE parent[t]
  BY DEF Compressed
<1>3. /\ parent' \in [Terms -> Terms \cup {None}]
      /\ Acyclic'
  BY CompressKeepsForest
<1>4. Root[Top] = Top
  BY <1>1, RootsNow DEF AtRoot
<1>5. ASSUME NEW t \in Terms
      PROVE  Root[t] = IF parent'[t] \in {None, t} THEN t ELSE Root[parent'[t]]
  <2>1. CASE \E i \in 1 .. Len(path) : path[i] = t
    <3>1. parent'[t] = Top /\ Root[t] = Top
      BY <2>1, <1>2, <1>4 DEF FramesRooted
    <3>2. None \notin Terms
      BY SolverAssumption
    <3> QED BY <3>1, <3>2, <1>1, <1>4
  <2>2. CASE ~ \E i \in 1 .. Len(path) : path[i] = t
    BY <2>2, <1>2, RootsNow
  <2> QED BY <2>1, <2>2
<1> QED BY <1>3, <1>5, SameRoots

LEMMA MakeSetKeepsRoots ==
  ASSUME IInv, NEW s \in Terms, NEW t \in Terms,
         parent' = uf_makeSet(uf_makeSet(parent, s), t)
  PROVE  Root' = Root
<1>1. /\ parent' \in [Terms -> Terms \cup {None}]
      /\ Acyclic'
  BY MakeSetKeepsForest DEF IInv
<1>2. \A r \in Terms : parent'[r] = parent[r] \/ (parent[r] = None /\ parent'[r] = r)
  BY DEF uf_makeSet, IInv, TypeOK
<1>3. \A r \in Terms :
        Root[r] = IF parent'[r] \in {None, r} THEN r ELSE Root[parent'[r]]
  BY <1>2, RootsNow
<1> QED BY <1>1, <1>3, SameRoots

(* Linking a root moves its class to the other root, and no other term.    *)
Moved(s, t) == [r \in Terms |-> IF Root[r] = s THEN t ELSE Root[r]]

LEMMA LinkMovesRoots ==
  ASSUME IInv, NEW s \in Terms, NEW t \in Terms, s # t,
         parent[s] = s, parent[t] = t, Leads(s, t),
         parent' = [parent EXCEPT ![s] = t]
  PROVE  Root' = Moved(s, t)
<1>1. parent' \in [Terms -> Terms \cup {None}] /\ Forest(parent')
  BY LinkKeepsForest DEF IInv, Acyclic, Forest
<1>2. Root \in [Terms -> Terms] /\ Root[s] = s /\ Root[t] = t
  BY RootsNow
<1>3. None \notin Terms
  BY SolverAssumption
<1>4. ASSUME NEW r \in Terms
      PROVE  Moved(s, t)[r] = IF parent'[r] \in {None, r} THEN r ELSE Moved(s, t)[parent'[r]]
  <2>1. CASE r = s
    <3>1. parent'[r] = t
      BY <2>1 DEF IInv, TypeOK
    <3> QED BY <3>1, <2>1, <1>2, <1>3 DEF Moved
  <2>2. CASE r # s
    <3>1. parent'[r] = parent[r]
      BY <2>2 DEF IInv, TypeOK
    <3>2. CASE parent[r] \in {None, r}
      BY <3>1, <3>2, <2>2, RootsNow DEF Moved
    <3>3. CASE parent[r] \notin {None, r}
      <4>1. parent[r] \in Terms /\ Root[parent[r]] = Root[r]
        BY <3>3, RootsNow DEF IInv, TypeOK
      <4> QED BY <3>1, <3>3, <4>1 DEF Moved
    <3> QED BY <3>2, <3>3
  <2> QED BY <2>1, <2>2
<1>5. Walks(parent', Moved(s, t))
  <2> DEFINE m == Moved(s, t)
  <2>1. m = [r \in Terms |-> m[r]]
    BY DEF Moved
  <2>2. \A r \in Terms : m[r] = IF parent'[r] \in {None, r} THEN r ELSE m[parent'[r]]
    BY <1>4
  <2> HIDE DEF m
  <2>3. m = [r \in Terms |-> IF parent'[r] \in {None, r} THEN r ELSE m[parent'[r]]]
    BY <2>1, <2>2
  <2> QED BY <2>3 DEF Walks, m
<1> QED BY <1>1, <1>5, WalkIsRoot DEF Root

-----------------------------------------------------------------------------
(* What uf_unify knows of its arguments, and the answer of the outermost   *)
(* call: it is known when that call has linked, and no later call in the   *)
(* recursion makes it wrong.                                               *)
UnifyRooted ==
  /\ pc = "find1" => Root[Head(pending)[1]] = Root[Top]
  /\ pc = "find2" => x = Root[Head(pending)[1]] /\ Root[Head(pending)[2]] = Root[Top]
  /\ pc = "link" => x = Root[Head(pending)[1]] /\ y = Root[Head(pending)[2]]

Answered ==
  /\ result = "none"  => pending = <<goal>>
  /\ result = "true"  => Root[goal[1]] = Root[goal[2]]
  /\ result = "false" => Apart(Root[goal[1]], Root[goal[2]])

Unifying == pc \in {"call", "find1", "find2", "link"}

GoalOK ==
  IF Unifying THEN goal \in Pairs /\ Answered ELSE pending = <<>>

RInv == FramesRooted /\ UnifyRooted /\ GoalOK

(* The three steps that link s below t.                                    *)
Links(s, t) ==
  \/ BindLeft /\ s = x /\ t = y
  \/ BindRight /\ s = y /\ t = x
  \/ LinkFunctions /\ s = x /\ t = y

LEMMA LinkStep ==
  ASSUME IInv, NEW s, NEW t, Links(s, t)
  PROVE  /\ s \in Terms /\ t \in Terms /\ s # t
         /\ Root[s] = s /\ Root[t] = t
         /\ Leads(s, t) /\ Root' = Moved(s, t)
<1>1. /\ s \in Terms /\ t \in Terms /\ s # t
      /\ parent[s] = s /\ parent[t] = t
      /\ parent' = [parent EXCEPT ![s] = t]
  BY DEF Links, BindLeft, BindRight, LinkFunctions, IInv, LocalsOK
<1>2. Leads(s, t)
  <2>1. ASSUME LinkFunctions, s = x, t = y PROVE Leads(s, t)
    BY <2>1, TermsAssumption DEF LinkFunctions, Leads, Compatible
  <2>2. ASSUME BindLeft, s = x PROVE Leads(s, t)
    BY <2>2 DEF BindLeft, Leads
  <2>3. ASSUME BindRight, s = y PROVE Leads(s, t)
    BY <2>3 DEF BindRight, Leads
  <2> QED BY <2>1, <2>2, <2>3 DEF Links
<1>3. Root[s] = s /\ Root[t] = t
  BY <1>1, RootsNow
<1>4. Root' = Moved(s, t)
  BY <1>1, <1>2, LinkMovesRoots
<1> QED BY <1>1, <1>2, <1>3, <1>4

(* All other steps leave every root in place.                              *)
LEMMA OtherSteps ==
  ASSUME IInv, FramesRooted, [UFNext]_vars, ~ \E s, t : Links(s, t)
  PROVE  Root' = Root
<1>1. CASE parent' = parent
  BY <1>1 DEF Root
<1>2. CASE LookupReturn \/ ForbidBoolReturn \/ Find1Return \/ Find2Return
  BY <1>2, CompressKeepsRoots
  DEF LookupReturn, ForbidBoolReturn, Find1Return, Find2Return, Finding
<1>3. CASE UnifyEnter
  <2>1. Head(pending)[1] \in Terms /\ Head(pending)[2] \in Terms
    BY <1>3 DEF UnifyEnter, IInv, TypeOK, Pairs
  <2> QED BY <1>3, <2>1, MakeSetKeepsRoots DEF UnifyEnter
<1> QED
  BY <1>1, <1>2, <1>3
  DEF UFNext, Call, Step, Links, vars, CallFind, CallForbidBool, CallUnify, FindRecurse,
      LinkSame, KindClash, ArityClash, UnifyReturn

(* A link keeps terms together that are together, and apart that are apart.*)
LEMMA LinkKeepsAnswers ==
  ASSUME IInv, NEW s, NEW t, Links(s, t), NEW q \in Terms, NEW r \in Terms
  PROVE  /\ Root[q] = Root[r] => Root'[q] = Root'[r]
         /\ Apart(Root[q], Root[r]) => Apart(Root'[q], Root'[r])
<1>1. /\ s \in Terms /\ t \in Terms /\ Leads(s, t) /\ Root' = Moved(s, t)
  BY LinkStep
<1>2. Root[q] = Root[r] => Root'[q] = Root'[r]
  BY <1>1 DEF Moved
<1>3. ASSUME NEW u \in Terms, Root[u] \notin TypeVars
      PROVE  Root'[u] \notin TypeVars /\ Compatible(Root[u], Root'[u])
  BY <1>1, <1>3 DEF Moved, Leads, Compatible
<1>4. ASSUME Apart(Root[q], Root[r]) PROVE Apart(Root'[q], Root'[r])
  <2>1. Root[q] \notin TypeVars /\ Root[r] \notin TypeVars /\ ~Compatible(Root[q], Root[r])
    BY <1>4 DEF Apart
  <2>2. /\ Root'[q] \notin TypeVars /\ Compatible(Root[q], Root'[q])
        /\ Root'[r] \notin TypeVars /\ Compatible(Root[r], Root'[r])
    BY <1>3, <2>1
  <2>3. ~Compatible(Root'[q], Root'[r])
    BY <2>1, <2>2 DEF Compatible
  <2> QED BY <2>2, <2>3 DEF Apart
<1> QED BY <1>2, <1>4

LEMMA InitRInv == UFInit => RInv
BY DEF UFInit, RInv, FramesRooted, UnifyRooted, GoalOK, Finding, Unifying

(* Leaving a call: the answer that it recorded is right, or an earlier one *)
(* was, and stays so.                                                      *)
LEMMA LeaveKeepsAnswer ==
  ASSUME IInv, RInv, pc = "link", NEW r \in {"true", "false"}, Record(r), goal' = goal,
         r = "true" => Root'[Head(pending)[1]] = Root'[Head(pending)[2]],
         r = "false" => Apart(Root'[Head(pending)[1]], Root'[Head(pending)[2]]),
         \/ Root' = Root
         \/ \E s, t : Links(s, t)
  PROVE  goal' \in Pairs /\ Answered'
<1>1. goal \in Pairs /\ Answered
  BY DEF RInv, GoalOK, Unifying
<1>2. goal[1] \in Terms /\ goal[2] \in Terms
  BY <1>1 DEF Pairs
<1>3. CASE result = "none"
  <2>1. Head(pending) = goal
    BY <1>1, <1>3 DEF Answered
  <2>2. result' = r
    BY <1>3 DEF Record
  <2> QED BY <1>1, <2>1, <2>2 DEF Answered
<1>4. CASE result # "none"
  <2>1. result' = result
    BY <1>4 DEF Record
  <2>2. CASE result = "true"
    <3>1. Root[goal[1]] = Root[goal[2]]
      BY <1>1, <2>2 DEF Answered
    <3>2. Root'[goal[1]] = Root'[goal[2]]
      BY <3>1, <1>2, LinkKeepsAnswers
    <3> QED BY <1>1, <2>1, <2>2, <3>2 DEF Answered
  <2>3. CASE result = "false"
    <3>1. Apart(Root[goal[1]], Root[goal[2]])
      BY <1>1, <2>3 DEF Answered
    <3>2. Apart(Root'[goal[1]], Root'[goal[2]])
      BY <3>1, <1>2, LinkKeepsAnswers
    <3> QED BY <1>1, <2>1, <2>3, <3>2 DEF Answered
  <2> QED BY <1>4, <2>2, <2>3 DEF IInv, TypeOK
<1> QED BY <1>3, <1>4

LEMMA NextRInv == IInv /\ RInv /\ [UFNext]_vars => RInv'
<1> SUFFICES ASSUME IInv, RInv, [UFNext]_vars PROVE RInv'
  OBVIOUS
<1> USE DEF RInv
<1>1. ASSUME NEW t \in Terms, CallFind(t) \/ CallForbidBool(t)
      PROVE  RInv'
  BY <1>1 DEF CallFind, CallForbidBool, FramesRooted, UnifyRooted, GoalOK, Unifying, Finding, Top
<1>2. ASSUME NEW s \in Terms, NEW t \in Terms, CallUnify(s, t)
      PROVE  RInv'
  BY <1>2 DEF CallUnify, FramesRooted, UnifyRooted, GoalOK, Unifying, Finding, Answered, Pairs
<1>3. CASE FindRecurse
  <2> USE <1>3 DEF FindRecurse
  <2>1. path # <<>> /\ Top \in Terms /\ parent[Top] \in Terms
    BY FrameTerms DEF IInv, FramesOK, TypeOK
  <2>2. /\ Len(path') = Len(path) + 1
        /\ Len(path) \in Nat /\ Len(path) # 0
        /\ Top' = parent[Top]
        /\ \A i \in 1 .. Len(path) : path'[i] = path[i]
    BY <2>1 DEF Top, IInv, TypeOK
  <2>3. Root' = Root /\ Root[parent[Top]] = Root[Top]
    BY <2>1, RootsNow DEF Root
  <2>4. FramesRooted'
    <3> SUFFICES ASSUME NEW i \in 1 .. Len(path') PROVE Root[path'[i]] = Root[Top']
      BY <2>3 DEF FramesRooted
    <3>1. CASE i = Len(path')
      BY <3>1, <2>2 DEF Top
    <3>2. CASE i # Len(path')
      <4>1. i \in 1 .. Len(path) /\ path'[i] = path[i]
        BY <3>2, <2>2
      <4> QED BY <4>1, <2>2, <2>3 DEF FramesRooted
    <3> QED BY <3>1, <3>2
  <2>5. UnifyRooted' /\ GoalOK'
    BY <2>2, <2>3 DEF UnifyRooted, GoalOK, Unifying, Answered
  <2> QED BY <2>4, <2>5
<1>4. CASE LookupReturn \/ ForbidBoolReturn
  BY <1>4 DEF LookupReturn, ForbidBoolReturn, FramesRooted, UnifyRooted, GoalOK, Unifying, Finding
<1>5. CASE UnifyEnter
  <2>1. Head(pending)[1] \in Terms /\ Head(pending)[2] \in Terms
    BY <1>5 DEF UnifyEnter, IInv, TypeOK, Pairs
  <2>2. Root' = Root
    BY <1>5, <2>1, MakeSetKeepsRoots DEF UnifyEnter
  <2>3. path' = <<Head(pending)[1]>> /\ pc' = "find1" /\ pending' = pending
    BY <1>5 DEF UnifyEnter
  <2>4. Top' = Head(pending)[1] /\ FramesRooted'
    BY <2>3 DEF FramesRooted, Top
  <2>5. UnifyRooted'
    BY <2>3, <2>4 DEF UnifyRooted
  <2>6. GoalOK'
    BY <1>5, <2>2 DEF UnifyEnter, GoalOK, Unifying, Answered
  <2> QED BY <2>4, <2>5, <2>6
<1>6. CASE Find1Return
  <2>1. Root' = Root
    BY <1>6, CompressKeepsRoots DEF Find1Return, Finding
  <2>2. Top \in Terms /\ Root[Top] = Top
    BY <1>6, FrameTerms, RootsNow DEF Find1Return, IInv, FramesOK, Finding, AtRoot
  <2>3. Root[Head(pending)[1]] = Root[Top] /\ path' = <<Head(pending)[2]>> /\ pc' = "find2"
    BY <1>6 DEF Find1Return, UnifyRooted
  <2>4. Top' = Head(pending)[2] /\ FramesRooted'
    BY <2>3 DEF FramesRooted, Top
  <2>5. UnifyRooted'
    BY <1>6, <2>1, <2>2, <2>3, <2>4 DEF Find1Return, UnifyRooted
  <2>6. GoalOK'
    BY <1>6, <2>1 DEF Find1Return, GoalOK, Unifying, Answered
  <2> QED BY <2>4, <2>5, <2>6
<1>7. CASE Find2Return
  <2>1. Root' = Root
    BY <1>7, CompressKeepsRoots DEF Find2Return, Finding
  <2>2. Top \in Terms /\ Root[Top] = Top
    BY <1>7, FrameTerms, RootsNow DEF Find2Return, IInv, FramesOK, Finding, AtRoot
  <2>3. x = Root[Head(pending)[1]] /\ Root[Head(pending)[2]] = Root[Top] /\ pc' = "link"
    BY <1>7 DEF Find2Return, UnifyRooted
  <2>4. UnifyRooted'
    BY <1>7, <2>1, <2>2, <2>3 DEF Find2Return, UnifyRooted
  <2>5. GoalOK'
    BY <1>7, <2>1 DEF Find2Return, GoalOK, Unifying, Answered
  <2> QED BY <2>3, <2>4, <2>5 DEF FramesRooted, Finding
<1>8. CASE LinkSame \/ KindClash \/ ArityClash
  <2> USE <1>8 DEF LinkSame, KindClash, ArityClash, Leave
  <2>1. Root' = Root
    BY DEF Root
  <2>2. x = Root[Head(pending)[1]] /\ y = Root[Head(pending)[2]]
    BY DEF UnifyRooted
  <2>3. goal' \in Pairs /\ Answered'
    <3>1. CASE LinkSame
      BY <3>1, <2>1, <2>2, LeaveKeepsAnswer
    <3>2. CASE KindClash \/ ArityClash
      <4>1. Apart(x, y)
        BY <3>2, TermsAssumption DEF Apart, Compatible
      <4>2. goal' = goal /\ Record("false") /\ pc = "link"
        BY <3>2
      <4> QED BY <4>1, <4>2, <2>1, <2>2, LeaveKeepsAnswer
    <3> QED BY <3>1, <3>2
  <2>4. pc' = "call"
    OBVIOUS
  <2> QED BY <2>3, <2>4 DEF FramesRooted, UnifyRooted, GoalOK, Finding, Unifying
<1>9. ASSUME NEW s, NEW t, Links(s, t)
      PROVE  RInv'
  <2>1. /\ s \in Terms /\ t \in Terms /\ s # t
        /\ Root[s] = s /\ Root[t] = t /\ Root' = Moved(s, t)
    BY <1>9, LinkStep
  <2>2. /\ pc = "link" /\ pc' = "call" /\ Record("true") /\ goal' = goal
        /\ {s, t} = {x, y}
    BY <1>9 DEF Links, BindLeft, BindRight, LinkFunctions, Leave
  <2>3. /\ x = Root[Head(pending)[1]] /\ y = Root[Head(pending)[2]]
        /\ Head(pending)[1] \in Terms /\ Head(pending)[2] \in Terms
    BY <2>2 DEF UnifyRooted, IInv, TypeOK, LocalsOK, Pairs
  <2>4. Root'[Head(pending)[1]] = Root'[Head(pending)[2]]
    BY <2>1, <2>2, <2>3 DEF Moved
  <2>5. goal' \in Pairs /\ Answered'
    BY <1>9, <2>2, <2>4, LeaveKeepsAnswer
  <2> QED BY <2>2, <2>5 DEF FramesRooted, UnifyRooted, GoalOK, Finding, Unifying
<1>10. CASE UnifyReturn
  BY <1>10 DEF UnifyReturn, FramesRooted, UnifyRooted, GoalOK, Unifying, Finding
<1>11. CASE UNCHANGED vars
  BY <1>11 DEF vars, FramesRooted, UnifyRooted, GoalOK, Unifying, Finding, Answered, Top, Root
<1> QED
  BY <1>1, <1>2, <1>3, <1>4, <1>5, <1>6, <1>7, <1>8, <1>9, <1>10, <1>11
  DEF UFNext, Call, Step, Links

-----------------------------------------------------------------------------
(* Each step is one of the promised partition or leaves it as it is.       *)
LEMMA LinkMergesClasses ==
  ASSUME IInv, NEW s, NEW t, Links(s, t)
  PROVE  Partition!Next
<1> DEFINE C == {q \in Terms : Root[q] = s}
           D == {q \in Terms : Root[q] = t}
<1>1. /\ s \in Terms /\ t \in Terms /\ s # t
      /\ Root[s] = s /\ Root[t] = t
      /\ Leads(s, t) /\ Root' = Moved(s, t)
  BY LinkStep
<1>2. C \in Classes /\ D \in Classes /\ C # D
  BY <1>1 DEF Classes
<1>3. ASSUME NEW q \in Partition!Rigid(C), NEW r \in Partition!Rigid(D)
      PROVE  Compatible(q, r)
  <2>1. /\ q \in Terms /\ q \notin TypeVars /\ Root[q] = s
        /\ r \in Terms /\ r \notin TypeVars /\ Root[r] = t
    BY <1>3 DEF Partition!Rigid
  <2>2. Leads(q, s) /\ Leads(r, t)
    BY <2>1, RootsNow
  <2> QED BY <2>1, <2>2, <1>1 DEF Leads, Compatible
<1>4. Classes' = (Classes \ {C, D}) \cup {C \cup D}
  <2>1. \A q \in Terms : Root'[q] = IF Root[q] = s THEN t ELSE Root[q]
    BY <1>1 DEF Moved
  <2>2. Classes' = {{q \in Terms : Root'[q] = Root'[u]} : u \in Terms}
    BY DEF Classes
  <2>3. ASSUME NEW u \in Terms
        PROVE  {q \in Terms : Root'[q] = Root'[u]}
                 = IF Root[u] \in {s, t} THEN C \cup D ELSE {q \in Terms : Root[q] = Root[u]}
    BY <2>1, <1>1
  <2>4. ASSUME NEW u \in Terms
        PROVE  {q \in Terms : Root[q] = Root[u]} \in {C, D} <=> Root[u] \in {s, t}
    <3>1. u \in {q \in Terms : Root[q] = Root[u]}
      OBVIOUS
    <3> QED BY <3>1
  <2>5. Classes' \subseteq (Classes \ {C, D}) \cup {C \cup D}
    BY <2>2, <2>3, <2>4 DEF Classes
  <2>6. ASSUME NEW E \in (Classes \ {C, D}) \cup {C \cup D} PROVE E \in Classes'
    <3>1. CASE E = C \cup D
      BY <3>1, <2>2, <2>3, <1>1
    <3>2. CASE E \in Classes \ {C, D}
      <4>1. PICK u \in Terms : E = {q \in Terms : Root[q] = Root[u]}
        BY <3>2 DEF Classes
      <4> QED BY <3>2, <4>1, <2>2, <2>3, <2>4
    <3> QED BY <3>1, <3>2
  <2> QED BY <2>5, <2>6
<1> QED BY <1>2, <1>3, <1>4 DEF Partition!Next, Compatible, Partition!Compatible

(* The forest implements the partition: whatever is called, classes only   *)
(* ever merge, two compatible ones at a time, and neither a lookup nor a   *)
(* refused unification changes any.                                        *)
THEOREM SolverRefinesPartition == UFSpec => RefinesPartition
<1>1. UFInit => Partition!Init
  <2> SUFFICES ASSUME UFInit PROVE Partition!Init
    OBVIOUS
  <2>1. \A t \in Terms : Root[t] = t
    BY InitIInv, RootsNow DEF UFInit
  <2> QED BY <2>1 DEF Partition!Init, Classes, Terms, Partition!Terms
<1>2. IInv /\ RInv /\ [UFNext]_vars => [Partition!Next]_Classes
  <2> SUFFICES ASSUME IInv, RInv, [UFNext]_vars PROVE Partition!Next \/ Classes' = Classes
    OBVIOUS
  <2>1. CASE \E s, t : Links(s, t)
    BY <2>1, LinkMergesClasses
  <2>2. CASE ~ \E s, t : Links(s, t)
    BY <2>2, OtherSteps DEF RInv, Classes
  <2> QED BY <2>1, <2>2
<1> QED
  BY <1>1, <1>2, AlwaysIInv, InitRInv, NextRInv, PTL DEF UFSpec, RefinesPartition, Partition!Spec

-----------------------------------------------------------------------------
(* Congruence.  While recursive calls wait, a position of a class of       *)
(* functions is tied by the calls that will unify two of its components: a *)
(* set that holds whole classes, and both or none of each such pair, holds *)
(* all of them or none.  A pair that is taken off without being unified is *)
(* one whose answer is dropped, and it stays one that no type describes.   *)
(* The outermost call is no such pair: it is tied once it has linked.      *)
Waiting == IF result = "none" THEN {} ELSE {pending[n] : n \in 1 .. Len(pending)}

Dropped(f, i) ==
  \E h, k \in Funs : /\ Root[h] = Root[f] /\ Root[k] = Root[f]
                     /\ <<Component(h, i), Component(k, i)>> \in dropped

DInv == \A q, r \in Terms : <<q, r>> \in dropped => Apart(Root[q], Root[r])

Tied(S, f, i) ==
  /\ \A s, t \in Terms : Root[s] = Root[t] => (s \in S <=> t \in S)
  /\ \A h, k \in Funs :
       Root[h] = Root[f] /\ Root[k] = Root[f] /\ <<Component(h, i), Component(k, i)>> \in Waiting
         => (Component(h, i) \in S <=> Component(k, i) \in S)

ClassTied(f, i) ==
  \A g \in Funs : Root[f] = Root[g] =>
    \A S \in SUBSET Terms : Tied(S, f, i) => (Component(f, i) \in S <=> Component(g, i) \in S)

CInv == \A f \in Funs : \A i \in Positions(f) : Dropped(f, i) \/ ClassTied(f, i)

(* A function's class holds functions of its arity only.                   *)
LEMMA ClassOfFunction ==
  ASSUME IInv, NEW f \in Funs
  PROVE  /\ f \in Terms /\ Root[f] \in Funs /\ Len(Params[Root[f]]) = Len(Params[f])
         /\ Len(Params[f]) \in Nat
         /\ \A i \in Positions(f) : Component(f, i) \in Terms
         /\ \A g \in Funs : Root[g] = Root[f] => Positions(g) = Positions(f)
<1>1. \A g \in Funs : /\ g \in Terms
                      /\ Root[g] \in Funs /\ Len(Params[Root[g]]) = Len(Params[g])
  <2> SUFFICES ASSUME NEW g \in Funs
               PROVE  /\ g \in Terms
                      /\ Root[g] \in Funs /\ Len(Params[Root[g]]) = Len(Params[g])
    OBVIOUS
  <2>1. g \in Terms /\ g \notin TypeVars
    BY TermsAssumption DEF Terms
  <2>2. Leads(g, Root[g])
    BY <2>1, RootsNow
  <2> QED BY <2>1, <2>2 DEF Leads, Compatible
<1>2. \A g \in Funs : Root[g] = Root[f] => Positions(g) = Positions(f)
  <2> SUFFICES ASSUME NEW g \in Funs, Root[g] = Root[f] PROVE Positions(g) = Positions(f)
    OBVIOUS
  <2>1. Len(Params[g]) = Len(Params[f])
    BY <1>1
  <2> QED BY <2>1 DEF Positions
<1>3. Len(Params[f]) \in Nat /\ \A i \in Positions(f) : Component(f, i) \in Terms
  BY ComponentTerms
<1> QED BY <1>1, <1>2, <1>3

(* A dropped answer stays dropped, and was right: its two terms are apart, *)
(* and no later link brings them together.                                 *)
LEMMA NextDInv == IInv /\ RInv /\ DInv /\ [UFNext]_vars => DInv' /\ dropped \subseteq dropped'
<1> SUFFICES ASSUME IInv, RInv, DInv, [UFNext]_vars PROVE DInv' /\ dropped \subseteq dropped'
  OBVIOUS
<1>1. CASE \E s, t : Links(s, t)
  <2>1. PICK s, t : Links(s, t)
    BY <1>1
  <2>2. dropped' = dropped
    BY <2>1 DEF Links, BindLeft, BindRight, LinkFunctions, Record
  <2>3. \A q, r \in Terms : Apart(Root[q], Root[r]) => Apart(Root'[q], Root'[r])
    BY <2>1, LinkKeepsAnswers
  <2> QED BY <2>2, <2>3 DEF DInv, Apart, Compatible
<1>2. CASE KindClash \/ ArityClash
  <2>1. /\ pc = "link" /\ Root' = Root
        /\ x = Root[Head(pending)[1]] /\ y = Root[Head(pending)[2]]
    BY <1>2 DEF KindClash, ArityClash, RInv, UnifyRooted, Root
  <2>2. Apart(x, y)
    BY <1>2, TermsAssumption DEF KindClash, ArityClash, Apart, Compatible
  <2>3. dropped \subseteq dropped' /\ dropped' \subseteq dropped \cup {Head(pending)}
    BY <1>2 DEF KindClash, ArityClash, Record
  <2>4. ASSUME NEW q \in Terms, NEW r \in Terms, <<q, r>> \in dropped'
        PROVE  Apart(Root[q], Root[r])
    <3>1. CASE <<q, r>> \in dropped
      BY <3>1 DEF DInv
    <3>2. CASE <<q, r>> = Head(pending)
      <4>1. Head(pending)[1] = q /\ Head(pending)[2] = r
        BY <3>2
      <4> QED BY <4>1, <2>1, <2>2
    <3> QED BY <3>1, <3>2, <2>3, <2>4
  <2> QED BY <2>1, <2>3, <2>4 DEF DInv, Apart, Compatible
<1>3. CASE ~(\E s, t : Links(s, t)) /\ ~(KindClash \/ ArityClash)
  <2>1. Root' = Root
    BY <1>3, OtherSteps DEF RInv
  <2>2. dropped' = dropped
    BY <1>3
    DEF UFNext, Call, Step, Links, vars, CallFind, CallForbidBool, CallUnify, FindRecurse,
        LookupReturn, ForbidBoolReturn, UnifyEnter, Find1Return, Find2Return, LinkSame,
        Record, UnifyReturn
  <2> QED BY <2>1, <2>2 DEF DInv, Apart, Compatible
<1> QED BY <1>1, <1>2, <1>3

(* What Leave makes of the calls that wait.                                *)
LEMMA WaitingAfterLeave ==
  ASSUME IInv, pc = "link", NEW r \in {"true", "false"}, Record(r),
         NEW more \in Seq(Pairs), Leave(more)
  PROVE  /\ Waiting \subseteq {Head(pending)} \cup Waiting'
         /\ \A n \in 1 .. Len(more) : more[n] \in Waiting'
<1>1. /\ pending \in Seq(Pairs) /\ pending # <<>> /\ Len(pending) \in Nat /\ Len(more) \in Nat
      /\ result' # "none"
  BY DEF IInv, TypeOK, LocalsOK, Record
<1>2. /\ Tail(pending) \in Seq(Pairs)
      /\ Len(Tail(pending)) = Len(pending) - 1
      /\ \A i \in 1 .. Len(Tail(pending)) : Tail(pending)[i] = pending[i + 1]
      /\ Head(pending) = pending[1]
  BY <1>1, HeadTailProperties
<1>3. /\ Len(pending') = Len(more) + Len(Tail(pending))
      /\ \A i \in 1 .. Len(more) + Len(Tail(pending)) :
           pending'[i] = IF i <= Len(more) THEN more[i] ELSE Tail(pending)[i - Len(more)]
  BY <1>2, ConcatProperties DEF Leave
<1>4. ASSUME NEW n \in 1 .. Len(pending), n # 1 PROVE pending[n] \in Waiting'
  <2> DEFINE m == Len(more) + n - 1
  <2>1. n \in Nat /\ n >= 2 /\ n <= Len(pending)
    BY <1>1, <1>4
  <2>2. /\ m \in 1 .. Len(more) + Len(Tail(pending)) /\ ~(m <= Len(more))
        /\ m - Len(more) = n - 1 /\ n - 1 \in 1 .. Len(Tail(pending))
        /\ (n - 1) + 1 = n
    BY <1>1, <1>2, <2>1
  <2> HIDE DEF m
  <2>3. pending'[m] = Tail(pending)[n - 1]
    BY <1>3, <2>2
  <2>4. Tail(pending)[n - 1] = pending[n]
    BY <1>2, <2>2
  <2> QED BY <1>1, <1>3, <2>2, <2>3, <2>4 DEF Waiting
<1>5. ASSUME NEW n \in 1 .. Len(more) PROVE more[n] \in Waiting'
  <2>1. n \in 1 .. Len(pending') /\ pending'[n] = more[n]
    BY <1>1, <1>2, <1>3
  <2> QED BY <1>1, <2>1 DEF Waiting
<1> QED BY <1>2, <1>4, <1>5 DEF Waiting

(* Steps that change no root and take no call off.                         *)
LEMMA MoreWaiting ==
  ASSUME CInv, Root' = Root, Waiting \subseteq Waiting', dropped \subseteq dropped'
  PROVE  CInv'
<1> SUFFICES ASSUME NEW f \in Funs, NEW i \in Positions(f), ~Dropped(f, i)'
             PROVE  ClassTied(f, i)'
  BY DEF CInv
<1>1. ClassTied(f, i)
  BY DEF CInv, Dropped
<1>2. ASSUME NEW S \in SUBSET Terms, Tied(S, f, i)' PROVE Tied(S, f, i)
  BY <1>2 DEF Tied
<1> QED BY <1>1, <1>2 DEF ClassTied

(* A call that ends without linking: its roots were one, or it is dropped. *)
LEMMA UnlinkedKeepsCInv ==
  ASSUME IInv, RInv, CInv, LinkSame \/ KindClash \/ ArityClash
  PROVE  CInv'
<1> DEFINE s == Head(pending)[1]
           t == Head(pending)[2]
<1>1. /\ pc = "link" /\ Leave(<<>>) /\ Root' = Root
      /\ x = Root[s] /\ y = Root[t]
      /\ Record("true") \/ Record("false")
  BY DEF LinkSame, KindClash, ArityClash, RInv, UnifyRooted, Root
<1>2. Waiting \subseteq {Head(pending)} \cup Waiting'
  BY <1>1, EmptySeq, WaitingAfterLeave
<1>3. /\ dropped \subseteq dropped'
      /\ x = y \/ (result # "none" => Head(pending) \in dropped')
  BY DEF LinkSame, KindClash, ArityClash, Record
<1>4. Head(pending) = <<s, t>> /\ s \in Terms /\ t \in Terms
  BY <1>1 DEF IInv, TypeOK, LocalsOK, Pairs
<1> SUFFICES ASSUME NEW f \in Funs, NEW i \in Positions(f), ~Dropped(f, i)'
             PROVE  ClassTied(f, i)'
  BY DEF CInv
<1>5. ~Dropped(f, i)
  BY <1>1, <1>3 DEF Dropped
<1>6. ASSUME NEW S \in SUBSET Terms, Tied(S, f, i)' PROVE Tied(S, f, i)
  <2> SUFFICES ASSUME NEW h \in Funs, NEW k \in Funs, Root[h] = Root[f], Root[k] = Root[f],
                      <<Component(h, i), Component(k, i)>> \in Waiting,
                      <<Component(h, i), Component(k, i)>> = <<s, t>>
               PROVE  Component(h, i) \in S <=> Component(k, i) \in S
    BY <1>1, <1>2, <1>4, <1>6 DEF Tied
  <2>1. CASE Root[s] = Root[t]
    BY <2>1, <1>1, <1>4, <1>6 DEF Tied
  <2>2. CASE Head(pending) \in dropped'
    BY <2>2, <1>1, <1>4 DEF Dropped
  <2>3. result # "none"
    BY DEF Waiting
  <2> QED BY <2>1, <2>2, <2>3, <1>1, <1>3
<1>7. ClassTied(f, i)
  BY <1>5 DEF CInv
<1> QED BY <1>1, <1>6, <1>7 DEF ClassTied

(* A variable that is linked is the root of no function.                   *)
LEMMA BindKeepsCInv ==
  ASSUME IInv, RInv, CInv, NEW s, NEW t, Links(s, t), s \in TypeVars
  PROVE  CInv'
<1>1. /\ s \in Terms /\ t \in Terms /\ Root' = Moved(s, t)
  BY LinkStep
<1>2. /\ pc = "link" /\ {s, t} = {x, y} /\ Leave(<<>>)
      /\ Record("true") /\ dropped' = dropped
  BY TermsAssumption DEF Links, BindLeft, BindRight, LinkFunctions, Record
<1>3. /\ Head(pending)[1] \in Terms /\ Head(pending)[2] \in Terms
      /\ Head(pending) = <<Head(pending)[1], Head(pending)[2]>>
      /\ x = Root[Head(pending)[1]] /\ y = Root[Head(pending)[2]]
  BY <1>2 DEF RInv, UnifyRooted, IInv, TypeOK, LocalsOK, Pairs
<1>4. Root'[Head(pending)[1]] = Root'[Head(pending)[2]]
  BY <1>1, <1>2, <1>3 DEF Moved
<1>5. Waiting \subseteq {Head(pending)} \cup Waiting'
  BY <1>2, EmptySeq, WaitingAfterLeave
<1>6. \A f \in Funs : f \in Terms /\ Root'[f] = Root[f]
  BY <1>1, ClassOfFunction, TermsAssumption DEF Moved
<1> SUFFICES ASSUME NEW f \in Funs, NEW i \in Positions(f), ~Dropped(f, i)'
             PROVE  ClassTied(f, i)'
  BY DEF CInv
<1>7. ~Dropped(f, i)
  BY <1>2, <1>6 DEF Dropped
<1>8. ClassTied(f, i)
  BY <1>7 DEF CInv
<1>9. ASSUME NEW S \in SUBSET Terms, Tied(S, f, i)' PROVE Tied(S, f, i)
  <2>1. \A q, r \in Terms : Root[q] = Root[r] => (q \in S <=> r \in S)
    BY <1>9, LinkKeepsAnswers DEF Tied
  <2>2. ASSUME NEW h \in Funs, NEW k \in Funs, Root[h] = Root[f], Root[k] = Root[f],
               <<Component(h, i), Component(k, i)>> \in Waiting
        PROVE  Component(h, i) \in S <=> Component(k, i) \in S
    <3>1. CASE <<Component(h, i), Component(k, i)>> = Head(pending)
      BY <3>1, <1>3, <1>4, <1>9 DEF Tied
    <3>2. CASE <<Component(h, i), Component(k, i)>> \in Waiting'
      BY <3>2, <2>2, <1>6, <1>9 DEF Tied
    <3> QED BY <3>1, <3>2, <2>2, <1>5
  <2> QED BY <2>1, <2>2 DEF Tied
<1> QED BY <1>6, <1>8, <1>9 DEF ClassTied

(* Two classes of functions that become one are tied by the calls that the *)
(* link makes for the parameters of their roots.                           *)
LEMMA LinkFunctionsKeepsCInv ==
  ASSUME IInv, RInv, CInv, LinkFunctions
  PROVE  CInv'
<1>1. Links(x, y)
  BY DEF Links
<1>2. /\ x \in Terms /\ y \in Terms /\ Root[x] = x /\ Root[y] = y /\ Root' = Moved(x, y)
  BY <1>1, LinkStep
<1>3. /\ pc = "link" /\ x \in Funs /\ y \in Funs
      /\ Len(Params[x]) = Len(Params[y]) /\ Leave(ComponentPairs(x, y))
      /\ Record("true") /\ dropped' = dropped
  BY DEF LinkFunctions, Record
<1>4. /\ Head(pending)[1] \in Terms /\ Head(pending)[2] \in Terms
      /\ Head(pending) = <<Head(pending)[1], Head(pending)[2]>>
      /\ x = Root[Head(pending)[1]] /\ y = Root[Head(pending)[2]]
  BY <1>3 DEF RInv, UnifyRooted, IInv, TypeOK, LocalsOK, Pairs
<1>5. Root'[Head(pending)[1]] = Root'[Head(pending)[2]]
  BY <1>2, <1>4 DEF Moved
<1>6. /\ Waiting \subseteq {Head(pending)} \cup Waiting'
      /\ \A i \in Positions(x) : <<Component(x, i), Component(y, i)>> \in Waiting'
  BY <1>3, ComponentPairsProperties, WaitingAfterLeave, ZenonT(30)
<1>7. \A q, r \in Terms :
        Root[q] = Root[r] => Root'[q] = Root'[r]
  BY <1>1, LinkKeepsAnswers
<1> SUFFICES ASSUME NEW f \in Funs, NEW i \in Positions(f), ~Dropped(f, i)'
             PROVE  ClassTied(f, i)'
  BY DEF CInv
<1> DEFINE Together(g) == Root'[g] = Root'[f]
<1>8. ASSUME NEW g \in Funs, Together(g)
      PROVE  i \in Positions(g) /\ ClassTied(g, i)
  <2>1. g \in Terms /\ f \in Terms /\ Root[g] \in Terms /\ Root[f] \in Terms
    BY ClassOfFunction, RootsNow
  <2>2. i \in Positions(g)
    <3>1. Root[g] = Root[f] \/ {Root[g], Root[f]} \subseteq {x, y}
      BY <1>2, <1>8, <2>1 DEF Moved
    <3>2. Len(Params[g]) = Len(Params[f])
      BY <3>1, <1>3, ClassOfFunction
    <3> QED BY <3>2 DEF Positions
  <2>3. ASSUME Dropped(g, i) PROVE FALSE
    <3>1. PICK h \in Funs, k \in Funs :
            Root[h] = Root[g] /\ Root[k] = Root[g] /\ <<Component(h, i), Component(k, i)>> \in dropped
      BY <2>3 DEF Dropped
    <3>2. h \in Terms /\ k \in Terms
      BY ClassOfFunction
    <3>3. Root'[h] = Root'[f] /\ Root'[k] = Root'[f]
      BY <1>7, <1>8, <2>1, <3>1, <3>2
    <3> QED BY <1>3, <3>1, <3>3 DEF Dropped
  <2> QED BY <2>2, <2>3 DEF CInv
<1>9. ASSUME NEW S \in SUBSET Terms, Tied(S, f, i)', NEW g \in Funs, Together(g)
      PROVE  Tied(S, g, i)
  <2>1. \A q, r \in Terms : Root[q] = Root[r] => (q \in S <=> r \in S)
    BY <1>7, <1>9 DEF Tied
  <2>2. ASSUME NEW h \in Funs, NEW k \in Funs, Root[h] = Root[g], Root[k] = Root[g],
               <<Component(h, i), Component(k, i)>> \in Waiting
        PROVE  Component(h, i) \in S <=> Component(k, i) \in S
    <3>1. Together(h) /\ Together(k)
      BY <1>7, <1>9, <2>2, ClassOfFunction
    <3>2. CASE <<Component(h, i), Component(k, i)>> = Head(pending)
      BY <3>2, <1>4, <1>5, <1>9 DEF Tied
    <3>3. CASE <<Component(h, i), Component(k, i)>> \in Waiting'
      BY <3>1, <3>3, <1>9 DEF Tied
    <3> QED BY <3>2, <3>3, <2>2, <1>6
  <2> QED BY <2>1, <2>2 DEF Tied
<1>10. ASSUME NEW g \in Funs, Root'[f] = Root'[g], NEW S \in SUBSET Terms, Tied(S, f, i)'
       PROVE  Component(f, i) \in S <=> Component(g, i) \in S
  <2>1. Together(f) /\ Together(g)
    BY <1>10
  <2>2. /\ ClassTied(f, i) /\ Tied(S, f, i)
        /\ ClassTied(g, i) /\ Tied(S, g, i)
    BY <2>1, <1>8, <1>9, <1>10
  <2>3. CASE Root[f] = Root[g]
    BY <2>2, <2>3 DEF ClassTied
  <2>4. CASE Root[f] # Root[g]
    <3>1. {Root[f], Root[g]} = {x, y} /\ Together(x) /\ Together(y)
      BY <1>2, <1>10, <2>4, ClassOfFunction DEF Moved
    <3>2. Component(x, i) \in S <=> Component(y, i) \in S
      <4>1. i \in Positions(x)
        BY <1>3, <1>8, <3>1
      <4> QED BY <3>1, <4>1, <1>3, <1>6, <1>10 DEF Tied
    <3>3. CASE Root[f] = x /\ Root[g] = y
      BY <3>2, <3>3, <2>2, <1>2, <1>3 DEF ClassTied
    <3>4. CASE Root[f] = y /\ Root[g] = x
      BY <3>2, <3>4, <2>2, <1>2, <1>3 DEF ClassTied
    <3> QED BY <3>1, <3>3, <3>4
  <2> QED BY <2>3, <2>4
<1> QED BY <1>10 DEF ClassTied

LEMMA NextCInv == IInv /\ RInv /\ DInv /\ CInv /\ [UFNext]_vars => CInv'
<1> SUFFICES ASSUME IInv, RInv, DInv, CInv, [UFNext]_vars PROVE CInv'
  OBVIOUS
<1>1. CASE LinkFunctions
  BY <1>1, LinkFunctionsKeepsCInv
<1>2. CASE BindLeft
  BY <1>2, BindKeepsCInv DEF Links, BindLeft
<1>3. CASE BindRight
  BY <1>3, BindKeepsCInv DEF Links, BindRight
<1>4. CASE LinkSame \/ KindClash \/ ArityClash
  BY <1>4, UnlinkedKeepsCInv
<1>5. CASE ~ \E s, t : Links(s, t)
  <2> SUFFICES ASSUME Waiting \subseteq Waiting' PROVE CInv'
    <3>1. CASE ~Unifying
      BY <3>1 DEF RInv, GoalOK, Waiting
    <3>2. CASE LinkSame \/ KindClash \/ ArityClash
      BY <3>2, <1>4
    <3>3. CASE UNCHANGED <<pending, result>>
      BY <3>3 DEF Waiting
    <3> QED
      BY <3>1, <3>2, <3>3, <1>5
      DEF UFNext, Call, Step, vars, Links, Unifying, CallFind, CallForbidBool, CallUnify,
          FindRecurse, LookupReturn, ForbidBoolReturn, UnifyEnter, Find1Return, Find2Return,
          UnifyReturn
  <2>1. Root' = Root
    BY <1>5, OtherSteps DEF RInv
  <2>2. dropped \subseteq dropped'
    BY NextDInv
  <2> QED BY <2>1, <2>2, MoreWaiting
<1> QED BY <1>1, <1>2, <1>3, <1>5 DEF Links

LEMMA InitDInv == UFInit => DInv
BY DEF UFInit, DInv

LEMMA InitCInv == UFInit => CInv
<1> SUFFICES ASSUME UFInit PROVE CInv
  OBVIOUS
<1>1. IInv
  BY InitIInv
<1>2. \A t \in Terms : Root[t] = t
  BY <1>1, RootsNow DEF UFInit
<1> SUFFICES ASSUME NEW f \in Funs, NEW g \in Funs, Root[f] = Root[g] PROVE f = g
  BY DEF CInv, ClassTied
<1> QED BY <1>1, <1>2, ClassOfFunction

LEMMA AlwaysCongruent == UFSpec => [](IInv /\ RInv /\ DInv /\ CInv)
BY AlwaysIInv, InitRInv, NextRInv, InitDInv, NextDInv, InitCInv, NextCInv, PTL DEF UFSpec

(* When no call waits, functions of one class are alike in all positions   *)
(* of which no answer was dropped.                                         *)
LEMMA AlikeUnlessDropped ==
  ASSUME IInv, CInv, pending = <<>>,
         NEW f \in Funs, NEW g \in Funs, Root[f] = Root[g],
         NEW i \in Positions(f), ~Dropped(f, i)
  PROVE  Root[Component(f, i)] = Root[Component(g, i)]
<1> DEFINE S == {s \in Terms : Root[s] = Root[Component(f, i)]}
<1>1. Component(f, i) \in Terms /\ Component(g, i) \in Terms
  BY ClassOfFunction
<1>2. Waiting = {}
  BY DEF Waiting
<1>3. Tied(S, f, i) /\ ClassTied(f, i)
  BY <1>2 DEF Tied, CInv
<1>4. Component(f, i) \in S <=> Component(g, i) \in S
  BY <1>3 DEF ClassTied
<1> QED BY <1>1, <1>4

-----------------------------------------------------------------------------
(* The answer of uf_unify, whatever its arguments' types are and however   *)
(* deep the recursion goes.  True: they are in one class, and any two      *)
(* functions of it agree in every parameter and in the result, but for the *)
(* positions of which the answer of a recursive call was dropped.  False:  *)
(* no type is described by both.                                           *)
THEOREM AnswersAreRight == UFSpec => []AnswerIsRight
<1>1. IInv /\ RInv /\ DInv /\ CInv => AnswerIsRight
  <2> SUFFICES ASSUME IInv, RInv, CInv, pc = "call", pending = <<>> PROVE AnswerIsRight
    BY DEF AnswerIsRight
  <2>1. Answered /\ result # "none"
    BY DEF RInv, GoalOK, Unifying, Answered
  <2>2. CASE result = "true"
    <3>1. Root[goal[1]] = Root[goal[2]]
      BY <2>1, <2>2 DEF Answered
    <3>2. ASSUME NEW f \in Funs, Root[f] = Root[goal[1]], NEW g \in Funs, Root[g] = Root[goal[1]],
                 NEW i \in Positions(f)
          PROVE  \/ Alike(Root, f, g, i)
                 \/ \E h, k \in {e \in Funs : Root[e] = Root[goal[1]]} :
                      <<Component(h, i), Component(k, i)>> \in dropped
      BY <3>2, AlikeUnlessDropped DEF Alike, Dropped
    <3> QED BY <2>2, <3>1, <3>2 DEF AnswerIsRight
  <2>3. CASE result = "false"
    BY <2>1, <2>3 DEF AnswerIsRight, Answered
  <2> QED BY <2>1, <2>2, <2>3 DEF IInv, TypeOK
<1> QED BY <1>1, AlwaysCongruent, PTL

(* Between the calls of the type checker, two functions of one class have  *)
(* one type for each parameter, or some two functions of that class have   *)
(* parameters there that no type satisfies: the answer that uf_unify drops *)
(* is the only way for a parameter to be left behind.                      *)
THEOREM ParametersFollowFunctions == UFSpec => []Congruent
<1>1. IInv /\ RInv /\ DInv /\ CInv => Congruent
  <2> SUFFICES ASSUME IInv, RInv, DInv, CInv, pc = "idle", NEW f \in Funs, NEW g \in Funs,
                      Root[f] = Root[g], NEW i \in 1 .. Len(Params[f])
               PROVE  \/ Root[Params[f][i]] = Root[Params[g][i]]
                      \/ \E h, k \in Funs : /\ Root[h] = Root[f] /\ Root[k] = Root[f]
                                           /\ Apart(Root[Params[h][i]], Root[Params[k][i]])
    BY DEF Congruent
  <2>1. pending = <<>>
    BY DEF RInv, GoalOK, Unifying
  <2>2. ASSUME NEW h \in Funs, Root[h] = Root[f]
        PROVE  Component(h, i) = Params[h][i] /\ Params[h][i] \in Terms
    <3>1. i \in 1 .. Len(Params[h]) /\ Len(Params[h]) \in Nat
      BY <2>2, ClassOfFunction
    <3>2. i <= Len(Params[h]) /\ i \in Positions(h)
      BY <3>1 DEF Positions
    <3> QED BY <3>2, ClassOfFunction DEF Component
  <2>3. i \in Positions(f)
    BY ClassOfFunction DEF Positions
  <2>4. CASE Dropped(f, i)
    <3>1. PICK h \in Funs, k \in Funs :
            Root[h] = Root[f] /\ Root[k] = Root[f] /\ <<Component(h, i), Component(k, i)>> \in dropped
      BY <2>4 DEF Dropped
    <3>2. Apart(Root[Params[h][i]], Root[Params[k][i]])
      BY <3>1, <2>2 DEF DInv
    <3> QED BY <3>1, <3>2
  <2>5. CASE ~Dropped(f, i)
    BY <2>1, <2>2, <2>3, <2>5, AlikeUnlessDropped
  <2> QED BY <2>4, <2>5
<1> QED BY <1>1, AlwaysCongruent, PTL
=============================================================================
