-------------------------- MODULE TypeCheckProofs --------------------------
(***************************************************************************)
(* What the type checker accepts, refuses, and writes into the tree, for   *)
(* all programs.                                                           *)
(***************************************************************************)
EXTENDS TypeCheck, SequenceTheorems, WellFoundedInduction, TLAPS

LEMMA AllNumbers ==
  ASSUME NEW T, 0 \in T, \A n \in Nat : n \in T => n + 1 \in T
  PROVE  \A n \in Nat : n \in T
<1> DEFINE U == {n \in Nat : n \notin T}
<1> SUFFICES ASSUME U # {} PROVE FALSE
  OBVIOUS
<1>1. PICK n \in U : \A m \in U : ~ (<<m, n>> \in OpToRel(<, Nat))
  BY WFMin, NatLessThanWellFounded
<1>2. \A m \in U : ~ (m < n)
  BY <1>1 DEF OpToRel
<1>3. n # 0 /\ n - 1 \in Nat /\ n - 1 \notin U /\ (n - 1) + 1 = n
  BY <1>2
<1> QED BY <1>3

-----------------------------------------------------------------------------
(***************************************************************************)
(* The solver.  Linked terms are no bases, roots are not linked, and one   *)
(* set of links keeps what another one has tied.                           *)
(***************************************************************************)
IsBase(t) == t[1] = "base"

Sound(l) ==
  \A t \in DOMAIN l : l[t] \notin DOMAIN l /\ ~IsBase(t) /\ (IsFun(t) => IsFun(l[t]))

Keeps(l, m) == Sound(m) /\ \A t : Find(m, Find(l, t)) = Find(m, t)

(* No term of a set is tied to one outside.                                *)
Closed(A, l) == \A t \in DOMAIN l : t \in A <=> l[t] \in A

Tied(l, s, t) == Find(l, s) = Find(l, t)

LEMMA TermKinds ==
  /\ \A b : IsBase(Base(b)) /\ ~IsVar(Base(b)) /\ ~IsFun(Base(b)) /\ Base(b)[2] = b
  /\ \A x : IsVar(IdVar(x)) /\ ~IsBase(IdVar(x)) /\ ~IsFun(IdVar(x)) /\ IdVar(x)[2] = x
  /\ \A p : IsVar(NodeVar(p)) /\ ~IsBase(NodeVar(p)) /\ ~IsFun(NodeVar(p)) /\ NodeVar(p)[2] = p
  /\ \A at, ps, r : LET f == FunTerm(at, ps, r)
                    IN  IsFun(f) /\ ~IsVar(f) /\ ~IsBase(f) /\ f[2] = at /\ f[3] = ps /\ f[4] = r
BY DEF IsBase, IsVar, IsFun, Base, IdVar, NodeVar, FunTerm

LEMMA Apart ==
  /\ \A b, x : Base(b) # IdVar(x)
  /\ \A b, p : Base(b) # NodeVar(p)
  /\ \A x, p : IdVar(x) # NodeVar(p)
  /\ \A b, c : Base(b) = Base(c) => b = c
  /\ \A x, y : IdVar(x) = IdVar(y) => x = y
  /\ \A p, q : NodeVar(p) = NodeVar(q) => p = q
BY DEF Base, IdVar, NodeVar

LEMMA FindFacts ==
  ASSUME NEW l, Sound(l)
  PROVE  /\ \A t : Find(l, t) \notin DOMAIN l /\ Find(l, Find(l, t)) = Find(l, t)
         /\ \A t : IsFun(t) => IsFun(Find(l, t))
         /\ \A b : Find(l, Base(b)) = Base(b)
<1>1. \A b : Base(b) \notin DOMAIN l
  BY TermKinds DEF Sound
<1> QED BY <1>1 DEF Sound, Find

LEMMA ClosedFind ==
  ASSUME NEW l, NEW A, Closed(A, l)
  PROVE  \A t : Find(l, t) \in A <=> t \in A
BY DEF Closed, Find

LEMMA KeepsItself == ASSUME NEW l, Sound(l) PROVE Keeps(l, l)
BY FindFacts DEF Keeps

LEMMA KeepsOn ==
  ASSUME NEW l, NEW m, NEW n, Keeps(l, m), Keeps(m, n)
  PROVE  Keeps(l, n)
<1>1. ASSUME NEW t PROVE Find(n, Find(l, t)) = Find(n, t)
  <2>1. Find(n, Find(l, t)) = Find(n, Find(m, Find(l, t)))
    BY DEF Keeps
  <2>2. Find(m, Find(l, t)) = Find(m, t)
    BY DEF Keeps
  <2>3. Find(n, Find(m, t)) = Find(n, t)
    BY DEF Keeps
  <2> QED BY <2>1, <2>2, <2>3
<1> QED BY <1>1 DEF Keeps

LEMMA KeepsTied ==
  ASSUME NEW l, NEW m, Keeps(l, m)
  PROVE  /\ \A s, t : Tied(l, s, t) => Tied(m, s, t)
         /\ \A t, b : Find(l, t) = Base(b) => Find(m, t) = Base(b)
<1>1. ASSUME NEW s, NEW t, Tied(l, s, t) PROVE Tied(m, s, t)
  <2>1. Find(m, Find(l, s)) = Find(m, s) /\ Find(m, Find(l, t)) = Find(m, t)
    BY DEF Keeps
  <2> QED BY <1>1, <2>1 DEF Tied
<1>2. ASSUME NEW t, NEW b, Find(l, t) = Base(b) PROVE Find(m, t) = Base(b)
  <2>1. Find(m, Find(l, t)) = Find(m, t) /\ Sound(m)
    BY DEF Keeps
  <2> QED BY <1>2, <2>1, FindFacts
<1> QED BY <1>1, <1>2

LEMMA LinkFacts ==
  ASSUME NEW l, Sound(l), NEW x, NEW y, x \notin DOMAIN l, y \notin DOMAIN l, x # y,
         ~IsBase(x), IsFun(x) => IsFun(y)
  PROVE  LET m == Link(l, x, y)
         IN  /\ Keeps(l, m)
             /\ Find(m, x) = y /\ Find(m, y) = y
             /\ \A A : Closed(A, l) /\ (x \in A <=> y \in A) => Closed(A, m)
<1> DEFINE m == Link(l, x, y)
<1>1. DOMAIN m = DOMAIN l \cup {x} /\ \A t \in DOMAIN m : m[t] = IF Find(l, t) = x THEN y ELSE Find(l, t)
  BY DEF Link
<1>2. \A t : Find(m, t) = IF Find(l, t) = x THEN y ELSE Find(l, t)
  BY <1>1 DEF Find
<1>3. \A t : Find(l, t) \notin DOMAIN l /\ (IsFun(t) => IsFun(Find(l, t)))
  BY FindFacts
<1>4. Sound(m)
  <2> HIDE DEF m
  <2> QED BY <1>1, <1>3 DEF Sound
<1>5. \A t : Find(l, Find(l, t)) = Find(l, t)
  BY FindFacts
<1>6. Find(l, x) = x /\ Find(l, y) = y
  BY DEF Find
<1>7. ASSUME NEW A, Closed(A, l), x \in A <=> y \in A PROVE Closed(A, m)
  <2>1. \A t : Find(l, t) \in A <=> t \in A
    BY <1>7, ClosedFind
  <2> HIDE DEF m
  <2> QED BY <1>1, <1>7, <2>1 DEF Closed
<1> HIDE DEF m
<1>8. Keeps(l, m)
  BY <1>2, <1>4, <1>5 DEF Keeps
<1>9. Find(m, x) = y /\ Find(m, y) = y
  BY <1>2, <1>6
<1> QED BY <1>7, <1>8, <1>9 DEF m

(* What the answer r of a call of the solver has done to the links l.      *)
Unifies(l, s, t, r) ==
  /\ Keeps(l, r.links)
  /\ r.ok \in BOOLEAN
  /\ r.ok => Tied(r.links, s, t)
  /\ \A A : Closed(A, l) /\ (s \in A <=> t \in A) => Closed(A, r.links)

LEMMA UnifyTypesFacts ==
  ASSUME NEW l, Sound(l), NEW s, NEW t
  PROVE  Unifies(l, s, t, UnifyTypes(l, s, t))
<1> DEFINE x == Find(l, s)
           y == Find(l, t)
           r == UnifyTypes(l, s, t)
<1>1. x \notin DOMAIN l /\ y \notin DOMAIN l
  BY FindFacts
<1>2. \A z : IsVar(z) => ~IsBase(z) /\ ~IsFun(z)
  BY DEF IsVar, IsBase, IsFun
<1>3. \A A : Closed(A, l) => (s \in A <=> x \in A) /\ (t \in A <=> y \in A)
  BY ClosedFind
<1>4. ASSUME NEW m, Keeps(l, m), Find(m, x) = Find(m, y) PROVE Tied(m, s, t)
  BY <1>4 DEF Keeps, Tied
<1>5. CASE x = y
  <2>1. r.links = l /\ r.ok = TRUE
    BY <1>5 DEF UnifyTypes
  <2>2. Tied(l, s, t)
    BY <1>5 DEF Tied
  <2> HIDE DEF r
  <2> QED BY <2>1, <2>2, KeepsItself DEF Unifies, r
<1>6. CASE x # y /\ IsVar(x)
  <2>1. r.links = Link(l, x, y) /\ r.ok = TRUE
    BY <1>6 DEF UnifyTypes
  <2> HIDE DEF x, y, r
  <2> DEFINE m == Link(l, x, y)
  <2>2. /\ Keeps(l, m) /\ Find(m, x) = y /\ Find(m, y) = y
        /\ \A A : Closed(A, l) /\ (x \in A <=> y \in A) => Closed(A, m)
    BY <1>1, <1>2, <1>6, LinkFacts
  <2> HIDE DEF m
  <2>3. Tied(m, s, t)
    BY <1>4, <2>2
  <2>4. \A A : Closed(A, l) /\ (s \in A <=> t \in A) => Closed(A, m)
    BY <1>3, <2>2
  <2>5. Unifies(l, s, t, r)
    BY <2>1, <2>2, <2>3, <2>4 DEF Unifies, m
  <2> QED BY <2>5 DEF r
<1>7. CASE x # y /\ ~IsVar(x) /\ IsVar(y)
  <2>1. r.links = Link(l, y, x) /\ r.ok = TRUE
    BY <1>7 DEF UnifyTypes
  <2> HIDE DEF x, y, r
  <2> DEFINE m == Link(l, y, x)
  <2>2. /\ Keeps(l, m) /\ Find(m, y) = x /\ Find(m, x) = x
        /\ \A A : Closed(A, l) /\ (y \in A <=> x \in A) => Closed(A, m)
    BY <1>1, <1>2, <1>7, LinkFacts
  <2> HIDE DEF m
  <2>3. Tied(m, s, t)
    BY <1>4, <2>2
  <2>4. \A A : Closed(A, l) /\ (s \in A <=> t \in A) => Closed(A, m)
    BY <1>3, <2>2
  <2>5. Unifies(l, s, t, r)
    BY <2>1, <2>2, <2>3, <2>4 DEF Unifies, m
  <2> QED BY <2>5 DEF r
<1>8. CASE x # y /\ ~IsVar(x) /\ ~IsVar(y)
  <2>1. r.links = l /\ r.ok = FALSE
    BY <1>8 DEF UnifyTypes
  <2> HIDE DEF r
  <2> QED BY <2>1, KeepsItself DEF Unifies, r
<1> QED BY <1>5, <1>6, <1>7, <1>8

(* Terms have an answer that are in a set with one type at most.           *)
OneType(A) == \A u, v \in A : IsVar(u) \/ IsVar(v) \/ u = v

LEMMA UnifyTypesOk ==
  ASSUME NEW l, NEW s, NEW t, NEW A, Closed(A, l), s \in A, t \in A, OneType(A)
  PROVE  UnifyTypes(l, s, t).ok
<1>1. Find(l, s) \in A /\ Find(l, t) \in A
  BY ClosedFind
<1> DEFINE x == Find(l, s)
           y == Find(l, t)
<1>2. IsVar(x) \/ IsVar(y) \/ x = y
  BY <1>1 DEF OneType
<1>3. UnifyTypes(l, s, t) =
        CASE x = y                          -> [links |-> l, ok |-> TRUE]
          [] x # y /\ IsVar(x)              -> [links |-> Link(l, x, y), ok |-> TRUE]
          [] x # y /\ ~IsVar(x) /\ IsVar(y) -> [links |-> Link(l, y, x), ok |-> TRUE]
          [] OTHER                          -> [links |-> l, ok |-> FALSE]
  BY DEF UnifyTypes
<1> HIDE DEF x, y
<1> QED BY <1>2, <1>3

-----------------------------------------------------------------------------
(* Equations one after the other: what UnifyAll has after each.            *)
AfterEach(l, pairs, n, f) ==
  f = [i \in 0 .. n |->
         IF i = 0 THEN [links |-> l, ok |-> TRUE]
         ELSE LET u == UnifyTypes(f[i - 1].links, pairs[i][1], pairs[i][2])
              IN  [links |-> u.links, ok |-> f[i - 1].ok /\ u.ok]]

Following(pairs, r, i) ==
  LET u == UnifyTypes(r.links, pairs[i][1], pairs[i][2])
  IN  [links |-> u.links, ok |-> r.ok /\ u.ok]

Stepwise(l, pairs, n, f) ==
  /\ f[0] = [links |-> l, ok |-> TRUE]
  /\ \A i \in 1 .. n : f[i] = Following(pairs, f[i - 1], i)

LEMMA AfterEachSteps ==
  ASSUME NEW l, NEW pairs, NEW n \in Nat, NEW f, AfterEach(l, pairs, n, f)
  PROVE  Stepwise(l, pairs, n, f)
<1>1. f = [i \in 0 .. n |-> IF i = 0 THEN [links |-> l, ok |-> TRUE] ELSE Following(pairs, f[i - 1], i)]
  BY DEF AfterEach, Following
<1>2. \A i \in 0 .. n : f[i] = IF i = 0 THEN [links |-> l, ok |-> TRUE] ELSE Following(pairs, f[i - 1], i)
  BY ONLY <1>1, Zenon
<1>3. 0 \in 0 .. n /\ \A i \in 1 .. n : i \in 0 .. n /\ i # 0
  OBVIOUS
<1> QED BY <1>2, <1>3, Zenon DEF Stepwise

LEMMA AfterEachExists ==
  ASSUME NEW l, NEW pairs
  PROVE  \A n \in Nat : \E f : AfterEach(l, pairs, n, f)
<1> DEFINE T == {n \in Nat : \E f : AfterEach(l, pairs, n, f)}
           start == [links |-> l, ok |-> TRUE]
           Made(f, n) == [i \in 0 .. n |-> IF i = 0 THEN start ELSE Following(pairs, f[i - 1], i)]
<1>1. \A n, f : AfterEach(l, pairs, n, f) <=> f = Made(f, n)
  BY DEF AfterEach, Following
<1>2. 0 \in T
  <2> DEFINE f == [i \in 0 .. 0 |-> start]
  <2>1. Made(f, 0) = f
    <3>1. \A i \in 0 .. 0 : i = 0
      OBVIOUS
    <3> HIDE DEF start
    <3> QED BY <3>1, Zenon
  <2>2. AfterEach(l, pairs, 0, f)
    BY <1>1, <2>1
  <2> HIDE DEF f
  <2> QED BY <2>2
<1>3. ASSUME NEW n \in Nat, n \in T PROVE n + 1 \in T
  <2>1. PICK f : AfterEach(l, pairs, n, f)
    BY <1>3
  <2> DEFINE g == Made(f, n + 1)
  <2>2. f = Made(f, n)
    BY <1>1, <2>1
  <2>3. \A i \in 0 .. n : f[i] = IF i = 0 THEN start ELSE Following(pairs, f[i - 1], i)
    <3> HIDE DEF start
    <3> QED BY ONLY <2>2, Zenon
  <2>4. \A i \in 0 .. n + 1 : g[i] = IF i = 0 THEN start ELSE Following(pairs, f[i - 1], i)
    OBVIOUS
  <2>5. \A i \in 0 .. n : i \in 0 .. n + 1
    OBVIOUS
  <2>6. \A i \in 0 .. n : g[i] = f[i]
    <3> HIDE DEF start, g
    <3> QED BY <2>3, <2>4, <2>5, Zenon
  <2>7. \A i \in 0 .. n + 1 : i # 0 => i - 1 \in 0 .. n
    OBVIOUS
  <2>8. \A i \in 0 .. n + 1 : g[i] = IF i = 0 THEN start ELSE Following(pairs, g[i - 1], i)
    <3> HIDE DEF start, g
    <3>1. \A i \in 0 .. n + 1 : i # 0 => g[i - 1] = f[i - 1]
      BY <2>6, <2>7, Zenon
    <3> QED BY <2>4, <3>1, Zenon
  <2>9. g = Made(g, n + 1)
    <3>1. g = [i \in 0 .. n + 1 |-> g[i]]
      OBVIOUS
    <3> HIDE DEF start, g
    <3>2. [i \in 0 .. n + 1 |-> g[i]] = Made(g, n + 1)
      BY ONLY <2>8, Zenon
    <3> QED BY ONLY <3>1, <3>2, Zenon
  <2>10. AfterEach(l, pairs, n + 1, g)
    BY ONLY <1>1, <2>9, Zenon
  <2> HIDE DEF g
  <2> QED BY <2>10
<1> HIDE DEF T
<1>4. \A n \in Nat : n \in T
  BY <1>2, <1>3, AllNumbers
<1> QED BY <1>4 DEF T

LEMMA UnifyAllChosen ==
  ASSUME NEW l, NEW pairs, Len(pairs) \in Nat
  PROVE  \E f : AfterEach(l, pairs, Len(pairs), f) /\ UnifyAll(l, pairs) = f[Len(pairs)]
<1> DEFINE f == CHOOSE f : AfterEach(l, pairs, Len(pairs), f)
<1>1. \E g : AfterEach(l, pairs, Len(pairs), g)
  BY AfterEachExists
<1>2. AfterEach(l, pairs, Len(pairs), f)
  BY ONLY <1>1, Zenon
<1>3. UnifyAll(l, pairs) = f[Len(pairs)]
  BY DEF UnifyAll, AfterEach
<1> QED BY <1>2, <1>3

(* The first n equations have been made.                                   *)
Balanced(A, pairs) == \A i \in DOMAIN pairs : pairs[i][1] \in A <=> pairs[i][2] \in A

UnifiesAll(l, pairs, n, r) ==
  /\ Keeps(l, r.links)
  /\ r.ok \in BOOLEAN
  /\ r.ok => \A i \in 1 .. n : Tied(r.links, pairs[i][1], pairs[i][2])
  /\ \A A : Closed(A, l) /\ Balanced(A, pairs) => Closed(A, r.links)
  /\ (\A i \in DOMAIN pairs : \E A : /\ Closed(A, l) /\ OneType(A) /\ Balanced(A, pairs)
                                     /\ pairs[i][1] \in A) => r.ok
  /\ (\A i \in DOMAIN pairs : pairs[i][1] = pairs[i][2]) => r.links = l

LEMMA UnifyAllFacts ==
  ASSUME NEW l, Sound(l), NEW S, NEW pairs \in Seq(S)
  PROVE  UnifiesAll(l, pairs, Len(pairs), UnifyAll(l, pairs))
<1>1. Len(pairs) \in Nat /\ DOMAIN pairs = 1 .. Len(pairs)
  OBVIOUS
<1>2. PICK f : AfterEach(l, pairs, Len(pairs), f) /\ UnifyAll(l, pairs) = f[Len(pairs)]
  BY <1>1, UnifyAllChosen
<1>3. Stepwise(l, pairs, Len(pairs), f)
  BY <1>1, <1>2, AfterEachSteps
<1> DEFINE T == {n \in Nat : n <= Len(pairs) => UnifiesAll(l, pairs, n, f[n])}
<1>4. 0 \in T
  <2>1. f[0].links = l /\ f[0].ok = TRUE
    BY <1>3 DEF Stepwise
  <2>2. Keeps(l, l)
    BY KeepsItself
  <2>3. \A i \in 1 .. 0 : FALSE
    OBVIOUS
  <2>4. UnifiesAll(l, pairs, 0, f[0])
    BY <2>1, <2>2, <2>3 DEF UnifiesAll
  <2> QED BY <2>4
<1>5. ASSUME NEW n \in Nat, n \in T PROVE n + 1 \in T
  <2>1. SUFFICES ASSUME n + 1 <= Len(pairs) PROVE UnifiesAll(l, pairs, n + 1, f[n + 1])
    OBVIOUS
  <2>2. UnifiesAll(l, pairs, n, f[n])
    BY <1>1, <1>5, <2>1
  <2>3. n + 1 \in 1 .. Len(pairs) /\ (n + 1) - 1 = n
    BY <1>1, <2>1
  <2>4. f[n + 1] = Following(pairs, f[n], n + 1)
    BY <1>3, <2>3 DEF Stepwise
  <2> DEFINE q == f[n]
             r == f[n + 1]
             s == pairs[n + 1][1]
             t == pairs[n + 1][2]
             u == UnifyTypes(q.links, s, t)
  <2>5. r.links = u.links /\ r.ok = (q.ok /\ u.ok)
    BY <2>4 DEF Following
  <2>6. Keeps(l, q.links) /\ Sound(q.links)
    BY <2>2 DEF UnifiesAll, Keeps
  <2>7. Unifies(q.links, s, t, u)
    BY <2>6, UnifyTypesFacts
  <2> HIDE DEF u
  <2>8. Keeps(q.links, r.links)
    BY <2>5, <2>7 DEF Unifies
  <2>9. Keeps(l, r.links)
    BY <2>6, <2>8, KeepsOn
  <2>10. r.ok \in BOOLEAN
    BY <2>2, <2>5, <2>7 DEF UnifiesAll, Unifies
  <2>11. ASSUME r.ok, NEW i \in 1 .. n + 1 PROVE Tied(r.links, pairs[i][1], pairs[i][2])
    <3>1. q.ok /\ u.ok
      BY <2>2, <2>5, <2>7, <2>11 DEF UnifiesAll, Unifies
    <3>2. CASE i = n + 1
      BY <2>5, <2>7, <3>1, <3>2 DEF Unifies
    <3>3. CASE i \in 1 .. n
      <4>1. Tied(q.links, pairs[i][1], pairs[i][2])
        BY <2>2, <3>1, <3>3 DEF UnifiesAll
      <4> QED BY <2>8, <4>1, KeepsTied
    <3> QED BY <3>2, <3>3
  <2>12. ASSUME NEW A, Closed(A, l), Balanced(A, pairs) PROVE Closed(A, q.links) /\ Closed(A, r.links)
    <3>1. Closed(A, q.links)
      BY <2>2, <2>12 DEF UnifiesAll
    <3>2. s \in A <=> t \in A
      BY <1>1, <2>3, <2>12 DEF Balanced
    <3>3. Closed(A, u.links)
      BY <2>7, <3>1, <3>2 DEF Unifies
    <3> QED BY <2>5, <3>1, <3>3
  <2>13. ASSUME \A i \in DOMAIN pairs : \E A : /\ Closed(A, l) /\ OneType(A) /\ Balanced(A, pairs)
                                               /\ pairs[i][1] \in A
         PROVE  r.ok
    <3>1. q.ok
      BY <2>2, <2>13 DEF UnifiesAll
    <3>2. PICK A : Closed(A, l) /\ OneType(A) /\ Balanced(A, pairs) /\ s \in A
      BY <1>1, <2>3, <2>13
    <3>3. t \in A
      BY <1>1, <2>3, <3>2 DEF Balanced
    <3>4. Closed(A, q.links)
      BY <2>12, <3>2
    <3>5. u.ok
      BY <3>2, <3>3, <3>4, UnifyTypesOk DEF u
    <3> QED BY <2>5, <3>1, <3>5
  <2>14. ASSUME \A i \in DOMAIN pairs : pairs[i][1] = pairs[i][2] PROVE r.links = l
    <3>1. q.links = l
      BY <2>2, <2>14 DEF UnifiesAll
    <3>2. s = t
      BY <1>1, <2>3, <2>14
    <3>3. u.links = q.links
      BY <3>2 DEF UnifyTypes, u
    <3> QED BY <2>5, <3>1, <3>3
  <2> HIDE DEF q, r, s, t
  <2>15. UnifiesAll(l, pairs, n + 1, r)
    BY <2>9, <2>10, <2>11, <2>12, <2>13, <2>14 DEF UnifiesAll
  <2> QED BY <2>15 DEF r
<1> HIDE DEF T
<1>6. \A n \in Nat : n \in T
  BY <1>4, <1>5, AllNumbers
<1>7. Len(pairs) \in T
  BY <1>1, <1>6
<1>8. UnifiesAll(l, pairs, Len(pairs), f[Len(pairs)])
  BY <1>1, <1>7 DEF T
<1> QED BY <1>2, <1>8

-----------------------------------------------------------------------------
(* Lists: the elements that Those leaves.                                  *)
LEMMA Least ==
  ASSUME NEW T, T \subseteq Nat, T # {}
  PROVE  \E n \in T : \A m \in T : n <= m
<1>1. PICK n \in T : \A m \in T : ~ (<<m, n>> \in OpToRel(<, Nat))
  BY WFMin, NatLessThanWellFounded
<1>2. \A m \in T : ~ (m < n)
  BY <1>1 DEF OpToRel
<1> QED BY <1>2

Taking(list, S, before, i) == IF list[i] \in S THEN Append(before, list[i]) ELSE before

Takes(list, S, n, f) ==
  f = [i \in 0 .. n |-> IF i = 0 THEN <<>>
                        ELSE IF list[i] \in S THEN Append(f[i - 1], list[i]) ELSE f[i - 1]]

TakesSteps(list, S, n, f) ==
  /\ f[0] = <<>>
  /\ \A i \in 1 .. n : f[i] = Taking(list, S, f[i - 1], i)

LEMMA TakesStepwise ==
  ASSUME NEW list, NEW S, NEW n \in Nat, NEW f, Takes(list, S, n, f)
  PROVE  TakesSteps(list, S, n, f)
<1>1. f = [i \in 0 .. n |-> IF i = 0 THEN <<>> ELSE Taking(list, S, f[i - 1], i)]
  BY DEF Takes, Taking
<1>2. \A i \in 0 .. n : f[i] = IF i = 0 THEN <<>> ELSE Taking(list, S, f[i - 1], i)
  BY ONLY <1>1, Zenon
<1>3. 0 \in 0 .. n /\ \A i \in 1 .. n : i \in 0 .. n /\ i # 0
  OBVIOUS
<1> QED BY <1>2, <1>3, Zenon DEF TakesSteps

LEMMA TakesExists ==
  ASSUME NEW list, NEW S
  PROVE  \A n \in Nat : \E f : Takes(list, S, n, f)
<1> DEFINE T == {n \in Nat : \E f : Takes(list, S, n, f)}
           Made(f, n) == [i \in 0 .. n |-> IF i = 0 THEN <<>> ELSE Taking(list, S, f[i - 1], i)]
<1>1. \A n, f : Takes(list, S, n, f) <=> f = Made(f, n)
  BY DEF Takes, Taking
<1>2. 0 \in T
  <2> DEFINE f == [i \in 0 .. 0 |-> <<>>]
  <2>1. Made(f, 0) = f
    <3>1. \A i \in 0 .. 0 : i = 0
      OBVIOUS
    <3> QED BY <3>1, Zenon
  <2>2. Takes(list, S, 0, f)
    BY <1>1, <2>1
  <2> HIDE DEF f
  <2> QED BY <2>2
<1>3. ASSUME NEW n \in Nat, n \in T PROVE n + 1 \in T
  <2>1. PICK f : Takes(list, S, n, f)
    BY <1>3
  <2> DEFINE g == Made(f, n + 1)
  <2>2. f = Made(f, n)
    BY <1>1, <2>1
  <2>3. \A i \in 0 .. n : f[i] = IF i = 0 THEN <<>> ELSE Taking(list, S, f[i - 1], i)
    BY ONLY <2>2, Zenon
  <2>4. \A i \in 0 .. n + 1 : g[i] = IF i = 0 THEN <<>> ELSE Taking(list, S, f[i - 1], i)
    OBVIOUS
  <2>5. \A i \in 0 .. n : i \in 0 .. n + 1
    OBVIOUS
  <2>6. \A i \in 0 .. n : g[i] = f[i]
    <3> HIDE DEF g
    <3> QED BY <2>3, <2>4, <2>5, Zenon
  <2>7. \A i \in 0 .. n + 1 : i # 0 => i - 1 \in 0 .. n
    OBVIOUS
  <2>8. \A i \in 0 .. n + 1 : g[i] = IF i = 0 THEN <<>> ELSE Taking(list, S, g[i - 1], i)
    <3> HIDE DEF g
    <3>1. \A i \in 0 .. n + 1 : i # 0 => g[i - 1] = f[i - 1]
      BY <2>6, <2>7, Zenon
    <3> QED BY <2>4, <3>1, Zenon
  <2>9. g = Made(g, n + 1)
    <3>1. g = [i \in 0 .. n + 1 |-> g[i]]
      OBVIOUS
    <3> HIDE DEF g
    <3>2. [i \in 0 .. n + 1 |-> g[i]] = Made(g, n + 1)
      BY ONLY <2>8, Zenon
    <3> QED BY ONLY <3>1, <3>2, Zenon
  <2>10. Takes(list, S, n + 1, g)
    BY ONLY <1>1, <2>9, Zenon
  <2> HIDE DEF g
  <2> QED BY <2>10
<1> HIDE DEF T
<1>4. \A n \in Nat : n \in T
  BY <1>2, <1>3, AllNumbers
<1> QED BY <1>4 DEF T

LEMMA ThoseFacts ==
  ASSUME NEW L, NEW list \in Seq(L), NEW S
  PROVE  /\ Those(list, S) \in Seq(L)
         /\ \A i \in DOMAIN Those(list, S) : \E k \in DOMAIN list : list[k] \in S /\ Those(list, S)[i] = list[k]
<1>1. Len(list) \in Nat /\ DOMAIN list = 1 .. Len(list)
  OBVIOUS
<1> DEFINE f == CHOOSE f : Takes(list, S, Len(list), f)
<1>2. \E g : Takes(list, S, Len(list), g)
  BY <1>1, TakesExists
<1>3. Takes(list, S, Len(list), f)
  BY ONLY <1>2, Zenon
<1>4. Those(list, S) = f[Len(list)]
  BY DEF Those, Takes
<1>5. TakesSteps(list, S, Len(list), f)
  BY <1>1, <1>3, TakesStepwise
<1> HIDE DEF f
<1> DEFINE Fine(s) == s \in Seq(L) /\ \A i \in 1 .. Len(s) : \E k \in DOMAIN list : list[k] \in S /\ s[i] = list[k]
           T == {n \in Nat : n <= Len(list) => Fine(f[n])}
<1>6. 0 \in T
  <2>1. f[0] = <<>>
    BY <1>5 DEF TakesSteps
  <2>2. Fine(<<>>)
    OBVIOUS
  <2> QED BY <2>1, <2>2
<1>7. ASSUME NEW n \in Nat, n \in T PROVE n + 1 \in T
  <2>1. SUFFICES ASSUME n + 1 <= Len(list) PROVE Fine(f[n + 1])
    OBVIOUS
  <2>2. Fine(f[n])
    BY <1>1, <1>7, <2>1
  <2>3. n + 1 \in 1 .. Len(list) /\ (n + 1) - 1 = n /\ n + 1 \in DOMAIN list
    BY <1>1, <2>1
  <2>4. f[n + 1] = Taking(list, S, f[n], n + 1)
    BY <1>5, <2>3 DEF TakesSteps
  <2> DEFINE s == f[n]
             x == list[n + 1]
  <2>5. CASE x \in S
    <3>1. f[n + 1] = Append(s, x)
      BY <2>4, <2>5 DEF Taking
    <3>2. s \in Seq(L) /\ x \in L
      BY <2>2, <2>3
    <3> HIDE DEF s, x
    <3>3. /\ Append(s, x) \in Seq(L) /\ Len(Append(s, x)) = Len(s) + 1 /\ Len(s) \in Nat
          /\ \A i \in 1 .. Len(s) : Append(s, x)[i] = s[i]
          /\ Append(s, x)[Len(s) + 1] = x
      BY <3>2, AppendProperties
    <3>4. ASSUME NEW i \in 1 .. Len(s) + 1
          PROVE  \E k \in DOMAIN list : list[k] \in S /\ Append(s, x)[i] = list[k]
      <4>1. CASE i = Len(s) + 1
        BY <2>3, <2>5, <3>3, <4>1 DEF x
      <4>2. CASE i # Len(s) + 1
        <5>1. i \in 1 .. Len(s)
          BY <3>3, <4>2
        <5>2. \E k \in DOMAIN list : list[k] \in S /\ s[i] = list[k]
          BY <2>2, <5>1 DEF s
        <5> QED BY <3>3, <5>1, <5>2
      <4> QED BY <4>1, <4>2
    <3> QED BY <3>1, <3>3, <3>4
  <2>6. CASE x \notin S
    <3>1. f[n + 1] = s
      BY <2>4, <2>6 DEF Taking
    <3> QED BY <2>2, <3>1
  <2> QED BY <2>5, <2>6
<1> HIDE DEF T
<1>8. \A n \in Nat : n \in T
  BY <1>6, <1>7, AllNumbers
<1>9. Fine(f[Len(list)])
  BY <1>1, <1>8 DEF T
<1> QED BY <1>4, <1>9

-----------------------------------------------------------------------------
(* Paths.                                                                  *)
LEMMA PrefixDef ==
  ASSUME NEW p \in Seq(Nat), NEW q \in Seq(Nat)
  PROVE  IsPrefix(p, q) <=> Len(p) <= Len(q) /\ \A i \in 1 .. Len(p) : p[i] = q[i]
<1>1. Len(p) \in Nat /\ Len(q) \in Nat
  OBVIOUS
<1>2. CASE Len(p) <= Len(q)
  <2> DEFINE n == Len(p)
             a == SubSeq(p, 1, n)
             b == SubSeq(q, 1, n)
  <2>1. n \in Int /\ \A i \in 1 .. n : p[i] \in Nat /\ q[i] \in Nat
    BY <1>1, <1>2
  <2> HIDE DEF n
  <2>2. /\ a \in Seq(Nat) /\ Len(a) = IF 1 <= n THEN n - 1 + 1 ELSE 0
        /\ \A i \in 1 .. n - 1 + 1 : a[i] = p[1 + i - 1]
    BY <2>1, SubSeqProperties
  <2>3. /\ b \in Seq(Nat) /\ Len(b) = IF 1 <= n THEN n - 1 + 1 ELSE 0
        /\ \A i \in 1 .. n - 1 + 1 : b[i] = q[1 + i - 1]
    BY <2>1, SubSeqProperties
  <2>4. Len(a) = n /\ Len(b) = n
    BY <1>1, <2>2, <2>3 DEF n
  <2>5. \A i \in 1 .. n : a[i] = p[i] /\ b[i] = q[i]
    BY <1>1, <2>2, <2>3 DEF n
  <2>6. IsPrefix(p, q) <=> Len(p) <= Len(q) /\ a = b
    BY DEF IsPrefix, n
  <2> HIDE DEF a, b
  <2>7. a = b <=> \A i \in 1 .. n : a[i] = b[i]
    BY <2>2, <2>3, <2>4, SeqEqual
  <2> QED BY <1>2, <2>5, <2>6, <2>7 DEF n
<1>3. CASE ~(Len(p) <= Len(q))
  BY <1>3 DEF IsPrefix
<1> QED BY <1>2, <1>3

LEMMA ChildFacts ==
  ASSUME NEW p \in Seq(Nat), NEW i \in Nat
  PROVE  /\ Append(p, i) \in Seq(Nat) /\ Len(p) \in Nat /\ Len(Append(p, i)) = Len(p) + 1
         /\ \A j \in 1 .. Len(p) : Append(p, i)[j] = p[j]
         /\ Append(p, i)[Len(p) + 1] = i
         /\ DOMAIN Append(p, i) = 1 .. Len(p) + 1 /\ DOMAIN p = 1 .. Len(p)
<1>1. DOMAIN Append(p, i) = 1 .. Len(Append(p, i))
  BY AppendProperties
<1> QED BY <1>1, AppendProperties

LEMMA PrefixItself == ASSUME NEW p \in Seq(Nat) PROVE IsPrefix(p, p)
BY PrefixDef

LEMMA PrefixOn ==
  ASSUME NEW p \in Seq(Nat), NEW q \in Seq(Nat), NEW r \in Seq(Nat), IsPrefix(p, q), IsPrefix(q, r)
  PROVE  IsPrefix(p, r)
<1>1. Len(p) \in Nat /\ Len(q) \in Nat /\ Len(r) \in Nat
  OBVIOUS
<1>2. Len(p) <= Len(q) /\ \A i \in 1 .. Len(p) : p[i] = q[i]
  BY PrefixDef
<1>3. Len(q) <= Len(r) /\ \A i \in 1 .. Len(q) : q[i] = r[i]
  BY PrefixDef
<1>4. Len(p) <= Len(r) /\ \A i \in 1 .. Len(p) : p[i] = r[i]
  BY <1>1, <1>2, <1>3
<1> QED BY <1>4, PrefixDef

LEMMA PrefixSame ==
  ASSUME NEW p \in Seq(Nat), NEW q \in Seq(Nat), IsPrefix(p, q), Len(p) = Len(q)
  PROVE  p = q
<1>1. \A i \in 1 .. Len(p) : p[i] = q[i]
  BY PrefixDef
<1> QED BY <1>1, SeqEqual

LEMMA PrefixShorter ==
  ASSUME NEW p \in Seq(Nat), NEW q \in Seq(Nat), IsPrefix(p, q)
  PROVE  Len(p) \in Nat /\ Len(q) \in Nat /\ Len(p) <= Len(q) /\ (p # q => Len(p) < Len(q))
BY PrefixDef, PrefixSame

LEMMA PrefixOfChild ==
  ASSUME NEW p \in Seq(Nat), NEW q \in Seq(Nat), NEW i \in Nat
  PROVE  IsPrefix(q, Append(p, i)) <=> q = Append(p, i) \/ IsPrefix(q, p)
<1> DEFINE c == Append(p, i)
<1>1. /\ c \in Seq(Nat) /\ Len(p) \in Nat /\ Len(c) = Len(p) + 1
      /\ \A j \in 1 .. Len(p) : c[j] = p[j]
  BY ChildFacts
<1> HIDE DEF c
<1>2. Len(q) \in Nat
  OBVIOUS
<1>3. ASSUME IsPrefix(q, c), q # c PROVE IsPrefix(q, p)
  <2>1. Len(q) < Len(c) /\ \A j \in 1 .. Len(q) : q[j] = c[j]
    BY <1>1, <1>3, PrefixShorter, PrefixDef
  <2>2. Len(q) <= Len(p) /\ \A j \in 1 .. Len(q) : j \in 1 .. Len(p)
    <3>1. Len(q) < Len(p) + 1 /\ Len(p) \in Nat
      BY <1>1, <2>1
    <3> QED BY <1>2, <3>1
  <2>3. \A j \in 1 .. Len(q) : q[j] = p[j]
    BY <1>1, <2>1, <2>2, Zenon
  <2> QED BY <2>2, <2>3, PrefixDef
<1>4. ASSUME IsPrefix(q, p) PROVE IsPrefix(q, c)
  <2>1. Len(q) <= Len(p) /\ \A j \in 1 .. Len(q) : q[j] = p[j]
    BY <1>4, PrefixDef
  <2>2. Len(q) <= Len(c) /\ \A j \in 1 .. Len(q) : q[j] = c[j]
    BY <1>1, <1>2, <2>1
  <2> QED BY <1>1, <2>2, PrefixDef
<1>5. IsPrefix(c, c)
  BY <1>1, PrefixItself
<1> QED BY <1>3, <1>4, <1>5 DEF c

LEMMA ChildOnTheWay ==
  ASSUME NEW p \in Seq(Nat), NEW q \in Seq(Nat), IsPrefix(p, q), p # q
  PROVE  q[Len(p) + 1] \in Nat /\ IsPrefix(Append(p, q[Len(p) + 1]), q)
<1>1. Len(p) < Len(q) /\ Len(p) \in Nat /\ Len(q) \in Nat /\ \A j \in 1 .. Len(p) : p[j] = q[j]
  BY PrefixShorter, PrefixDef
<1>2. q[Len(p) + 1] \in Nat
  BY <1>1
<1> DEFINE i == q[Len(p) + 1]
           c == Append(p, i)
<1>3. /\ c \in Seq(Nat) /\ Len(c) = Len(p) + 1
      /\ \A j \in 1 .. Len(p) : c[j] = p[j]
      /\ c[Len(p) + 1] = i
  BY <1>2, ChildFacts
<1> HIDE DEF c
<1>4. Len(c) <= Len(q) /\ \A j \in 1 .. Len(c) : j \in 1 .. Len(p) \/ j = Len(p) + 1
  BY <1>1, <1>3
<1>6. \A j \in 1 .. Len(c) : c[j] = q[j]
  BY <1>1, <1>3, <1>4, Zenon DEF i
<1>5. IsPrefix(c, q)
  BY <1>3, <1>4, <1>6, PrefixDef
<1> QED BY <1>2, <1>5 DEF c

LEMMA FrontFacts ==
  ASSUME NEW p \in Seq(Nat), p # <<>>
  PROVE  /\ Front(p) \in Seq(Nat) /\ Last(p) \in Nat
         /\ p = Append(Front(p), Last(p))
<1> DEFINE n == Len(p) - 1
           f == SubSeq(p, 1, n)
<1>1. Len(p) \in Nat /\ Len(p) > 0
  OBVIOUS
<1>2. n \in Nat /\ n \in Int /\ Len(p) = n + 1 /\ \A i \in 1 .. n : p[i] \in Nat
  BY <1>1
<1>3. p[Len(p)] \in Nat
  BY <1>1
<1>4. Front(p) = f /\ Last(p) = p[Len(p)]
  BY DEF Front, Last
<1> HIDE DEF n
<1>5. /\ f \in Seq(Nat) /\ Len(f) = IF 1 <= n THEN n - 1 + 1 ELSE 0
      /\ \A i \in 1 .. n - 1 + 1 : f[i] = p[1 + i - 1]
  BY <1>2, SubSeqProperties
<1>6. Len(f) = n
  BY <1>2, <1>5
<1>7. \A i \in 1 .. n : f[i] = p[i]
  BY <1>2, <1>5
<1> HIDE DEF f
<1> DEFINE a == Append(f, p[Len(p)])
<1>8. /\ a \in Seq(Nat) /\ Len(a) = n + 1
      /\ \A i \in 1 .. n : a[i] = f[i]
      /\ a[n + 1] = p[Len(p)]
  BY <1>3, <1>5, <1>6, AppendProperties
<1> HIDE DEF a
<1>9. \A i \in 1 .. n + 1 : i \in 1 .. n \/ i = n + 1
  BY <1>2
<1>10. \A i \in 1 .. n + 1 : p[i] = a[i]
  BY <1>2, <1>7, <1>8, <1>9
<1>11. p = a
  BY <1>2, <1>8, <1>10, SeqEqual
<1> QED BY <1>3, <1>4, <1>5, <1>11 DEF a

LEMMA ChildInjective ==
  ASSUME NEW p \in Seq(Nat), NEW i \in Nat, NEW q \in Seq(Nat), NEW j \in Nat, Append(p, i) = Append(q, j)
  PROVE  p = q /\ i = j
<1>1. Len(p) = Len(q)
  BY ChildFacts
<1>2. i = j
  BY <1>1, ChildFacts
<1> DEFINE c == Append(p, i)
<1>3. \A k \in 1 .. Len(p) : c[k] = p[k]
  BY ChildFacts
<1>4. c = Append(q, j)
  OBVIOUS
<1> HIDE DEF c
<1>5. \A k \in 1 .. Len(q) : c[k] = q[k]
  BY <1>4, ChildFacts
<1>6. \A k \in 1 .. Len(p) : p[k] = q[k]
  BY <1>1, <1>3, <1>5
<1>7. p = q
  BY <1>1, <1>6, SeqEqual
<1> QED BY <1>2, <1>7

LEMMA FrontOfChild ==
  ASSUME NEW p \in Seq(Nat), NEW i \in Nat
  PROVE  Front(Append(p, i)) = p /\ Last(Append(p, i)) = i
<1> DEFINE c == Append(p, i)
<1>1. c \in Seq(Nat) /\ c # <<>>
  BY AppendProperties
<1> HIDE DEF c
<1>2. Front(c) \in Seq(Nat) /\ Last(c) \in Nat /\ c = Append(Front(c), Last(c))
  BY <1>1, FrontFacts
<1>3. Append(p, i) = Append(Front(c), Last(c))
  BY <1>2 DEF c
<1> QED BY <1>2, <1>3, ChildInjective DEF c

LEMMA LeftOfApart ==
  ASSUME NEW p \in Seq(Nat), NEW q \in Seq(Nat), LeftOf(p, q)
  PROVE  ~LeftOf(q, p) /\ ~IsPrefix(p, q) /\ ~IsPrefix(q, p) /\ p # q
<1>1. DOMAIN p = 1 .. Len(p) /\ DOMAIN q = 1 .. Len(q) /\ Len(p) \in Nat /\ Len(q) \in Nat
  OBVIOUS
<1>2. PICK i \in DOMAIN p \cap DOMAIN q : p[i] < q[i] /\ \A j \in 1 .. i - 1 : p[j] = q[j]
  BY DEF LeftOf
<1>3. p[i] \in Nat /\ q[i] \in Nat /\ i \in 1 .. Len(p) /\ i \in 1 .. Len(q) /\ p[i] # q[i] /\ i \in Nat
  BY <1>1, <1>2
<1>4. ~IsPrefix(p, q) /\ ~IsPrefix(q, p)
  BY <1>3, PrefixDef
<1>5. ASSUME LeftOf(q, p) PROVE FALSE
  <2>1. PICK k \in DOMAIN q \cap DOMAIN p : q[k] < p[k] /\ \A j \in 1 .. k - 1 : q[j] = p[j]
    BY <1>5 DEF LeftOf
  <2>2. k \in Nat /\ q[k] # p[k] /\ k >= 1 /\ i >= 1 /\ q[k] \in Nat /\ p[k] \in Nat
    BY <1>1, <1>3, <2>1
  <2>3. ~(k \in 1 .. i - 1) /\ ~(i \in 1 .. k - 1)
    BY <1>2, <1>3, <2>1, <2>2
  <2>4. k = i
    BY <1>3, <2>2, <2>3
  <2> QED BY <1>2, <1>3, <2>1, <2>4
<1>6. p # q
  BY <1>3
<1> QED BY <1>4, <1>5, <1>6

LEMMA LeftOfBelow ==
  ASSUME NEW p \in Seq(Nat), NEW q \in Seq(Nat), NEW r \in Seq(Nat), IsPrefix(p, r)
  PROVE  (LeftOf(p, q) => LeftOf(r, q)) /\ (LeftOf(q, p) => LeftOf(q, r))
<1>1. /\ DOMAIN p = 1 .. Len(p) /\ DOMAIN q = 1 .. Len(q) /\ DOMAIN r = 1 .. Len(r)
      /\ Len(p) \in Nat /\ Len(q) \in Nat /\ Len(r) \in Nat
  OBVIOUS
<1>2. Len(p) <= Len(r) /\ \A i \in 1 .. Len(p) : p[i] = r[i]
  BY PrefixDef
<1>3. ASSUME NEW i \in DOMAIN p PROVE i \in DOMAIN r /\ r[i] = p[i] /\ \A j \in 1 .. i - 1 : r[j] = p[j]
  <2>1. i \in DOMAIN r /\ \A j \in 1 .. i - 1 : j \in 1 .. Len(p)
    BY <1>1, <1>2
  <2> QED BY <1>1, <1>2, <2>1
<1>4. ASSUME LeftOf(p, q) PROVE LeftOf(r, q)
  <2>1. PICK i \in DOMAIN p \cap DOMAIN q : p[i] < q[i] /\ \A j \in 1 .. i - 1 : p[j] = q[j]
    BY <1>4 DEF LeftOf
  <2>2. i \in DOMAIN r \cap DOMAIN q /\ r[i] < q[i] /\ \A j \in 1 .. i - 1 : r[j] = q[j]
    BY <1>3, <2>1
  <2> QED BY <2>2 DEF LeftOf
<1>5. ASSUME LeftOf(q, p) PROVE LeftOf(q, r)
  <2>1. PICK i \in DOMAIN q \cap DOMAIN p : q[i] < p[i] /\ \A j \in 1 .. i - 1 : q[j] = p[j]
    BY <1>5 DEF LeftOf
  <2>2. i \in DOMAIN q \cap DOMAIN r /\ q[i] < r[i] /\ \A j \in 1 .. i - 1 : q[j] = r[j]
    BY <1>3, <2>1
  <2> QED BY <2>2 DEF LeftOf
<1> QED BY <1>4, <1>5

LEMMA SiblingsLeft ==
  ASSUME NEW p \in Seq(Nat), NEW i \in Nat, NEW j \in Nat, i < j
  PROVE  LeftOf(Append(p, i), Append(p, j))
<1> DEFINE a == Append(p, i)
           b == Append(p, j)
           n == Len(p) + 1
<1>1. Len(p) \in Nat /\ DOMAIN a = 1 .. n /\ a[n] = i /\ \A k \in 1 .. Len(p) : a[k] = p[k]
  BY ChildFacts
<1>2. DOMAIN b = 1 .. n /\ b[n] = j /\ \A k \in 1 .. Len(p) : b[k] = p[k]
  BY ChildFacts
<1>3. n \in DOMAIN a \cap DOMAIN b /\ n - 1 = Len(p)
  BY <1>1, <1>2
<1> HIDE DEF a, b, n
<1>4. a[n] < b[n] /\ \A k \in 1 .. n - 1 : a[k] = b[k]
  BY <1>1, <1>2, <1>3
<1>5. LeftOf(a, b)
  BY <1>3, <1>4 DEF LeftOf
<1> QED BY <1>5 DEF a, b

-----------------------------------------------------------------------------
(* Trees.                                                                  *)
LEMMA TreeFacts ==
  ASSUME NEW T, IsTree(T), NEW at \in DOMAIN T
  PROVE  /\ at \in Seq(Nat)
         /\ T[at].kids \in Seq(ToSet(T[at].kids))
         /\ Len(T[at].kids) \in Nat /\ DOMAIN T[at].kids = 1 .. Len(T[at].kids)
         /\ \A i \in DOMAIN T[at].kids : /\ i \in Nat /\ Append(at, i) \in DOMAIN T
                                         /\ T[Append(at, i)] = T[at].kids[i]
<1>1. /\ at \in Seq(Nat)
      /\ T[at].kids \in Seq(ToSet(T[at].kids))
      /\ \A i \in DOMAIN T[at].kids : Append(at, i) \in DOMAIN T /\ T[Append(at, i)] = T[at].kids[i]
  BY DEF IsTree
<1>2. Len(T[at].kids) \in Nat /\ DOMAIN T[at].kids = 1 .. Len(T[at].kids)
  BY <1>1
<1>3. \A i \in DOMAIN T[at].kids : i \in Nat
  BY <1>2
<1> QED BY <1>1, <1>2, <1>3

LEMMA ParentFacts ==
  ASSUME NEW T, IsTree(T), NEW at \in Seq(Nat), NEW i \in Nat, Append(at, i) \in DOMAIN T
  PROVE  at \in DOMAIN T /\ i \in DOMAIN T[at].kids
<1> DEFINE c == Append(at, i)
<1>1. c # <<>>
  BY AppendProperties
<1>2. Front(c) \in DOMAIN T /\ Last(c) \in DOMAIN T[Front(c)].kids
  BY <1>1 DEF IsTree
<1>3. Front(c) = at /\ Last(c) = i
  BY FrontOfChild
<1> HIDE DEF c
<1> QED BY <1>2, <1>3

LEMMA Ancestors ==
  ASSUME NEW T, IsTree(T), NEW at \in Seq(Nat), NEW p \in DOMAIN T, IsPrefix(at, p)
  PROVE  at \in DOMAIN T
<1> DEFINE U == {n \in Nat : \A q \in DOMAIN T : IsPrefix(at, q) /\ Len(q) = Len(at) + n => at \in DOMAIN T}
<1>1. \A q \in DOMAIN T : q \in Seq(Nat)
  BY TreeFacts
<1>2. Len(at) \in Nat
  OBVIOUS
<1>3. 0 \in U
  <2>1. SUFFICES ASSUME NEW q \in DOMAIN T, IsPrefix(at, q), Len(q) = Len(at) + 0 PROVE at \in DOMAIN T
    OBVIOUS
  <2>2. at = q
    BY <1>1, <1>2, <2>1, PrefixSame
  <2> QED BY <2>2
<1>4. ASSUME NEW n \in Nat, n \in U PROVE n + 1 \in U
  <2>1. SUFFICES ASSUME NEW q \in DOMAIN T, IsPrefix(at, q), Len(q) = Len(at) + (n + 1) PROVE at \in DOMAIN T
    OBVIOUS
  <2>2. q \in Seq(Nat) /\ q # <<>>
    BY <1>1, <1>2, <2>1
  <2> DEFINE f == Front(q)
             i == Last(q)
  <2>3. f \in Seq(Nat) /\ i \in Nat /\ q = Append(f, i)
    BY <2>2, FrontFacts
  <2>4. f \in DOMAIN T
    BY <2>2 DEF IsTree
  <2> HIDE DEF f, i
  <2>5. Len(q) = Len(f) + 1 /\ Len(f) \in Nat
    BY <2>3, ChildFacts
  <2>6. Len(f) = Len(at) + n /\ at # q
    BY <1>2, <2>1, <2>5
  <2>7. IsPrefix(at, f)
    BY <2>1, <2>3, <2>6, PrefixOfChild
  <2> QED BY <1>4, <2>4, <2>6, <2>7
<1> HIDE DEF U
<1>5. \A n \in Nat : n \in U
  BY <1>3, <1>4, AllNumbers
<1>6. Len(at) <= Len(p) /\ Len(p) \in Nat
  BY <1>1, PrefixShorter
<1> DEFINE k == Len(p) - Len(at)
<1>7. k \in Nat /\ Len(p) = Len(at) + k
  BY <1>2, <1>6
<1> HIDE DEF k
<1>8. k \in U
  BY <1>5, <1>7
<1> QED BY <1>7, <1>8 DEF U

LEMMA WayDown ==
  ASSUME NEW T, IsTree(T), NEW at \in DOMAIN T, NEW p \in DOMAIN T, IsPrefix(at, p), at # p
  PROVE  LET i == p[Len(at) + 1]
         IN  i \in DOMAIN T[at].kids /\ i \in Nat /\ Append(at, i) \in DOMAIN T /\ IsPrefix(Append(at, i), p)
<1>1. at \in Seq(Nat) /\ p \in Seq(Nat)
  BY TreeFacts
<1> DEFINE i == p[Len(at) + 1]
<1>2. i \in Nat /\ IsPrefix(Append(at, i), p)
  BY <1>1, ChildOnTheWay
<1> HIDE DEF i
<1>3. Append(at, i) \in Seq(Nat)
  BY <1>1, <1>2, ChildFacts
<1>4. Append(at, i) \in DOMAIN T
  BY <1>2, <1>3, Ancestors
<1>5. i \in DOMAIN T[at].kids
  BY <1>1, <1>2, <1>4, ParentFacts
<1> QED BY <1>2, <1>4, <1>5 DEF i

-----------------------------------------------------------------------------
(***************************************************************************)
(* The traversal.  Of two places that are still to come, the second one is *)
(* to the right of the first, or it is above it and was visited.           *)
(***************************************************************************)
TodoOK(T, d) == d \in Seq({"visit", "leave"} \X DOMAIN T)

Order(d) ==
  \A i, j \in DOMAIN d : i < j =>
    \/ LeftOf(d[i][2], d[j][2])
    \/ d[j][1] = "leave" /\ IsStrictPrefix(d[j][2], d[i][2])

(* A node was visited, and was left.                                       *)
Entered(d, p) == \A i \in DOMAIN d : d[i][1] = "visit" => ~IsPrefix(d[i][2], p)
Left(d, p)    == Entered(d, p) /\ \A i \in DOMAIN d : d[i] # <<"leave", p>>

(* What the traversal does at a node.                                      *)
Going(T, d) ==
  LET at == Head(d)[2]
  IN  [i \in DOMAIN T[at].kids |-> <<"visit", Append(at, i)>>] \o << <<"leave", at>> >> \o Tail(d)

LEMMA TodoFacts ==
  ASSUME NEW T, IsTree(T), NEW d, TodoOK(T, d)
  PROVE  /\ DOMAIN d = 1 .. Len(d) /\ Len(d) \in Nat
         /\ \A i \in DOMAIN d : /\ d[i][1] \in {"visit", "leave"} /\ d[i][2] \in DOMAIN T /\ d[i][2] \in Seq(Nat)
                                /\ d[i] = << d[i][1], d[i][2] >>
         /\ d # <<>> => /\ 1 \in DOMAIN d /\ Head(d) = d[1] /\ TodoOK(T, Tail(d))
                        /\ DOMAIN Tail(d) = 1 .. Len(d) - 1
                        /\ \A i \in DOMAIN Tail(d) : Tail(d)[i] = d[i + 1] /\ i + 1 \in DOMAIN d
<1>1. DOMAIN d = 1 .. Len(d) /\ Len(d) \in Nat
  BY DEF TodoOK
<1>2. ASSUME NEW i \in DOMAIN d
      PROVE  /\ d[i][1] \in {"visit", "leave"} /\ d[i][2] \in DOMAIN T /\ d[i][2] \in Seq(Nat)
             /\ d[i] = << d[i][1], d[i][2] >>
  <2>1. d[i] \in {"visit", "leave"} \X DOMAIN T
    BY <1>1, <1>2 DEF TodoOK
  <2>2. d[i][1] \in {"visit", "leave"} /\ d[i][2] \in DOMAIN T /\ d[i] = << d[i][1], d[i][2] >>
    BY <2>1
  <2> QED BY <2>2, TreeFacts
<1>3. ASSUME d # <<>>
      PROVE  /\ 1 \in DOMAIN d /\ Head(d) = d[1] /\ TodoOK(T, Tail(d))
             /\ DOMAIN Tail(d) = 1 .. Len(d) - 1
             /\ \A i \in DOMAIN Tail(d) : Tail(d)[i] = d[i + 1] /\ i + 1 \in DOMAIN d
  BY <1>1, <1>3 DEF TodoOK
<1> QED BY <1>1, <1>2, <1>3

LEMMA AfterHead ==
  ASSUME NEW T, IsTree(T), NEW d, TodoOK(T, d), Order(d), d # <<>>, NEW j \in DOMAIN d, j # 1
  PROVE  \/ LeftOf(Head(d)[2], d[j][2])
         \/ d[j][1] = "leave" /\ IsStrictPrefix(d[j][2], Head(d)[2])
<1>1. 1 \in DOMAIN d /\ Head(d) = d[1] /\ 1 < j
  BY TodoFacts
<1> QED BY <1>1 DEF Order

LEMMA LeftBefore ==
  ASSUME NEW T, IsTree(T), NEW d, TodoOK(T, d), Order(d), d # <<>>,
         NEW p \in DOMAIN T, LeftOf(p, Head(d)[2])
  PROVE  Left(d, p)
<1> DEFINE h == Head(d)[2]
<1>1. 1 \in DOMAIN d /\ h = d[1][2] /\ h \in Seq(Nat) /\ p \in Seq(Nat) /\ \A i \in DOMAIN d : d[i][2] \in Seq(Nat)
  BY TodoFacts, TreeFacts
<1>2. ~LeftOf(h, p) /\ ~IsPrefix(p, h) /\ ~IsPrefix(h, p) /\ p # h
  BY <1>1, LeftOfApart
<1> HIDE DEF h
<1>3. ASSUME NEW i \in DOMAIN d, d[i][1] = "visit", IsPrefix(d[i][2], p) PROVE FALSE
  <2>1. i # 1
    BY <1>1, <1>2, <1>3
  <2>2. LeftOf(h, d[i][2])
    BY <1>3, <2>1, AfterHead DEF h
  <2>3. LeftOf(h, p)
    BY <1>1, <1>3, <2>2, LeftOfBelow
  <2> QED BY <1>2, <2>3
<1>4. ASSUME NEW i \in DOMAIN d, d[i] = <<"leave", p>> PROVE FALSE
  <2>1. d[i][2] = p
    BY <1>4
  <2>2. i # 1
    BY <1>1, <1>2, <2>1
  <2>3. LeftOf(h, p) \/ IsStrictPrefix(p, h)
    BY <2>1, <2>2, AfterHead DEF h
  <2> QED BY <1>2, <2>3 DEF IsStrictPrefix
<1> QED BY <1>3, <1>4 DEF Left, Entered

LEMMA EnteredBefore ==
  ASSUME NEW T, IsTree(T), NEW d, TodoOK(T, d), Order(d), d # <<>>,
         NEW p \in DOMAIN T, Before(p, Head(d)[2])
  PROVE  Entered(d, p)
<1> DEFINE h == Head(d)[2]
<1>1. 1 \in DOMAIN d /\ h = d[1][2] /\ h \in Seq(Nat) /\ p \in Seq(Nat) /\ \A i \in DOMAIN d : d[i][2] \in Seq(Nat)
  BY TodoFacts, TreeFacts
<1> HIDE DEF h
<1>2. CASE LeftOf(p, h)
  BY <1>2, LeftBefore DEF Left, h
<1>3. CASE IsStrictPrefix(p, h)
  <2>1. IsPrefix(p, h) /\ p # h
    BY <1>3 DEF IsStrictPrefix
  <2>2. ~LeftOf(h, p) /\ ~IsPrefix(h, p)
    <3>1. ~LeftOf(h, p)
      BY <1>1, <2>1, LeftOfApart
    <3>2. ASSUME IsPrefix(h, p) PROVE FALSE
      BY <1>1, <2>1, <3>2, PrefixShorter
    <3> QED BY <3>1, <3>2
  <2>3. ASSUME NEW i \in DOMAIN d, d[i][1] = "visit", IsPrefix(d[i][2], p) PROVE FALSE
    <3>1. i # 1
      BY <1>1, <2>2, <2>3
    <3>2. LeftOf(h, d[i][2])
      BY <2>3, <3>1, AfterHead DEF h
    <3>3. LeftOf(h, p)
      BY <1>1, <2>3, <3>2, LeftOfBelow
    <3> QED BY <2>2, <3>3
  <2> QED BY <2>3 DEF Entered
<1> QED BY <1>2, <1>3 DEF Before, h

(* A node is left after its children.                                      *)
LEMMA LeavingHead ==
  ASSUME NEW T, IsTree(T), NEW d, TodoOK(T, d), Order(d), d # <<>>, Head(d)[1] = "leave"
  PROVE  LET at == Head(d)[2]
         IN  /\ at \in DOMAIN T /\ Entered(d, at) /\ ~Left(d, at) /\ Left(Tail(d), at)
             /\ \A i \in DOMAIN T[at].kids : Left(d, Append(at, i))
<1> DEFINE h == Head(d)[2]
<1>1. /\ 1 \in DOMAIN d /\ Head(d) = d[1] /\ h \in DOMAIN T /\ h \in Seq(Nat)
      /\ \A i \in DOMAIN d : d[i][2] \in Seq(Nat)
      /\ d[1] = << d[1][1], d[1][2] >>
  BY TodoFacts
<1>2. d[1] = <<"leave", h>>
  BY <1>1
<1> HIDE DEF h
<1>3. IsPrefix(h, h)
  BY <1>1, PrefixItself
<1>4. ASSUME NEW i \in DOMAIN d, i # 1, NEW p \in Seq(Nat), IsPrefix(h, p)
      PROVE  /\ ~(d[i][1] = "visit" /\ IsPrefix(d[i][2], p))
             /\ d[i] # <<"leave", p>>
  <2>1. ASSUME d[i][1] = "visit", IsPrefix(d[i][2], p) PROVE FALSE
    <3>1. LeftOf(h, d[i][2])
      BY <1>4, <2>1, AfterHead DEF h
    <3>2. LeftOf(h, p)
      BY <1>1, <2>1, <3>1, LeftOfBelow
    <3> QED BY <1>1, <1>4, <3>2, LeftOfApart
  <2>2. ASSUME d[i] = <<"leave", p>> PROVE FALSE
    <3>1. d[i][2] = p
      BY <2>2
    <3>2. LeftOf(h, p) \/ IsStrictPrefix(p, h)
      BY <1>4, <3>1, AfterHead DEF h
    <3>3. ~LeftOf(h, p)
      BY <1>1, <1>4, LeftOfApart
    <3>4. IsPrefix(p, h) /\ p # h
      BY <3>2, <3>3 DEF IsStrictPrefix
    <3> QED BY <1>1, <1>4, <3>4, PrefixShorter
  <2> QED BY <2>1, <2>2
<1>5. \A p \in Seq(Nat) : IsPrefix(h, p) => Entered(d, p)
  BY <1>2, <1>4 DEF Entered
<1>6. \A p \in Seq(Nat) : IsPrefix(h, p) /\ p # h => Left(d, p)
  BY <1>2, <1>4, <1>5 DEF Left
<1>7. ~Left(d, h)
  BY <1>1, <1>2 DEF Left
<1>8. Left(Tail(d), h)
  <2>1. \A i \in DOMAIN Tail(d) : Tail(d)[i] = d[i + 1] /\ i + 1 \in DOMAIN d /\ i + 1 # 1
    BY TodoFacts
  <2> QED BY <1>1, <1>3, <1>4, <2>1 DEF Left, Entered
<1>9. ASSUME NEW i \in DOMAIN T[h].kids PROVE Left(d, Append(h, i))
  <2>1. i \in Nat
    BY <1>1, TreeFacts
  <2>2. Append(h, i) \in Seq(Nat) /\ IsPrefix(h, Append(h, i)) /\ Append(h, i) # h
    <3>1. Append(h, i) \in Seq(Nat) /\ Len(Append(h, i)) = Len(h) + 1 /\ Len(h) \in Nat
      BY <1>1, <2>1, ChildFacts
    <3> QED BY <1>1, <1>3, <2>1, <3>1, PrefixOfChild
  <2> QED BY <1>6, <2>2
<1> QED BY <1>1, <1>3, <1>5, <1>7, <1>8, <1>9 DEF h

LEMMA AfterLeaving ==
  ASSUME NEW T, IsTree(T), NEW d, TodoOK(T, d), Order(d), d # <<>>, Head(d)[1] = "leave"
  PROVE  /\ TodoOK(T, Tail(d)) /\ Order(Tail(d))
         /\ \A p \in DOMAIN T : Entered(Tail(d), p) => Entered(d, p)
         /\ \A p \in DOMAIN T : Left(Tail(d), p) => Left(d, p) \/ p = Head(d)[2]
<1>1. /\ 1 \in DOMAIN d /\ Head(d) = d[1] /\ TodoOK(T, Tail(d))
      /\ DOMAIN d = 1 .. Len(d) /\ Len(d) \in Nat /\ DOMAIN Tail(d) = 1 .. Len(d) - 1
      /\ \A i \in DOMAIN Tail(d) : Tail(d)[i] = d[i + 1] /\ i + 1 \in DOMAIN d
      /\ d[1] = << d[1][1], d[1][2] >>
  BY TodoFacts
<1>2. Order(Tail(d))
  <2>1. SUFFICES ASSUME NEW i \in DOMAIN Tail(d), NEW j \in DOMAIN Tail(d), i < j
                 PROVE  \/ LeftOf(Tail(d)[i][2], Tail(d)[j][2])
                        \/ Tail(d)[j][1] = "leave" /\ IsStrictPrefix(Tail(d)[j][2], Tail(d)[i][2])
    BY DEF Order
  <2>2. i + 1 < j + 1 /\ Tail(d)[i] = d[i + 1] /\ Tail(d)[j] = d[j + 1] /\ i + 1 \in DOMAIN d /\ j + 1 \in DOMAIN d
    BY <1>1, <2>1
  <2> QED BY <2>2 DEF Order
<1>3. \A i \in DOMAIN d : i # 1 => i - 1 \in DOMAIN Tail(d) /\ Tail(d)[i - 1] = d[i]
  <2>1. ASSUME NEW i \in DOMAIN d, i # 1 PROVE i - 1 \in DOMAIN Tail(d) /\ (i - 1) + 1 = i
    BY <1>1, <2>1
  <2> QED BY <1>1, <2>1
<1>4. \A p \in DOMAIN T : Entered(Tail(d), p) => Entered(d, p)
  BY <1>1, <1>3 DEF Entered
<1>5. ASSUME NEW p \in DOMAIN T, Left(Tail(d), p), p # Head(d)[2] PROVE Left(d, p)
  <2>1. d[1] # <<"leave", p>>
    BY <1>1, <1>5
  <2> QED BY <1>3, <1>4, <1>5, <2>1 DEF Left
<1> QED BY <1>1, <1>2, <1>4, <1>5

GoingOf(T, d, h, n, g) ==
  /\ n \in Nat /\ DOMAIN T[h].kids = 1 .. n
  /\ TodoOK(T, g) /\ DOMAIN g = 1 .. n + Len(d)
  /\ \A i \in 1 .. n : g[i] = <<"visit", Append(h, i)>>
  /\ g[n + 1] = <<"leave", h>>
  /\ \A j \in 2 .. Len(d) : g[n + j] = d[j]

LEMMA GoingItems ==
  ASSUME NEW T, IsTree(T), NEW d, TodoOK(T, d), d # <<>>
  PROVE  GoingOf(T, d, Head(d)[2], Len(T[Head(d)[2]].kids), Going(T, d))
<1> DEFINE h == Head(d)[2]
           n == Len(T[h].kids)
           t == Tail(d)
<1>1. /\ 1 \in DOMAIN d /\ Head(d) = d[1] /\ h \in DOMAIN T /\ TodoOK(T, t)
      /\ DOMAIN d = 1 .. Len(d) /\ Len(d) \in Nat /\ DOMAIN t = 1 .. Len(d) - 1
      /\ \A i \in DOMAIN t : t[i] = d[i + 1]
  <2>1. /\ 1 \in DOMAIN d /\ Head(d) = d[1] /\ TodoOK(T, t)
        /\ DOMAIN d = 1 .. Len(d) /\ Len(d) \in Nat /\ DOMAIN t = 1 .. Len(d) - 1
        /\ \A i \in DOMAIN t : t[i] = d[i + 1]
    BY TodoFacts
  <2>2. \A i \in DOMAIN d : d[i][2] \in DOMAIN T
    BY TodoFacts
  <2> QED BY <2>1, <2>2
<1> DEFINE I == {"visit", "leave"} \X DOMAIN T
           v == [i \in DOMAIN T[h].kids |-> <<"visit", Append(h, i)>>]
           w == << <<"leave", h>> >>
<1>2. /\ n \in Nat /\ DOMAIN T[h].kids = 1 .. n
      /\ \A i \in 1 .. n : Append(h, i) \in DOMAIN T
  BY <1>1, TreeFacts
<1> HIDE DEF h, n
<1>3. v \in Seq(I) /\ Len(v) = n /\ \A i \in 1 .. n : v[i] = <<"visit", Append(h, i)>>
  <2>1. v = [i \in 1 .. n |-> <<"visit", Append(h, i)>>]
    BY <1>2
  <2>2. \A i \in 1 .. n : v[i] = <<"visit", Append(h, i)>>
    BY <2>1
  <2>3. v \in [1 .. n -> I]
    BY <1>2, <2>1
  <2>4. v \in Seq(I) /\ Len(v) = n
    <3> HIDE DEF v, I
    <3> QED BY <1>2, <2>3
  <2> QED BY <2>2, <2>4
<1>4. w \in Seq(I) /\ Len(w) = 1 /\ w[1] = <<"leave", h>>
  BY <1>1
<1>5. t \in Seq(I) /\ Len(t) = Len(d) - 1
  <2>1. t \in Seq(I)
    BY <1>1 DEF TodoOK
  <2>2. Len(t) \in Nat /\ DOMAIN t = 1 .. Len(t)
    BY <2>1
  <2>3. 1 <= Len(d)
    BY <1>1
  <2>4. Len(t) = Len(d) - 1
    BY <1>1, <2>2, <2>3
  <2> QED BY <2>1, <2>4
<1> DEFINE u == v \o w
           g == u \o t
<1>6. Going(T, d) = g
  BY DEF Going, h
<1> HIDE DEF v, w, t, I
<1>7. u \in Seq(I) /\ Len(u) = n + 1 /\ (\A i \in 1 .. n + 1 : u[i] = IF i <= n THEN v[i] ELSE w[i - n])
  <2>1. /\ u \in Seq(I) /\ Len(u) = Len(v) + Len(w)
        /\ \A i \in 1 .. Len(v) + Len(w) : u[i] = IF i <= Len(v) THEN v[i] ELSE w[i - Len(v)]
    BY <1>3, <1>4, ConcatProperties
  <2> HIDE DEF u
  <2> QED BY <1>3, <1>4, <2>1
<1> HIDE DEF u
<1>8. /\ g \in Seq(I) /\ Len(g) = (n + 1) + (Len(d) - 1)
      /\ \A i \in 1 .. (n + 1) + (Len(d) - 1) : g[i] = IF i <= n + 1 THEN u[i] ELSE t[i - (n + 1)]
  <2>1. Len(u) + Len(t) = (n + 1) + (Len(d) - 1)
    BY <1>5, <1>7
  <2>2. /\ g \in Seq(I) /\ Len(g) = Len(u) + Len(t)
        /\ \A i \in 1 .. Len(u) + Len(t) : g[i] = IF i <= Len(u) THEN u[i] ELSE t[i - Len(u)]
    BY <1>5, <1>7, ConcatProperties
  <2> HIDE DEF g
  <2> QED BY <1>7, <2>1, <2>2
<1> HIDE DEF g
<1>9. Len(d) >= 1 /\ (n + 1) + (Len(d) - 1) = n + Len(d) /\ n + Len(d) \in Nat
  BY <1>1, <1>2
<1>10. DOMAIN g = 1 .. n + Len(d)
  BY <1>8, <1>9
<1>11. ASSUME NEW i \in 1 .. n PROVE g[i] = <<"visit", Append(h, i)>>
  <2>1. i \in 1 .. n + 1 /\ i <= n /\ i \in 1 .. (n + 1) + (Len(d) - 1) /\ i <= n + 1
    BY <1>1, <1>2, <1>9
  <2>2. g[i] = u[i] /\ u[i] = v[i]
    BY <1>7, <1>8, <2>1
  <2> QED BY <1>3, <2>2
<1>12. g[n + 1] = <<"leave", h>>
  <2>1. n + 1 \in 1 .. n + 1 /\ ~(n + 1 <= n) /\ n + 1 \in 1 .. (n + 1) + (Len(d) - 1) /\ n + 1 <= n + 1 /\ (n + 1) - n = 1
    BY <1>1, <1>2, <1>9
  <2>2. g[n + 1] = u[n + 1] /\ u[n + 1] = w[1]
    BY <1>7, <1>8, <2>1
  <2> QED BY <1>4, <2>2
<1>13. ASSUME NEW j \in 2 .. Len(d) PROVE g[n + j] = d[j]
  <2>1. n + j \in 1 .. (n + 1) + (Len(d) - 1) /\ ~(n + j <= n + 1) /\ (n + j) - (n + 1) = j - 1 /\ j - 1 \in 1 .. Len(d) - 1 /\ (j - 1) + 1 = j
    BY <1>1, <1>2, <1>9
  <2>2. g[n + j] = t[j - 1]
    BY <1>8, <2>1
  <2>3. t[j - 1] = d[j]
    BY <1>1, <2>1 DEF t
  <2> QED BY <2>2, <2>3
<1>14. TodoOK(T, g)
  BY <1>8 DEF TodoOK, I
<1> QED BY <1>2, <1>6, <1>10, <1>11, <1>12, <1>13, <1>14 DEF h, n, GoingOf

LEMMA AfterGoing ==
  ASSUME NEW T, IsTree(T), NEW d, TodoOK(T, d), Order(d), d # <<>>, Head(d)[1] = "visit"
  PROVE  /\ TodoOK(T, Going(T, d)) /\ Order(Going(T, d))
         /\ \A p \in DOMAIN T : Entered(Going(T, d), p) => Entered(d, p) \/ p = Head(d)[2]
         /\ \A p \in DOMAIN T : Left(Going(T, d), p) <=> Left(d, p)
<1> DEFINE h == Head(d)[2]
           n == Len(T[h].kids)
           g == Going(T, d)
<1>1. GoingOf(T, d, h, n, g)
  BY GoingItems
<1>2. /\ 1 \in DOMAIN d /\ Head(d) = d[1] /\ h \in DOMAIN T /\ h \in Seq(Nat) /\ h = d[1][2]
      /\ DOMAIN d = 1 .. Len(d) /\ Len(d) \in Nat /\ d[1] = << d[1][1], d[1][2] >>
      /\ \A i \in DOMAIN d : d[i][2] \in Seq(Nat) /\ d[i][2] \in DOMAIN T
  BY TodoFacts
<1>3. \A i \in DOMAIN T[h].kids : i \in Nat
  BY <1>2, TreeFacts
<1>4. d[1] = <<"visit", h>>
  BY <1>2
<1>0. /\ \A i \in 1 .. n : g[i][1] = "visit" /\ g[i][2] = Append(h, i)
      /\ g[n + 1][1] = "leave" /\ g[n + 1][2] = h
  <2> HIDE DEF h, n, g
  <2>1. (\A i \in 1 .. n : g[i] = <<"visit", Append(h, i)>>) /\ g[n + 1] = <<"leave", h>>
    BY <1>1 DEF GoingOf
  <2> QED BY <2>1
<1> HIDE DEF h, n, g
<1>5. \A i \in 1 .. n : Append(h, i) \in Seq(Nat) /\ IsPrefix(h, Append(h, i)) /\ IsStrictPrefix(h, Append(h, i))
  <2>1. SUFFICES ASSUME NEW i \in 1 .. n
                 PROVE  Append(h, i) \in Seq(Nat) /\ IsPrefix(h, Append(h, i)) /\ h # Append(h, i)
    BY DEF IsStrictPrefix
  <2>2. i \in Nat
    BY <1>1, <1>3 DEF GoingOf
  <2>3. Append(h, i) \in Seq(Nat) /\ Len(Append(h, i)) = Len(h) + 1 /\ Len(h) \in Nat
    BY <1>2, <2>2, ChildFacts
  <2>4. IsPrefix(h, h)
    BY <1>2, PrefixItself
  <2> QED BY <1>2, <2>2, <2>3, <2>4, PrefixOfChild
<1>6. ASSUME NEW k \in DOMAIN g
      PROVE  k \in 1 .. n \/ k = n + 1 \/ (k - n \in 2 .. Len(d) /\ n + (k - n) = k)
  BY <1>1, <1>2 DEF GoingOf
<1>7. Order(g)
  <2>1. SUFFICES ASSUME NEW k \in DOMAIN g, NEW m \in DOMAIN g, k < m
                 PROVE  \/ LeftOf(g[k][2], g[m][2])
                        \/ g[m][1] = "leave" /\ IsStrictPrefix(g[m][2], g[k][2])
    BY DEF Order
  <2>2. ASSUME NEW j \in 2 .. Len(d)
        PROVE  \/ LeftOf(h, d[j][2])
               \/ d[j][1] = "leave" /\ IsStrictPrefix(d[j][2], h)
    <3>1. j \in DOMAIN d /\ j # 1
      BY <1>2
    <3> QED BY <3>1, AfterHead DEF h
  <2>3. ASSUME m \in 1 .. n PROVE LeftOf(g[k][2], g[m][2])
    <3>1. k \in 1 .. n /\ k \in Nat /\ m \in Nat
      BY <1>1, <2>1, <2>3 DEF GoingOf
    <3>2. g[k][2] = Append(h, k) /\ g[m][2] = Append(h, m)
      BY <1>1, <2>3, <3>1 DEF GoingOf
    <3> QED BY <1>2, <2>1, <3>1, <3>2, SiblingsLeft
  <2>4. ASSUME m = n + 1 PROVE g[m][1] = "leave" /\ IsStrictPrefix(g[m][2], g[k][2])
    <3>1. k \in 1 .. n
      BY <1>1, <1>6, <2>1, <2>4 DEF GoingOf
    <3> QED BY <1>0, <1>5, <2>4, <3>1
  <2>5. ASSUME m - n \in 2 .. Len(d), n + (m - n) = m
        PROVE  \/ LeftOf(g[k][2], g[m][2])
               \/ g[m][1] = "leave" /\ IsStrictPrefix(g[m][2], g[k][2])
    <3> DEFINE j == m - n
    <3>1. j \in 2 .. Len(d) /\ g[m] = d[j] /\ j \in DOMAIN d
      BY <1>1, <1>2, <2>5 DEF GoingOf
    <3> HIDE DEF j
    <3>2. \/ LeftOf(h, d[j][2])
          \/ d[j][1] = "leave" /\ IsStrictPrefix(d[j][2], h)
      BY <2>2, <3>1
    <3>3. CASE k \in 1 .. n
      <4>1. g[k][2] = Append(h, k) /\ Append(h, k) \in Seq(Nat) /\ IsPrefix(h, Append(h, k))
        BY <1>1, <1>5, <3>3 DEF GoingOf
      <4>2. CASE LeftOf(h, d[j][2])
        <5>1. PICK w \in Seq(Nat) : w = d[j][2]
          BY <1>2, <3>1
        <5>2. PICK c \in Seq(Nat) : c = Append(h, k)
          BY <4>1
        <5>3. h \in Seq(Nat) /\ IsPrefix(h, c) /\ LeftOf(h, w)
          BY <1>2, <4>1, <4>2, <5>1, <5>2
        <5>4. LeftOf(c, w)
          BY <5>3, LeftOfBelow
        <5> QED BY <3>1, <4>1, <5>1, <5>2, <5>4
      <4>3. CASE d[j][1] = "leave" /\ IsStrictPrefix(d[j][2], h)
        <5>1. IsPrefix(d[j][2], h) /\ d[j][2] # h
          BY <4>3 DEF IsStrictPrefix
        <5>2. IsPrefix(d[j][2], Append(h, k))
          BY <1>2, <3>1, <4>1, <5>1, PrefixOn
        <5>3. d[j][2] # Append(h, k)
          <6>1. Len(d[j][2]) < Len(h) /\ Len(h) \in Nat
            BY <1>2, <3>1, <5>1, PrefixShorter
          <6>2. Len(h) <= Len(Append(h, k)) /\ Len(Append(h, k)) \in Nat
            BY <1>2, <4>1, PrefixShorter
          <6>3. Len(d[j][2]) \in Nat
            BY <1>2, <3>1
          <6> QED BY <6>1, <6>2, <6>3
        <5> QED BY <3>1, <4>1, <4>3, <5>2, <5>3 DEF IsStrictPrefix
      <4> QED BY <3>2, <4>2, <4>3
    <3>4. CASE k = n + 1
      BY <1>1, <3>1, <3>2, <3>4 DEF GoingOf
    <3>5. CASE k - n \in 2 .. Len(d) /\ n + (k - n) = k
      <4> DEFINE i == k - n
      <4>1. i \in 2 .. Len(d) /\ g[k] = d[i] /\ i \in DOMAIN d
        BY <1>1, <1>2, <3>5 DEF GoingOf
      <4>2. i < j
        BY <1>1, <2>1 DEF j, GoingOf
      <4> HIDE DEF i
      <4> QED BY <3>1, <4>1, <4>2 DEF Order
    <3> QED BY <1>6, <3>3, <3>4, <3>5
  <2> QED BY <1>6, <2>3, <2>4, <2>5
<1>8. \A j \in DOMAIN d : j # 1 => n + j \in DOMAIN g /\ g[n + j] = d[j]
  <2>1. \A j \in DOMAIN d : j # 1 => j \in 2 .. Len(d) /\ n + j \in 1 .. n + Len(d)
    BY <1>1, <1>2 DEF GoingOf
  <2> QED BY <1>1, <2>1 DEF GoingOf
<1>9. ASSUME NEW p \in DOMAIN T, Entered(g, p), p # h PROVE Entered(d, p)
  <2>1. SUFFICES ASSUME NEW j \in DOMAIN d, d[j][1] = "visit", IsPrefix(d[j][2], p) PROVE FALSE
    BY DEF Entered
  <2>2. CASE j # 1
    BY <1>8, <1>9, <2>1, <2>2 DEF Entered
  <2>3. CASE j = 1
    <3>1. IsPrefix(h, p)
      BY <1>2, <2>1, <2>3
    <3> DEFINE i == p[Len(h) + 1]
    <3>2. i \in DOMAIN T[h].kids /\ IsPrefix(Append(h, i), p)
      BY <1>2, <1>9, <3>1, WayDown
    <3> HIDE DEF i
    <3>3. i \in 1 .. n /\ i \in DOMAIN g
      BY <1>1, <1>2, <3>2 DEF h, n, GoingOf
    <3>4. g[i][1] = "visit" /\ g[i][2] = Append(h, i)
      BY <1>0, <3>3
    <3> QED BY <1>9, <3>2, <3>3, <3>4 DEF Entered
  <2> QED BY <2>2, <2>3
<1>10. n + 1 \in DOMAIN g
  BY <1>1, <1>2 DEF GoingOf
<1>11. ASSUME NEW p \in DOMAIN T, Left(g, p) PROVE Left(d, p)
  <2>1. p # h
    BY <1>1, <1>10, <1>11 DEF Left, GoingOf
  <2>2. Entered(d, p)
    BY <1>9, <1>11, <2>1 DEF Left
  <2>3. ASSUME NEW j \in DOMAIN d, d[j] = <<"leave", p>> PROVE FALSE
    <3>1. j # 1
      BY <1>4, <2>3
    <3> QED BY <1>8, <1>11, <2>3, <3>1 DEF Left
  <2> QED BY <2>2, <2>3 DEF Left
<1>12. ASSUME NEW p \in DOMAIN T, Left(d, p) PROVE Left(g, p)
  <2>1. ~IsPrefix(h, p) /\ p \in Seq(Nat)
    BY <1>2, <1>4, <1>12, TreeFacts DEF Left, Entered
  <2>2. p # h
    BY <1>2, <2>1, PrefixItself
  <2>3. \A i \in 1 .. n : ~IsPrefix(Append(h, i), p)
    BY <1>2, <1>5, <2>1, PrefixOn
  <2>4. ASSUME NEW k \in DOMAIN g PROVE (g[k][1] = "visit" => ~IsPrefix(g[k][2], p)) /\ g[k] # <<"leave", p>>
    <3>1. CASE k \in 1 .. n
      <4>1. g[k][1] = "visit" /\ g[k][2] = Append(h, k) /\ g[k] = << "visit", Append(h, k) >>
        BY <1>0, <1>1, <3>1 DEF GoingOf
      <4> QED BY <2>3, <3>1, <4>1
    <3>2. CASE k = n + 1
      BY <1>1, <2>2, <3>2 DEF GoingOf
    <3>3. CASE k - n \in 2 .. Len(d) /\ n + (k - n) = k
      <4> DEFINE j == k - n
      <4>1. j \in DOMAIN d /\ g[k] = d[j]
        BY <1>1, <1>2, <3>3 DEF GoingOf
      <4> HIDE DEF j
      <4> QED BY <1>12, <4>1 DEF Left, Entered
    <3> QED BY <1>6, <3>1, <3>2, <3>3
  <2> QED BY <2>4 DEF Left, Entered
<1> QED BY <1>1, <1>7, <1>9, <1>11, <1>12 DEF g, h, GoingOf

LEMMA StaysLeft ==
  ASSUME NEW T, IsTree(T), NEW d, TodoOK(T, d), d # <<>>, NEW p
  PROVE  (Entered(d, p) => Entered(Tail(d), p)) /\ (Left(d, p) => Left(Tail(d), p))
<1>1. \A i \in DOMAIN Tail(d) : Tail(d)[i] = d[i + 1] /\ i + 1 \in DOMAIN d
  BY TodoFacts
<1> QED BY <1>1 DEF Entered, Left

-----------------------------------------------------------------------------
(* Names.                                                                  *)
LEMMA DeclaredHere ==
  ASSUME NEW T, Names(T), NEW at \in DOMAIN T, NEW d \in Declared(T[at])
  PROVE  d[1] \in VarNames(T) /\ PlaceOf(T, d[1]) = at /\ TypeOfId(T, d[1]) = d[2]
<1>1. \A p, q \in DOMAIN T : \A b \in Declared(T[p]), e \in Declared(T[q]) : b[1] = e[1] => p = q /\ b = e
  BY DEF Names
<1>2. PlaceOf(T, d[1]) = at
  BY <1>1 DEF PlaceOf
<1>3. (CHOOSE b \in Declared(T[at]) : b[1] = d[1]) = d
  BY <1>1
<1>4. TypeOfId(T, d[1]) = d[2]
  BY <1>2, <1>3 DEF TypeOfId
<1>5. d[1] \in {b[1] : b \in Declared(T[at])}
  OBVIOUS
<1> QED BY <1>2, <1>4, <1>5 DEF VarNames

LEMMA NameDeclared ==
  ASSUME NEW T, Names(T), NEW x \in VarNames(T)
  PROVE  \E at \in DOMAIN T : \E d \in Declared(T[at]) :
           d[1] = x /\ PlaceOf(T, x) = at /\ TypeOfId(T, x) = d[2]
<1>1. PICK at \in DOMAIN T : x \in {d[1] : d \in Declared(T[at])}
  BY DEF VarNames
<1>2. PICK d \in Declared(T[at]) : x = d[1]
  BY <1>1
<1> QED BY <1>2, DeclaredHere

LEMMA HeaderHereOnly ==
  ASSUME NEW T, Names(T), NEW at \in DOMAIN T, T[at].kind = "header"
  PROVE  T[at].id \in FunNames(T) /\ HeaderAt(T, T[at].id) = at
<1>1. T[at].id \in FunNames(T)
  BY DEF FunNames
<1>2. \A p \in DOMAIN T : T[p].kind = "header" /\ T[p].id = T[at].id => p = at
  BY DEF Names
<1> QED BY <1>1, <1>2 DEF HeaderAt

LEMMA FunctionHasHeader ==
  ASSUME NEW T, NEW f \in FunNames(T)
  PROVE  HeaderAt(T, f) \in DOMAIN T /\ T[HeaderAt(T, f)].kind = "header" /\ T[HeaderAt(T, f)].id = f
<1>1. PICK at \in DOMAIN T : T[at].kind = "header" /\ T[at].id = f
  BY DEF FunNames
<1> QED BY <1>1 DEF HeaderAt

LEMMA ParamFacts ==
  ASSUME NEW T, IsProgram(T), NEW at \in DOMAIN T, T[at].kind = "header"
  PROVE  /\ Params(T[at]) \in Seq(ToSet(T[at].kids))
         /\ \A i \in DOMAIN Params(T[at]) :
              LET x == Params(T[at])[i]
              IN  \E k \in DOMAIN T[at].kids :
                    /\ T[at].kids[k] = x /\ Append(at, k) \in DOMAIN T /\ T[Append(at, k)] = x
                    /\ x.kind = "parameter" /\ <<x.id, x.type>> \in Declared(x)
<1> DEFINE h == T[at]
<1>1. IsTree(T) /\ Syntax(h)
  BY DEF IsProgram
<1>2. h.kids \in Seq(ToSet(h.kids)) /\ \A k \in DOMAIN h.kids : Append(at, k) \in DOMAIN T /\ T[Append(at, k)] = h.kids[k]
  BY <1>1, TreeFacts
<1>3. \A k \in DOMAIN h.kids : h.kids[k].kind = "parameter"
  BY <1>1 DEF Syntax
<1> DEFINE S == {p \in ToSet(h.kids) : ~p.reduced}
<1>4. Params(h) = Those(h.kids, S)
  BY DEF Params
<1> HIDE DEF S, h
<1>5. /\ Params(h) \in Seq(ToSet(h.kids))
      /\ \A i \in DOMAIN Params(h) : \E k \in DOMAIN h.kids : Params(h)[i] = h.kids[k]
  BY <1>2, <1>4, ThoseFacts
<1>6. ASSUME NEW i \in DOMAIN Params(h)
      PROVE  \E k \in DOMAIN h.kids :
               /\ h.kids[k] = Params(h)[i] /\ Append(at, k) \in DOMAIN T /\ T[Append(at, k)] = Params(h)[i]
               /\ Params(h)[i].kind = "parameter" /\ <<Params(h)[i].id, Params(h)[i].type>> \in Declared(Params(h)[i])
  <2>1. PICK k \in DOMAIN h.kids : Params(h)[i] = h.kids[k]
    BY <1>5
  <2>2. Params(h)[i].kind = "parameter"
    BY <1>3, <2>1
  <2>3. Declared(Params(h)[i]) = {<<Params(h)[i].id, Params(h)[i].type>>}
    BY <2>2 DEF Declared
  <2> QED BY <1>2, <2>1, <2>2, <2>3
<1> QED BY <1>5, <1>6 DEF h

-----------------------------------------------------------------------------
(* Types.                                                                  *)
LEMMA PrefixCut ==
  ASSUME NEW p \in Seq(Nat), NEW q \in Seq(Nat), IsPrefix(p, q)
  PROVE  SubSeq(q, 1, Len(p)) = p
<1> DEFINE n == Len(p)
           b == SubSeq(q, 1, n)
<1>1. n \in Nat /\ Len(q) \in Nat /\ n <= Len(q) /\ \A i \in 1 .. n : p[i] = q[i]
  BY PrefixDef
<1>2. \A i \in 1 .. n : q[i] \in Nat
  BY <1>1
<1> HIDE DEF n
<1>3. /\ b \in Seq(Nat) /\ Len(b) = IF 1 <= n THEN n - 1 + 1 ELSE 0
      /\ \A i \in 1 .. n - 1 + 1 : b[i] = q[1 + i - 1]
  BY <1>1, <1>2, SubSeqProperties
<1>4. Len(b) = n
  BY <1>1, <1>3
<1>5. \A i \in 1 .. n : i \in 1 .. n - 1 + 1 /\ 1 + i - 1 = i
  BY <1>1
<1>6. \A i \in 1 .. n : b[i] = p[i]
  BY <1>1, <1>3, <1>5
<1> HIDE DEF b
<1>7. b = p
  BY <1>3, <1>4, <1>6, SeqEqual DEF n
<1> QED BY <1>7 DEF b, n

Passes(n) == IsArithmetic(n) \/ (n.kind = "monop" /\ n.op = "neg")

LEMMA OperandThere ==
  ASSUME NEW T, IsProgram(T), NEW at \in DOMAIN T
  PROVE  /\ Passes(T[at]) => 1 \in DOMAIN T[at].kids
         /\ IsArithmetic(T[at]) => 2 \in DOMAIN T[at].kids /\ DOMAIN T[at].kids = {1, 2}
<1>1. Syntax(T[at]) /\ IsTree(T)
  BY DEF IsProgram
<1>2. DOMAIN T[at].kids = 1 .. Len(T[at].kids)
  BY <1>1, TreeFacts
<1>3. T[at].kind = "binop" => Len(T[at].kids) = 2
  BY <1>1 DEF Syntax
<1>4. T[at].kind = "monop" => Len(T[at].kids) = 1
  BY <1>1 DEF Syntax
<1>5. 1 .. 2 = {1, 2} /\ 1 .. 1 = {1}
  OBVIOUS
<1>6. T[at].kind = "binop" => DOMAIN T[at].kids = {1, 2}
  BY <1>2, <1>3, <1>5
<1>7. T[at].kind = "monop" => DOMAIN T[at].kids = {1}
  BY <1>2, <1>4, <1>5
<1> QED BY <1>6, <1>7 DEF Passes, IsArithmetic

LEMMA SourcesHere ==
  ASSUME NEW T, IsTree(T), NEW at \in DOMAIN T, ~Passes(T[at])
  PROVE  Sources(T, at) = {at}
<1>1. at \in Seq(Nat) /\ Len(at) \in Nat /\ IsPrefix(at, at)
  BY TreeFacts, PrefixItself
<1>2. ASSUME NEW p \in Sources(T, at), p # at PROVE FALSE
  <2>1. p \in DOMAIN T /\ IsPrefix(at, p) /\ \A i \in Len(at) + 1 .. Len(p) : Passes(T[SubSeq(p, 1, i - 1)])
    BY <1>2 DEF Sources, Passes
  <2>2. p \in Seq(Nat)
    BY <2>1, TreeFacts
  <2>3. Len(p) \in Nat /\ Len(at) < Len(p)
    BY <1>1, <1>2, <2>1, <2>2, PrefixShorter
  <2>4. Len(at) + 1 \in Len(at) + 1 .. Len(p) /\ (Len(at) + 1) - 1 = Len(at)
    BY <1>1, <2>3
  <2>5. SubSeq(p, 1, Len(at)) = at
    BY <1>1, <2>1, <2>2, PrefixCut
  <2>6. Passes(T[SubSeq(p, 1, (Len(at) + 1) - 1)])
    BY <2>1, <2>4
  <2> QED BY <2>4, <2>5, <2>6
<1>3. at \in Sources(T, at)
  <2>1. \A i \in Len(at) + 1 .. Len(at) : FALSE
    BY <1>1
  <2> QED BY <1>1, <2>1 DEF Sources, Passes
<1> QED BY <1>2, <1>3

LEMMA SourcesBelow ==
  ASSUME NEW T, IsProgram(T), NEW at \in DOMAIN T, Passes(T[at])
  PROVE  Sources(T, at) = Sources(T, Append(at, 1))
<1> DEFINE c == Append(at, 1)
<1>0. IsTree(T) /\ 1 \in DOMAIN T[at].kids
  BY OperandThere DEF IsProgram
<1>1. at \in Seq(Nat) /\ c \in DOMAIN T /\ c \in Seq(Nat)
  BY <1>0, TreeFacts
<1>2. Len(at) \in Nat /\ Len(c) = Len(at) + 1 /\ c[Len(at) + 1] = 1
  BY <1>1, ChildFacts
<1>3. IsPrefix(at, c)
  BY <1>1, PrefixItself, PrefixOfChild
<1> HIDE DEF c
<1> DEFINE Ok(p, i) == p[i] = 1 /\ Passes(T[SubSeq(p, 1, i - 1)])
<1>4. \A q : Sources(T, q) = {p \in DOMAIN T : /\ IsPrefix(q, p) /\ ~Passes(T[p])
                                               /\ \A i \in Len(q) + 1 .. Len(p) : Ok(p, i)}
  BY DEF Sources, Passes
<1>5. ASSUME NEW p \in DOMAIN T, IsPrefix(at, p), ~Passes(T[p]), \A i \in Len(at) + 1 .. Len(p) : Ok(p, i)
      PROVE  IsPrefix(c, p) /\ \A i \in Len(c) + 1 .. Len(p) : Ok(p, i)
  <2>1. p \in Seq(Nat) /\ p # at
    BY <1>0, <1>5, TreeFacts
  <2>2. Len(at) < Len(p) /\ Len(p) \in Nat
    BY <1>1, <1>5, <2>1, PrefixShorter
  <2>3. Len(at) + 1 \in Len(at) + 1 .. Len(p)
    BY <1>2, <2>2
  <2>4. p[Len(at) + 1] = 1
    BY <1>5, <2>3
  <2>5. IsPrefix(Append(at, p[Len(at) + 1]), p)
    BY <1>1, <1>5, <2>1, ChildOnTheWay
  <2>6. IsPrefix(c, p)
    BY <2>4, <2>5 DEF c
  <2>7. \A i \in Len(c) + 1 .. Len(p) : i \in Len(at) + 1 .. Len(p)
    BY <1>2, <2>2
  <2> QED BY <1>5, <2>6, <2>7
<1>6. ASSUME NEW p \in DOMAIN T, IsPrefix(c, p), ~Passes(T[p]), \A i \in Len(c) + 1 .. Len(p) : Ok(p, i)
      PROVE  IsPrefix(at, p) /\ \A i \in Len(at) + 1 .. Len(p) : Ok(p, i)
  <2>1. p \in Seq(Nat) /\ Len(p) \in Nat
    BY <1>0, TreeFacts
  <2>2. IsPrefix(at, p)
    BY <1>1, <1>3, <1>6, <2>1, PrefixOn
  <2>3. Len(c) <= Len(p) /\ \A i \in 1 .. Len(c) : c[i] = p[i]
    BY <1>1, <1>6, <2>1, PrefixDef
  <2>4. Len(at) + 1 \in 1 .. Len(c) /\ (Len(at) + 1) - 1 = Len(at)
    BY <1>2
  <2>5. p[Len(at) + 1] = 1
    BY <1>2, <2>3, <2>4
  <2>6. SubSeq(p, 1, Len(at)) = at
    BY <1>1, <2>1, <2>2, PrefixCut
  <2>7. Ok(p, Len(at) + 1)
    BY <2>4, <2>5, <2>6
  <2>8. \A i \in Len(at) + 1 .. Len(p) : i = Len(at) + 1 \/ i \in Len(c) + 1 .. Len(p)
    BY <1>2, <2>1
  <2> HIDE DEF Ok
  <2> QED BY <1>6, <2>2, <2>7, <2>8
<1> HIDE DEF Ok
<1>7. Sources(T, at) = Sources(T, c)
  BY <1>4, <1>5, <1>6
<1> QED BY <1>7 DEF c

OwnType(T, e) ==
  CASE e.kind \in {"literal", "cast", "arrinit"} -> e.type
    [] e.kind \in {"var", "varlet", "arrexpr"} -> TypeOfId(T, e.id)
    [] e.kind = "call" -> T[HeaderAt(T, e.id)].type
    [] e.kind = "binop" /\ e.op = "mod" -> "int"
    [] OTHER -> "bool"

LEMMA TypeOfFacts ==
  ASSUME NEW T, IsProgram(T), NEW at \in DOMAIN T
  PROVE  TypeOf(T, at) = IF Passes(T[at]) THEN TypeOf(T, Append(at, 1)) ELSE OwnType(T, T[at])
<1>1. \A q : TypeOf(T, q) = OwnType(T, T[CHOOSE p \in Sources(T, q) : TRUE])
  BY Zenon DEF TypeOf, OwnType
<1>2. CASE Passes(T[at])
  BY <1>1, <1>2, SourcesBelow
<1>3. CASE ~Passes(T[at])
  <2>1. (CHOOSE p \in Sources(T, at) : TRUE) = at
    BY <1>3, SourcesHere DEF IsProgram
  <2> QED BY <1>1, <1>3, <2>1
<1> QED BY <1>2, <1>3

LEMMA OperandsHere ==
  ASSUME NEW T, IsTree(T), NEW at \in DOMAIN T, ~IsArithmetic(T[at])
  PROVE  Operands(T, at) = {at}
<1>1. at \in Seq(Nat) /\ Len(at) \in Nat /\ IsPrefix(at, at)
  BY TreeFacts, PrefixItself
<1>2. ASSUME NEW p \in Operands(T, at), p # at PROVE FALSE
  <2>1. p \in DOMAIN T /\ IsPrefix(at, p) /\ \A i \in Len(at) + 1 .. Len(p) : IsArithmetic(T[SubSeq(p, 1, i - 1)])
    BY <1>2 DEF Operands
  <2>2. p \in Seq(Nat)
    BY <2>1, TreeFacts
  <2>3. Len(p) \in Nat /\ Len(at) < Len(p)
    BY <1>1, <1>2, <2>1, <2>2, PrefixShorter
  <2>4. Len(at) + 1 \in Len(at) + 1 .. Len(p) /\ (Len(at) + 1) - 1 = Len(at)
    BY <1>1, <2>3
  <2>5. SubSeq(p, 1, Len(at)) = at
    BY <1>1, <2>1, <2>2, PrefixCut
  <2>6. IsArithmetic(T[SubSeq(p, 1, (Len(at) + 1) - 1)])
    BY <2>1, <2>4
  <2> QED BY <2>4, <2>5, <2>6
<1>3. at \in Operands(T, at)
  <2>1. \A i \in Len(at) + 1 .. Len(at) : FALSE
    BY <1>1
  <2> QED BY <1>1, <2>1 DEF Operands
<1> QED BY <1>2, <1>3

OperandFrom(at, k, p) == p \in Seq(Nat) /\ Len(p) \in Nat /\ Len(at) < Len(p) /\ p[Len(at) + 1] = k

LEMMA OperandsOfChild ==
  ASSUME NEW T, IsProgram(T), NEW at \in DOMAIN T, IsArithmetic(T[at]), NEW k \in {1, 2},
         NEW p \in Operands(T, Append(at, k))
  PROVE  p \in Operands(T, at) /\ OperandFrom(at, k, p)
<1> DEFINE c == Append(at, k)
<1>0. IsTree(T) /\ k \in DOMAIN T[at].kids
  BY OperandThere DEF IsProgram
<1>1. at \in Seq(Nat) /\ c \in DOMAIN T /\ c \in Seq(Nat) /\ k \in Nat
  BY <1>0, TreeFacts
<1>2. Len(at) \in Nat /\ Len(c) = Len(at) + 1 /\ c[Len(at) + 1] = k
  BY <1>1, ChildFacts
<1>3. IsPrefix(at, c)
  BY <1>1, PrefixItself, PrefixOfChild
<1>4. /\ p \in DOMAIN T /\ IsPrefix(c, p) /\ ~IsArithmetic(T[p])
      /\ \A i \in Len(c) + 1 .. Len(p) : IsArithmetic(T[SubSeq(p, 1, i - 1)])
  BY DEF Operands
<1> HIDE DEF c
<1>5. p \in Seq(Nat) /\ Len(p) \in Nat
  BY <1>0, <1>4, TreeFacts
<1>6. IsPrefix(at, p)
  BY <1>1, <1>3, <1>4, <1>5, PrefixOn
<1>7. Len(c) <= Len(p) /\ \A i \in 1 .. Len(c) : c[i] = p[i]
  BY <1>1, <1>4, <1>5, PrefixDef
<1>8. Len(at) + 1 \in 1 .. Len(c) /\ (Len(at) + 1) - 1 = Len(at)
  BY <1>2
<1>9. p[Len(at) + 1] = k /\ Len(at) < Len(p)
  BY <1>2, <1>5, <1>7, <1>8
<1>10. SubSeq(p, 1, Len(at)) = at
  BY <1>1, <1>5, <1>6, PrefixCut
<1>11. \A i \in Len(at) + 1 .. Len(p) : i = Len(at) + 1 \/ i \in Len(c) + 1 .. Len(p)
  BY <1>2, <1>5
<1>12. \A i \in Len(at) + 1 .. Len(p) : IsArithmetic(T[SubSeq(p, 1, i - 1)])
  BY <1>4, <1>8, <1>10, <1>11
<1> QED BY <1>4, <1>5, <1>6, <1>9, <1>12 DEF Operands, OperandFrom

LEMMA OperandsBelow ==
  ASSUME NEW T, IsProgram(T), NEW at \in DOMAIN T, IsArithmetic(T[at]), NEW p \in Operands(T, at)
  PROVE  \E k \in {1, 2} : p \in Operands(T, Append(at, k))
<1>1. /\ p \in DOMAIN T /\ IsPrefix(at, p) /\ ~IsArithmetic(T[p])
      /\ \A i \in Len(at) + 1 .. Len(p) : IsArithmetic(T[SubSeq(p, 1, i - 1)])
  BY DEF Operands
<1>2. IsTree(T) /\ DOMAIN T[at].kids = {1, 2} /\ p # at
  BY <1>1, OperandThere DEF IsProgram
<1>3. p \in Seq(Nat) /\ at \in Seq(Nat) /\ Len(at) \in Nat
  BY <1>1, <1>2, TreeFacts
<1> DEFINE k == p[Len(at) + 1]
<1>4. k \in DOMAIN T[at].kids /\ IsPrefix(Append(at, k), p) /\ k \in Nat
  BY <1>1, <1>2, WayDown
<1> HIDE DEF k
<1>5. Len(Append(at, k)) = Len(at) + 1
  BY <1>3, <1>4, ChildFacts
<1>6. \A i \in Len(at) + 1 + 1 .. Len(p) : i \in Len(at) + 1 .. Len(p)
  BY <1>3
<1>7. \A i \in Len(Append(at, k)) + 1 .. Len(p) : i \in Len(at) + 1 .. Len(p)
  BY <1>5, <1>6
<1>8. p \in Operands(T, Append(at, k))
  BY <1>1, <1>4, <1>7 DEF Operands
<1> QED BY <1>2, <1>4, <1>8

LEMMA UnknownFacts ==
  ASSUME NEW T, IsProgram(T), NEW at \in DOMAIN T
  PROVE  IF IsArithmetic(T[at])
         THEN Unknown(T, at) <=> Unknown(T, Append(at, 1)) /\ Unknown(T, Append(at, 2))
         ELSE Unknown(T, at) <=> T[at].kind = "monop" \/ Forward(T, at) \/ Later(T, at)
<1>1. CASE IsArithmetic(T[at])
  <2>1. \A k \in {1, 2} : \A p \in Operands(T, Append(at, k)) : p \in Operands(T, at)
    BY <1>1, OperandsOfChild
  <2>2. \A p \in Operands(T, at) : \E k \in {1, 2} : p \in Operands(T, Append(at, k))
    BY <1>1, OperandsBelow
  <2>3. \A p \in Operands(T, at) : p \in Operands(T, Append(at, 1)) \/ p \in Operands(T, Append(at, 2))
    BY <2>2
  <2>4. /\ \A p \in Operands(T, Append(at, 1)) : p \in Operands(T, at)
        /\ \A p \in Operands(T, Append(at, 2)) : p \in Operands(T, at)
    BY <2>1
  <2> QED BY <1>1, <2>3, <2>4, Zenon DEF Unknown
<1>2. CASE ~IsArithmetic(T[at])
  <2>1. Operands(T, at) = {at}
    BY <1>2, OperandsHere DEF IsProgram
  <2> QED BY <1>2, <2>1 DEF Unknown
<1> QED BY <1>1, <1>2

LEMMA UntiedFacts ==
  ASSUME NEW T, IsProgram(T), NEW at \in DOMAIN T
  PROVE  IF IsArithmetic(T[at])
         THEN Untied(T, Append(at, 1)) => Untied(T, at)
         ELSE Untied(T, at) <=> T[at].kind = "monop" \/ Forward(T, at)
<1>0. IsTree(T) /\ at \in Seq(Nat) /\ Len(at) \in Nat
  BY TreeFacts DEF IsProgram
<1>1. CASE IsArithmetic(T[at])
  <2>1. SUFFICES ASSUME Untied(T, Append(at, 1)) PROVE Untied(T, at)
    BY <1>1
  <2>2. PICK p \in Operands(T, Append(at, 1)) :
          /\ \A i \in Len(Append(at, 1)) + 1 .. Len(p) : p[i] = 1
          /\ T[p].kind = "monop" \/ Forward(T, p)
    BY <2>1 DEF Untied
  <2>3. p \in Operands(T, at) /\ OperandFrom(at, 1, p)
    BY <1>1, OperandsOfChild
  <2>4. Len(p) \in Nat /\ p[Len(at) + 1] = 1
    BY <2>3 DEF OperandFrom
  <2>5. Len(Append(at, 1)) = Len(at) + 1
    BY <1>0, ChildFacts
  <2>6. \A i \in Len(at) + 1 .. Len(p) : i = Len(at) + 1 \/ i \in Len(at) + 1 + 1 .. Len(p)
    BY <1>0, <2>4
  <2>7. \A i \in Len(at) + 1 .. Len(p) : p[i] = 1
    BY <2>2, <2>4, <2>5, <2>6
  <2> QED BY <2>2, <2>3, <2>7 DEF Untied
<1>2. CASE ~IsArithmetic(T[at])
  <2>1. Operands(T, at) = {at}
    BY <1>0, <1>2, OperandsHere
  <2>2. \A i \in Len(at) + 1 .. Len(at) : FALSE
    BY <1>0
  <2>3. \A i \in Len(at) + 1 .. Len(at) : at[i] = 1
    BY <2>2
  <2>4. Untied(T, at) <=> /\ \A i \in Len(at) + 1 .. Len(at) : at[i] = 1
                          /\ T[at].kind = "monop" \/ Forward(T, at)
    <3> DEFINE Fine(p) == /\ \A i \in Len(at) + 1 .. Len(p) : p[i] = 1
                          /\ T[p].kind = "monop" \/ Forward(T, p)
    <3>1. Untied(T, at) <=> \E p \in Operands(T, at) : Fine(p)
      BY DEF Untied
    <3>2. Untied(T, at) <=> Fine(at)
      <4> HIDE DEF Fine
      <4> QED BY <2>1, <3>1
    <3> QED BY <3>2
  <2> QED BY <1>2, <2>3, <2>4
<1> QED BY <1>1, <1>2

-----------------------------------------------------------------------------
(***************************************************************************)
(* What the links hold.  Terms of the program are never tied to functions, *)
(* a node is tied to nothing before it is left, unless a loop or a function *)
(* has done so in advance, and in a program that is not mistreated terms   *)
(* are tied to terms of their own type only.                               *)
(***************************************************************************)
Proper(T) == WellTyped(T) /\ \A at \in DOMAIN T : ~Mistreated(T, at)

Early(T, p) ==
  \E q \in DOMAIN T : \E i \in DOMAIN T[q].kids :
    /\ p = Append(q, i)
    /\ \/ T[q].kind = "for" /\ i \in 1 .. T[q].bounds
       \/ T[q].kind = "return" /\ q # <<>> /\ OfOuterList(T, q)

Plain(T) ==
  {IdVar(x) : x \in VarNames(T)} \cup {NodeVar(p) : p \in DOMAIN T} \cup {Base(b) : b \in Values \cup {"void"}}

FunPlaces(T, f) ==
  {p \in DOMAIN T : T[p].kind = "header" /\ T[p].id = f}
    \cup {p \in DOMAIN T : T[p].kind = "fundec" /\ T[p].kids[1].id = f}

FunClass(T, f) == {IdVar(f)} \cup {FunType(p, T[HeaderAt(T, f)]) : p \in FunPlaces(T, f)}

TypeClass(T, b) ==
  {IdVar(x) : x \in {y \in VarNames(T) : TypeOfId(T, y) = b}}
    \cup {NodeVar(p) : p \in {q \in DOMAIN T : TypeOf(T, q) = b}} \cup {Base(b)}

LinksOK(T, d, l) ==
  /\ Sound(l)
  /\ Closed(Plain(T), l)
  /\ \A f \in FunNames(T) : Closed(FunClass(T, f), l)
  /\ \A p \in DOMAIN T : Left(d, p) \/ Early(T, p) \/ Closed({NodeVar(p)}, l)
  /\ Proper(T) => \A b : Closed(TypeClass(T, b), l)

(* An equation that may be made on the way to d.                           *)
Fit(T, d, s, t) ==
  /\ s \in Plain(T) /\ t \in Plain(T)
  /\ \A p \in DOMAIN T : Left(d, p) \/ Early(T, p) \/ (s # NodeVar(p) /\ t # NodeVar(p))
  /\ Proper(T) => \A b : s \in TypeClass(T, b) <=> t \in TypeClass(T, b)

LEMMA TypeClassFacts ==
  ASSUME NEW T
  PROVE  /\ \A b : OneType(TypeClass(T, b))
         /\ \A b, x : IdVar(x) \in TypeClass(T, b) <=> x \in VarNames(T) /\ TypeOfId(T, x) = b
         /\ \A b, p : NodeVar(p) \in TypeClass(T, b) <=> p \in DOMAIN T /\ TypeOf(T, p) = b
         /\ \A b, c : Base(c) \in TypeClass(T, b) <=> c = b
         /\ \A s \in Plain(T) : \E b : s \in TypeClass(T, b)
<1>1. \A b, x : IdVar(x) \in TypeClass(T, b) <=> x \in VarNames(T) /\ TypeOfId(T, x) = b
  BY Apart DEF TypeClass
<1>2. \A b, p : NodeVar(p) \in TypeClass(T, b) <=> p \in DOMAIN T /\ TypeOf(T, p) = b
  BY Apart DEF TypeClass
<1>3. \A b, c : Base(c) \in TypeClass(T, b) <=> c = b
  BY Apart DEF TypeClass
<1>4. ASSUME NEW b, NEW u \in TypeClass(T, b) PROVE IsVar(u) \/ u = Base(b)
  BY TermKinds DEF TypeClass
<1>5. \A b : OneType(TypeClass(T, b))
  BY <1>4 DEF OneType
<1>6. ASSUME NEW s \in Plain(T) PROVE \E b : s \in TypeClass(T, b)
  BY <1>1, <1>2, <1>3 DEF Plain
<1> QED BY <1>1, <1>2, <1>3, <1>5, <1>6

LEMMA PlainNotFun ==
  ASSUME NEW T, Names(T), NEW s \in Plain(T)
  PROVE  ~IsFun(s) /\ \A f \in FunNames(T) : s \notin FunClass(T, f)
<1>1. ~IsFun(s)
  BY TermKinds DEF Plain
<1>2. ASSUME NEW f \in FunNames(T) PROVE s # IdVar(f)
  <2>1. f \notin VarNames(T)
    BY DEF Names
  <2> QED BY <2>1, Apart DEF Plain
<1>3. ASSUME NEW f \in FunNames(T), s \in FunClass(T, f) PROVE FALSE
  <2>1. PICK p \in FunPlaces(T, f) : s = FunType(p, T[HeaderAt(T, f)])
    BY <1>2, <1>3 DEF FunClass
  <2> QED BY <1>1, <2>1, TermKinds DEF FunType
<1> QED BY <1>1, <1>3

LEMMA PlainFacts ==
  ASSUME NEW T
  PROVE  /\ \A x \in VarNames(T) : IdVar(x) \in Plain(T)
         /\ \A p \in DOMAIN T : NodeVar(p) \in Plain(T)
         /\ \A b \in Values \cup {"void"} : Base(b) \in Plain(T)
BY DEF Plain

(* A list of equations made on the way from one list of places to another. *)
Makes(T, e, l, pairs, r) ==
  /\ LinksOK(T, e, r.links) /\ Keeps(l, r.links) /\ r.ok \in BOOLEAN
  /\ r.ok => \A i \in DOMAIN pairs : Tied(r.links, pairs[i][1], pairs[i][2])
  /\ Proper(T) => r.ok

LEMMA EquateFacts ==
  ASSUME NEW T, Names(T), NEW d, NEW e, NEW l, LinksOK(T, d, l),
         \A p \in DOMAIN T : Left(d, p) => Left(e, p),
         NEW S, NEW pairs \in Seq(S), \A i \in DOMAIN pairs : Fit(T, e, pairs[i][1], pairs[i][2])
  PROVE  Makes(T, e, l, pairs, UnifyAll(l, pairs))
<1> DEFINE r == UnifyAll(l, pairs)
<1>1. Sound(l)
  BY DEF LinksOK
<1>2. UnifiesAll(l, pairs, Len(pairs), r)
  BY <1>1, UnifyAllFacts
<1>3. DOMAIN pairs = 1 .. Len(pairs)
  OBVIOUS
<1> HIDE DEF r
<1>4. Keeps(l, r.links) /\ r.ok \in BOOLEAN /\ Sound(r.links)
  BY <1>2 DEF UnifiesAll, Keeps
<1>5. r.ok => \A i \in DOMAIN pairs : Tied(r.links, pairs[i][1], pairs[i][2])
  BY <1>2, <1>3 DEF UnifiesAll
<1>6. \A A : Closed(A, l) /\ Balanced(A, pairs) => Closed(A, r.links)
  BY <1>2 DEF UnifiesAll
<1>7. Closed(Plain(T), r.links)
  <2>1. Balanced(Plain(T), pairs)
    BY DEF Balanced, Fit
  <2> QED BY <1>6, <2>1 DEF LinksOK
<1>8. ASSUME NEW f \in FunNames(T) PROVE Closed(FunClass(T, f), r.links)
  <2>1. Balanced(FunClass(T, f), pairs)
    BY PlainNotFun DEF Balanced, Fit
  <2> QED BY <1>6, <2>1 DEF LinksOK
<1>9. ASSUME NEW p \in DOMAIN T PROVE Left(e, p) \/ Early(T, p) \/ Closed({NodeVar(p)}, r.links)
  <2>1. SUFFICES ASSUME ~Left(e, p), ~Early(T, p) PROVE Closed({NodeVar(p)}, r.links)
    OBVIOUS
  <2>2. Closed({NodeVar(p)}, l)
    BY <2>1 DEF LinksOK
  <2>3. Balanced({NodeVar(p)}, pairs)
    BY <2>1 DEF Balanced, Fit
  <2> QED BY <1>6, <2>2, <2>3
<1>10. ASSUME Proper(T), NEW b PROVE Closed(TypeClass(T, b), l) /\ Balanced(TypeClass(T, b), pairs)
  BY <1>10 DEF LinksOK, Fit, Balanced
<1>11. ASSUME Proper(T) PROVE r.ok
  <2>1. ASSUME NEW i \in DOMAIN pairs
        PROVE  \E A : Closed(A, l) /\ OneType(A) /\ Balanced(A, pairs) /\ pairs[i][1] \in A
    <3>1. pairs[i][1] \in Plain(T)
      BY DEF Fit
    <3>2. PICK b : pairs[i][1] \in TypeClass(T, b)
      BY <3>1, TypeClassFacts
    <3>3. OneType(TypeClass(T, b))
      BY TypeClassFacts
    <3> QED BY <1>10, <1>11, <3>2, <3>3
  <2> QED BY <1>2, <2>1 DEF UnifiesAll
<1>12. LinksOK(T, e, r.links)
  BY <1>4, <1>6, <1>7, <1>8, <1>9, <1>10 DEF LinksOK
<1> QED BY <1>4, <1>5, <1>11, <1>12 DEF Makes, r

(* The same for one equation.                                              *)
LEMMA EquateOne ==
  ASSUME NEW T, Names(T), NEW d, NEW e, NEW l, LinksOK(T, d, l),
         \A p \in DOMAIN T : Left(d, p) => Left(e, p),
         NEW s, NEW t, Fit(T, e, s, t)
  PROVE  Makes(T, e, l, << <<s, t>> >>, UnifyTypes(l, s, t))
<1> DEFINE r == UnifyTypes(l, s, t)
<1>1. Sound(l)
  BY DEF LinksOK
<1>2. Unifies(l, s, t, r)
  BY <1>1, UnifyTypesFacts
<1>3. ASSUME Proper(T) PROVE r.ok
  <2>1. PICK b : s \in TypeClass(T, b)
    BY TypeClassFacts DEF Fit
  <2>2. t \in TypeClass(T, b) /\ Closed(TypeClass(T, b), l) /\ OneType(TypeClass(T, b))
    BY <1>3, <2>1, TypeClassFacts DEF Fit, LinksOK
  <2> QED BY <2>1, <2>2, UnifyTypesOk
<1> HIDE DEF r
<1>4. Keeps(l, r.links) /\ r.ok \in BOOLEAN /\ Sound(r.links) /\ (r.ok => Tied(r.links, s, t))
  BY <1>2 DEF Unifies, Keeps
<1>6. \A A : Closed(A, l) /\ (s \in A <=> t \in A) => Closed(A, r.links)
  BY <1>2 DEF Unifies
<1>7. Closed(Plain(T), r.links)
  BY <1>6 DEF LinksOK, Fit
<1>8. ASSUME NEW f \in FunNames(T) PROVE Closed(FunClass(T, f), r.links)
  <2>1. s \notin FunClass(T, f) /\ t \notin FunClass(T, f)
    BY PlainNotFun DEF Fit
  <2> QED BY <1>6, <2>1 DEF LinksOK
<1>9. ASSUME NEW p \in DOMAIN T PROVE Left(e, p) \/ Early(T, p) \/ Closed({NodeVar(p)}, r.links)
  <2>1. SUFFICES ASSUME ~Left(e, p), ~Early(T, p) PROVE Closed({NodeVar(p)}, r.links)
    OBVIOUS
  <2>2. Closed({NodeVar(p)}, l)
    BY <2>1 DEF LinksOK
  <2>3. s # NodeVar(p) /\ t # NodeVar(p)
    BY <2>1 DEF Fit
  <2> QED BY <1>6, <2>2, <2>3
<1>10. ASSUME Proper(T), NEW b PROVE Closed(TypeClass(T, b), r.links)
  BY <1>6, <1>10 DEF LinksOK, Fit
<1>12. LinksOK(T, e, r.links)
  BY <1>4, <1>7, <1>8, <1>9, <1>10 DEF LinksOK
<1>13. DOMAIN << <<s, t>> >> = {1} /\ << <<s, t>> >>[1] = <<s, t>>
  OBVIOUS
<1> QED BY <1>3, <1>4, <1>12, <1>13 DEF Makes, r

-----------------------------------------------------------------------------
(***************************************************************************)
(* What is known of a node that was visited, and of one that was left.     *)
(***************************************************************************)
EnterFacts(T, l, p) ==
  LET n == T[p]
  IN  /\ n.kind = "header" => IsFun(Find(l, IdVar(n.id)))
      /\ n.kind = "for" =>
           /\ Find(l, IdVar(n.id)) = Base("int")
           /\ \A i \in 1 .. n.bounds : Find(l, NodeVar(Append(p, i))) = Base("int")
      /\ n.kind = "fundef" =>
           \A i \in OuterReturns(n) :
             n.kids[1].type # "void" /\ Find(l, NodeVar(Append(Append(p, i), 1))) = Base(n.kids[1].type)

DeclarationLeft(T, l, p) ==
  LET n == T[p]
  IN  n.kind \in {"parameter", "vardec", "globaldef", "globaldec"} =>
        \A d \in Declared(n) : Find(l, IdVar(d[1])) = Base(d[2])

StatementLeft(T, l, p) ==
  LET n == T[p]
      kid(i) == NodeVar(Append(p, i))
  IN  /\ n.kind = "varlet" => Tied(l, IdVar(n.id), NodeVar(p))
      /\ n.kind = "assign" => Tied(l, kid(1), kid(2))
      /\ n.kind \in {"if", "while"} => Find(l, kid(1)) = Base("bool")
      /\ n.kind = "dowhile" => Find(l, kid(Len(n.kids))) = Base("bool")
      /\ n.kind = "arrinit" => T[Append(p, 1)].kind = "monop" \/ Find(l, kid(1)) = Base("int")

CallLeft(T, l, p) ==
  LET params == Params(T[HeaderAt(T, T[p].id)])
  IN  T[p].kind = "call" /\ ~Forward(T, p) =>
        /\ Find(l, NodeVar(p)) = Base(T[HeaderAt(T, T[p].id)].type)
        /\ \A i \in DOMAIN params : Tied(l, NodeVar(Append(p, i)), IdVar(params[i].id))

OperatorLeft(T, l, p) ==
  LET n == T[p]
      kid(i) == NodeVar(Append(p, i))
  IN  /\ n.kind = "binop" => Tied(l, kid(1), kid(2))
      /\ n.kind = "binop" /\ n.op \in Logical \cup Ordering \cup Equality => Find(l, NodeVar(p)) = Base("bool")
      /\ n.kind = "binop" /\ n.op = "mod" => Find(l, NodeVar(p)) = Base("int")
      /\ n.kind = "binop" /\ n.op \in Logical \cup Arithmetic \cup {"mod"} => Tied(l, kid(1), NodeVar(p))
      /\ n.kind = "monop" /\ n.op = "not" => Find(l, kid(1)) = Base("bool")
      /\ n.kind \in {"cast", "literal"} => Find(l, NodeVar(p)) = Base(n.type)

UseLeft(T, l, p) ==
  LET n == T[p]
  IN  /\ n.kind = "var" => Tied(l, NodeVar(p), IdVar(n.id))
      /\ n.kind = "arrexpr" =>
           /\ Early(T, p) \/ Tied(l, NodeVar(p), IdVar(n.id))
           /\ \A i \in DOMAIN n.kids : Tied(l, IdVar(n.id), NodeVar(Append(p, i)))

(* No bool was found where bools are refused.                              *)
NoBool(T, l, p) ==
  LET n == T[p]
  IN  /\ \/ n.kind = "monop" /\ n.op = "neg"
         \/ n.kind = "binop" /\ n.op \in Ordering \cup {"sub", "div"}
      /\ \E i \in DOMAIN n.kids : ~Unknown(T, Append(p, i))
      => \E u : u # "bool" /\ Find(l, NodeVar(Append(p, 1))) = Base(u)

(* A class that is known is that of a type: the expression's, if all       *)
(* expressions have theirs.                                                *)
Grounded(T, l, p) ==
  T[p].kind \in Expressions /\ ~Unknown(T, p) =>
    /\ (T[p].kind = "arrexpr" /\ Early(T, p)) \/ \E u : Find(l, NodeVar(p)) = Base(u)
    /\ WellTyped(T) => Find(l, NodeVar(p)) = Base(TypeOf(T, p))

(* What is in the tree for an expression.                                  *)
Noted(T, l, a, p) ==
  /\ T[p].kind \in Expressions \ {"monop"} /\ p \in DOMAIN a /\ a[p] \in Values =>
       Find(l, NodeVar(p)) = Base(a[p])
  /\ WellTyped(T) /\ T[p].kind \in Expressions /\ (T[p].kind = "call" => ~T[p].in_stmt_pos) /\ ~Unsure(T, p) =>
       p \in DOMAIN a /\ a[p] = TypeOf(T, p)

LeaveFacts(T, l, a, p) ==
  /\ DeclarationLeft(T, l, p) /\ StatementLeft(T, l, p) /\ CallLeft(T, l, p)
  /\ OperatorLeft(T, l, p) /\ UseLeft(T, l, p) /\ NoBool(T, l, p)
  /\ Grounded(T, l, p) /\ Noted(T, l, a, p)

Known(T, d, l, a) ==
  \A p \in DOMAIN T : /\ Entered(d, p) => EnterFacts(T, l, p)
                      /\ Left(d, p) => LeaveFacts(T, l, a, p)

(* Types are written into expressions that are left.                       *)
Written(T, d, a) == \A p \in DOMAIN T : p \in DOMAIN a => Left(d, p) \/ T[p].kind = "arrinit"

(* The invariant, of a program T, the list d of what is to come, the links *)
(* l, whether there was no error, ok, and the types in the tree, a.        *)
Checking(T, d, l, ok, a) ==
  /\ TodoOK(T, d) /\ Order(d) /\ LinksOK(T, d, l) /\ ok \in BOOLEAN /\ Written(T, d, a)
  /\ ok => Known(T, d, l, a)
  /\ Proper(T) => ok

LEMMA EnterFactsKept ==
  ASSUME NEW T, NEW l, NEW m, Keeps(l, m), NEW p, EnterFacts(T, l, p)
  PROVE  EnterFacts(T, m, p)
<1>1. \A t, b : Find(l, t) = Base(b) => Find(m, t) = Base(b)
  BY KeepsTied
<1>2. \A t : IsFun(Find(l, t)) => IsFun(Find(m, t))
  <2>1. \A t : Find(m, Find(l, t)) = Find(m, t)
    BY DEF Keeps
  <2>2. \A t : IsFun(t) => IsFun(Find(m, t))
    BY FindFacts DEF Keeps
  <2> QED BY <2>1, <2>2
<1> QED BY <1>1, <1>2 DEF EnterFacts

(* Two lists of types agree about a node.                                 *)
Agree(a, b, p) == (p \in DOMAIN a <=> p \in DOMAIN b) /\ (p \in DOMAIN a => a[p] = b[p])

LEMMA LeaveFactsKept ==
  ASSUME NEW T, NEW l, NEW m, Keeps(l, m), NEW a, NEW b, NEW p,
         Agree(a, b, p), LeaveFacts(T, l, a, p)
  PROVE  LeaveFacts(T, m, b, p)
<1>1. \A t, u : Find(l, t) = Base(u) => Find(m, t) = Base(u)
  BY KeepsTied
<1>2. \A s, t : Tied(l, s, t) => Tied(m, s, t)
  BY KeepsTied
<1>3. DeclarationLeft(T, m, p)
  BY <1>1 DEF LeaveFacts, DeclarationLeft
<1>4. StatementLeft(T, m, p)
  BY <1>1, <1>2 DEF LeaveFacts, StatementLeft
<1>5. CallLeft(T, m, p)
  BY <1>1, <1>2 DEF LeaveFacts, CallLeft
<1>6. OperatorLeft(T, m, p)
  BY <1>1, <1>2 DEF LeaveFacts, OperatorLeft
<1>7. UseLeft(T, m, p)
  BY <1>2 DEF LeaveFacts, UseLeft
<1>8. NoBool(T, m, p)
  BY <1>1 DEF LeaveFacts, NoBool
<1>9. Grounded(T, m, p)
  BY <1>1 DEF LeaveFacts, Grounded
<1>10. Noted(T, m, b, p)
  BY <1>1 DEF LeaveFacts, Noted, Agree
<1> QED BY <1>3, <1>4, <1>5, <1>6, <1>7, <1>8, <1>9, <1>10 DEF LeaveFacts

(* A node is left.                                                         *)
LEMMA Leaves ==
  ASSUME NEW T, IsTree(T), NEW d, NEW l, NEW ok, NEW a, Checking(T, d, l, ok, a),
         d # <<>>, Head(d)[1] = "leave",
         NEW m, Keeps(l, m), LinksOK(T, Tail(d), m),
         NEW okay \in BOOLEAN, okay => ok, Proper(T) => okay,
         NEW b, \A p \in DOMAIN T : p # Head(d)[2] => Agree(a, b, p),
         okay => LeaveFacts(T, m, b, Head(d)[2])
  PROVE  Checking(T, Tail(d), m, okay, b)
<1> DEFINE h == Head(d)[2]
           e == Tail(d)
<1>1. TodoOK(T, d) /\ Order(d)
  BY DEF Checking
<1>2. /\ TodoOK(T, e) /\ Order(e)
      /\ \A p \in DOMAIN T : Entered(e, p) => Entered(d, p)
      /\ \A p \in DOMAIN T : Left(e, p) => Left(d, p) \/ p = h
  BY <1>1, AfterLeaving
<1>3. ~Left(d, h) /\ Left(e, h) /\ \A p : Left(d, p) => Left(e, p)
  BY <1>1, LeavingHead, StaysLeft
<1>5. Written(T, d, a) /\ \A p \in DOMAIN T : p # h => Agree(a, b, p)
  BY DEF Checking
<1> HIDE DEF h, e
<1>6. Written(T, e, b)
  BY <1>3, <1>5 DEF Written, Agree
<1>4. ASSUME okay PROVE Known(T, e, m, b)
  <2>1. Known(T, d, l, a)
    BY <1>4 DEF Checking
  <2>2. ASSUME NEW p \in DOMAIN T, Entered(e, p) PROVE EnterFacts(T, m, p)
    <3>1. EnterFacts(T, l, p)
      BY <1>2, <2>1, <2>2 DEF Known
    <3> QED BY <3>1, EnterFactsKept
  <2>3. ASSUME NEW p \in DOMAIN T, Left(e, p) PROVE LeaveFacts(T, m, b, p)
    <3>1. CASE p = h
      BY <1>4, <3>1 DEF h
    <3>2. CASE p # h
      <4>1. LeaveFacts(T, l, a, p)
        BY <1>2, <2>1, <2>3, <3>2 DEF Known
      <4>2. Agree(a, b, p)
        BY <3>2 DEF h
      <4> QED BY <4>1, <4>2, LeaveFactsKept
    <3> QED BY <3>1, <3>2
  <2> QED BY <2>2, <2>3 DEF Known
<1> QED BY <1>2, <1>4, <1>6 DEF Checking, e

(* A node is visited.                                                      *)
LEMMA Visits ==
  ASSUME NEW T, IsTree(T), NEW d, NEW l, NEW ok, NEW a, Checking(T, d, l, ok, a),
         d # <<>>, Head(d)[1] = "visit",
         NEW m, Keeps(l, m), LinksOK(T, Going(T, d), m),
         NEW okay \in BOOLEAN, okay => ok, Proper(T) => okay,
         okay => EnterFacts(T, m, Head(d)[2])
  PROVE  Checking(T, Going(T, d), m, okay, a)
<1> DEFINE h == Head(d)[2]
           e == Going(T, d)
<1>1. TodoOK(T, d) /\ Order(d)
  BY DEF Checking
<1>2. /\ TodoOK(T, e) /\ Order(e)
      /\ \A p \in DOMAIN T : Entered(e, p) => Entered(d, p) \/ p = h
      /\ \A p \in DOMAIN T : Left(e, p) <=> Left(d, p)
  BY <1>1, AfterGoing
<1> HIDE DEF h, e
<1>4. ASSUME okay PROVE Known(T, e, m, a)
  <2>1. Known(T, d, l, a)
    BY <1>4 DEF Checking
  <2>2. ASSUME NEW p \in DOMAIN T, Entered(e, p) PROVE EnterFacts(T, m, p)
    <3>1. CASE p = h
      BY <1>4, <3>1 DEF h
    <3>2. CASE p # h
      <4>1. EnterFacts(T, l, p)
        BY <1>2, <2>1, <2>2, <3>2 DEF Known
      <4> QED BY <4>1, EnterFactsKept
    <3> QED BY <3>1, <3>2
  <2>3. ASSUME NEW p \in DOMAIN T, Left(e, p) PROVE LeaveFacts(T, m, a, p)
    <3>1. LeaveFacts(T, l, a, p)
      BY <1>2, <2>1, <2>3 DEF Known
    <3> QED BY <3>1, LeaveFactsKept DEF Agree
  <2> QED BY <2>2, <2>3 DEF Known
<1>5. Written(T, e, a)
  BY <1>2 DEF Checking, Written
<1> QED BY <1>2, <1>4, <1>5 DEF Checking, e

-----------------------------------------------------------------------------
(* Terms that may be equated, with their types.                            *)
FitTerm(T, e, s, b) ==
  /\ s \in Plain(T)
  /\ \A p \in DOMAIN T : Left(e, p) \/ Early(T, p) \/ s # NodeVar(p)
  /\ \A c : s \in TypeClass(T, c) <=> c = b

LEMMA FitTerms ==
  ASSUME NEW T, NEW e
  PROVE  /\ \A x \in VarNames(T) : FitTerm(T, e, IdVar(x), TypeOfId(T, x))
         /\ \A b \in Values \cup {"void"} : FitTerm(T, e, Base(b), b)
         /\ \A p \in DOMAIN T : Left(e, p) \/ Early(T, p) => FitTerm(T, e, NodeVar(p), TypeOf(T, p))
<1>1. ASSUME NEW x \in VarNames(T) PROVE FitTerm(T, e, IdVar(x), TypeOfId(T, x))
  BY Apart, PlainFacts, TypeClassFacts DEF FitTerm
<1>2. ASSUME NEW b \in Values \cup {"void"} PROVE FitTerm(T, e, Base(b), b)
  BY Apart, PlainFacts, TypeClassFacts DEF FitTerm
<1>3. ASSUME NEW p \in DOMAIN T, Left(e, p) \/ Early(T, p) PROVE FitTerm(T, e, NodeVar(p), TypeOf(T, p))
  BY <1>3, Apart, PlainFacts, TypeClassFacts DEF FitTerm
<1> QED BY <1>1, <1>2, <1>3

LEMMA FitPair ==
  ASSUME NEW T, NEW e, NEW s, NEW t, NEW b, NEW c, FitTerm(T, e, s, b), FitTerm(T, e, t, c), Proper(T) => b = c
  PROVE  Fit(T, e, s, t)
BY DEF FitTerm, Fit

(* A root may be equated as the term may.                                  *)
LEMMA FitRoot ==
  ASSUME NEW T, NEW d, NEW e, NEW l, LinksOK(T, d, l), \A p \in DOMAIN T : Left(d, p) => Left(e, p),
         NEW s, NEW t, Fit(T, e, s, t)
  PROVE  Fit(T, e, Find(l, s), t)
<1>1. Find(l, s) \in Plain(T)
  BY ClosedFind DEF LinksOK, Fit
<1>2. ASSUME NEW p \in DOMAIN T, ~Left(e, p), ~Early(T, p) PROVE Find(l, s) # NodeVar(p)
  <2>1. Closed({NodeVar(p)}, l)
    BY <1>2 DEF LinksOK
  <2>2. Find(l, s) \in {NodeVar(p)} <=> s \in {NodeVar(p)}
    BY <2>1, ClosedFind
  <2> QED BY <1>2, <2>2 DEF Fit
<1>3. ASSUME Proper(T), NEW b PROVE Find(l, s) \in TypeClass(T, b) <=> t \in TypeClass(T, b)
  <2>1. Closed(TypeClass(T, b), l)
    BY <1>3 DEF LinksOK
  <2>2. Find(l, s) \in TypeClass(T, b) <=> s \in TypeClass(T, b)
    BY <2>1, ClosedFind
  <2> QED BY <1>3, <2>2 DEF Fit
<1> QED BY <1>1, <1>2, <1>3 DEF Fit

(* The root of a term is a variable or a type.                             *)
LEMMA PlainRoot ==
  ASSUME NEW T, NEW d, NEW l, LinksOK(T, d, l), NEW s \in Plain(T)
  PROVE  IsVar(Find(l, s)) \/ \E b \in Values \cup {"void"} : Find(l, s) = Base(b)
<1>1. Find(l, s) \in Plain(T)
  BY ClosedFind DEF LinksOK
<1> QED BY <1>1, TermKinds DEF Plain

-----------------------------------------------------------------------------
Ask(at, i, types) == [of |-> Append(at, i), types |-> types]

LEMMA GivenAsAsked ==
  ASSUME NEW T, WellTyped(T), NEW at \in DOMAIN T, NEW i, NEW types, Ask(at, i, types) \in Asked(T, at)
  PROVE  TypeOf(T, Append(at, i)) \in types
<1> DEFINE b == Ask(at, i, types)
<1>1. {<<at, c.of>> : c \in {b1 \in Asked(T, at) : TypeOf(T, b1.of) \notin b1.types}} \subseteq Misfits(T)
  BY DEF Misfits
<1>2. Misfits(T) = {}
  BY DEF WellTyped
<1>3. {b1 \in Asked(T, at) : TypeOf(T, b1.of) \notin b1.types} = {}
  BY <1>1, <1>2
<1>4. TypeOf(T, b.of) \in b.types
  BY <1>3
<1> QED BY <1>4 DEF Ask

AskedOf(T, at) ==
  /\ T[at].kind = "assign" => Asked(T, at) = {Ask(at, 2, {TypeOfId(T, T[at].kids[1].id)})}
  /\ T[at].kind \in {"varlet", "arrexpr", "vardec", "globaldef", "arrinit"} =>
       Asked(T, at) = {Ask(at, i, {"int"}) : i \in DOMAIN T[at].kids}
  /\ T[at].kind = "call" =>
       Asked(T, at) = {Ask(at, i, {Params(T[HeaderAt(T, T[at].id)])[i].type}) :
                         i \in DOMAIN Params(T[HeaderAt(T, T[at].id)])}
  /\ T[at].kind = "return" =>
       Asked(T, at) = {Ask(at, i, {ReturnType(T, at)} \ {"void"}) : i \in DOMAIN T[at].kids}
  /\ T[at].kind \in {"if", "while"} => Asked(T, at) = {Ask(at, 1, {"bool"})}
  /\ T[at].kind = "dowhile" => Asked(T, at) = {Ask(at, Len(T[at].kids), {"bool"})}
  /\ T[at].kind = "for" => Asked(T, at) = {Ask(at, i, {"int"}) : i \in 1 .. T[at].bounds}
  /\ T[at].kind = "monop" => Asked(T, at) = {Ask(at, 1, OperandTypes(T[at].op))}
  /\ T[at].kind = "cast" => Asked(T, at) = {Ask(at, 1, Values)}
  /\ T[at].kind = "binop" =>
       Asked(T, at) = {Ask(at, 1, OperandTypes(T[at].op)), Ask(at, 2, {TypeOf(T, Append(at, 1))})}

LEMMA AskedFacts ==
  ASSUME NEW T, NEW at
  PROVE  AskedOf(T, at)
BY DEF Asked, Ask, AskedOf

(* What well typed nodes have been given.                                  *)
GivenOf(T, at) ==
  /\ T[at].kind = "assign" => TypeOf(T, Append(at, 2)) = TypeOfId(T, T[at].kids[1].id)
  /\ T[at].kind \in {"arrexpr", "arrinit"} => \A i \in DOMAIN T[at].kids : TypeOf(T, Append(at, i)) = "int"
  /\ T[at].kind = "call" =>
       \A i \in DOMAIN Params(T[HeaderAt(T, T[at].id)]) :
         TypeOf(T, Append(at, i)) = Params(T[HeaderAt(T, T[at].id)])[i].type
  /\ T[at].kind = "return" =>
       \A i \in DOMAIN T[at].kids :
         TypeOf(T, Append(at, i)) = ReturnType(T, at) /\ ReturnType(T, at) # "void"
  /\ T[at].kind \in {"if", "while"} => TypeOf(T, Append(at, 1)) = "bool"
  /\ T[at].kind = "dowhile" => TypeOf(T, Append(at, Len(T[at].kids))) = "bool"
  /\ T[at].kind = "for" => \A i \in 1 .. T[at].bounds : TypeOf(T, Append(at, i)) = "int"
  /\ T[at].kind = "monop" => TypeOf(T, Append(at, 1)) \in OperandTypes(T[at].op)
  /\ T[at].kind = "binop" =>
       /\ TypeOf(T, Append(at, 1)) \in OperandTypes(T[at].op)
       /\ TypeOf(T, Append(at, 2)) = TypeOf(T, Append(at, 1))

LEMMA GivenFacts ==
  ASSUME NEW T, WellTyped(T), NEW at \in DOMAIN T
  PROVE  GivenOf(T, at)
<1>10. AskedOf(T, at)
  BY AskedFacts
<1>0. \A i, types : Ask(at, i, types) \in Asked(T, at) => TypeOf(T, Append(at, i)) \in types
  BY GivenAsAsked
<1>1. ASSUME T[at].kind = "assign" PROVE TypeOf(T, Append(at, 2)) = TypeOfId(T, T[at].kids[1].id)
  <2>1. Ask(at, 2, {TypeOfId(T, T[at].kids[1].id)}) \in Asked(T, at)
    BY <1>1, <1>10 DEF AskedOf
  <2> QED BY <1>0, <2>1
<1>2. ASSUME T[at].kind \in {"arrexpr", "arrinit"}, NEW i \in DOMAIN T[at].kids PROVE TypeOf(T, Append(at, i)) = "int"
  <2>1. Ask(at, i, {"int"}) \in Asked(T, at)
    BY <1>2, <1>10 DEF AskedOf
  <2> QED BY <1>0, <2>1
<1>3. ASSUME T[at].kind = "call", NEW i \in DOMAIN Params(T[HeaderAt(T, T[at].id)])
      PROVE  TypeOf(T, Append(at, i)) = Params(T[HeaderAt(T, T[at].id)])[i].type
  <2>1. Ask(at, i, {Params(T[HeaderAt(T, T[at].id)])[i].type}) \in Asked(T, at)
    BY <1>3, <1>10 DEF AskedOf
  <2> QED BY <1>0, <2>1
<1>4. ASSUME T[at].kind = "return", NEW i \in DOMAIN T[at].kids
      PROVE  TypeOf(T, Append(at, i)) = ReturnType(T, at) /\ ReturnType(T, at) # "void"
  <2>1. Ask(at, i, {ReturnType(T, at)} \ {"void"}) \in Asked(T, at)
    BY <1>4, <1>10 DEF AskedOf
  <2>2. TypeOf(T, Append(at, i)) \in {ReturnType(T, at)} \ {"void"}
    BY <1>0, <2>1
  <2> QED BY <2>2
<1>5. ASSUME T[at].kind \in {"if", "while"} PROVE TypeOf(T, Append(at, 1)) = "bool"
  <2>1. Ask(at, 1, {"bool"}) \in Asked(T, at)
    BY <1>5, <1>10 DEF AskedOf
  <2> QED BY <1>0, <2>1
<1>6. ASSUME T[at].kind = "dowhile" PROVE TypeOf(T, Append(at, Len(T[at].kids))) = "bool"
  <2>1. Ask(at, Len(T[at].kids), {"bool"}) \in Asked(T, at)
    BY <1>6, <1>10 DEF AskedOf
  <2> QED BY <1>0, <2>1
<1>7. ASSUME T[at].kind = "for", NEW i \in 1 .. T[at].bounds PROVE TypeOf(T, Append(at, i)) = "int"
  <2>1. Ask(at, i, {"int"}) \in Asked(T, at)
    BY <1>7, <1>10 DEF AskedOf
  <2> QED BY <1>0, <2>1
<1>8. ASSUME T[at].kind = "monop" PROVE TypeOf(T, Append(at, 1)) \in OperandTypes(T[at].op)
  <2>1. Ask(at, 1, OperandTypes(T[at].op)) \in Asked(T, at)
    BY <1>8, <1>10 DEF AskedOf
  <2> QED BY <1>0, <2>1
<1>9. ASSUME T[at].kind = "binop"
      PROVE  /\ TypeOf(T, Append(at, 1)) \in OperandTypes(T[at].op)
             /\ TypeOf(T, Append(at, 2)) = TypeOf(T, Append(at, 1))
  <2>1. /\ Ask(at, 1, OperandTypes(T[at].op)) \in Asked(T, at)
        /\ Ask(at, 2, {TypeOf(T, Append(at, 1))}) \in Asked(T, at)
    BY <1>9, <1>10 DEF AskedOf
  <2>2. TypeOf(T, Append(at, 2)) \in {TypeOf(T, Append(at, 1))}
    BY <1>0, <2>1
  <2> QED BY <1>0, <2>1, <2>2
<1> QED BY <1>1, <1>2, <1>3, <1>4, <1>5, <1>6, <1>7, <1>8, <1>9 DEF GivenOf

-----------------------------------------------------------------------------
(* A node that is being left, and what a handler does to it.               *)
Doing(T, d, l, ok, a, event, h) ==
  IsProgram(T) /\ Checking(T, d, l, ok, a) /\ d # <<>> /\ Head(d)[1] = event /\ Head(d)[2] = h

LeavingAt(T, d, e, h) ==
  /\ h \in DOMAIN T /\ IsTree(T) /\ Names(T) /\ Syntax(T[h])
  /\ Left(e, h)
  /\ \A p \in DOMAIN T : Left(d, p) => Left(e, p)
  /\ DOMAIN T[h].kids = 1 .. Len(T[h].kids) /\ Len(T[h].kids) \in Nat
  /\ \A i \in DOMAIN T[h].kids : /\ Append(h, i) \in DOMAIN T /\ T[Append(h, i)] = T[h].kids[i]
                                 /\ Left(d, Append(h, i)) /\ Left(e, Append(h, i))

LEMMA LeavingIs ==
  ASSUME NEW T, NEW d, NEW l, NEW ok, NEW a, NEW h, Doing(T, d, l, ok, a, "leave", h)
  PROVE  /\ LeavingAt(T, d, Tail(d), h) /\ IsProgram(T) /\ h \in DOMAIN T
         /\ LinksOK(T, d, l) /\ ok \in BOOLEAN /\ (ok => Known(T, d, l, a)) /\ (Proper(T) => ok)
<1>1. IsTree(T) /\ Names(T) /\ TodoOK(T, d) /\ Order(d) /\ d # <<>> /\ Head(d)[1] = "leave" /\ Head(d)[2] = h
  BY DEF Doing, IsProgram, Checking
<1>2. h \in DOMAIN T /\ Left(Tail(d), h) /\ \A i \in DOMAIN T[h].kids : Left(d, Append(h, i))
  BY <1>1, LeavingHead
<1>3. \A p \in DOMAIN T : Left(d, p) => Left(Tail(d), p)
  BY <1>1, StaysLeft
<1>4. /\ DOMAIN T[h].kids = 1 .. Len(T[h].kids) /\ Len(T[h].kids) \in Nat
      /\ \A i \in DOMAIN T[h].kids : Append(h, i) \in DOMAIN T /\ T[Append(h, i)] = T[h].kids[i]
  BY <1>1, <1>2, TreeFacts
<1>5. Syntax(T[h])
  BY <1>2 DEF Doing, IsProgram
<1>6. LeavingAt(T, d, Tail(d), h)
  BY <1>1, <1>2, <1>3, <1>4, <1>5 DEF LeavingAt
<1> QED BY <1>2, <1>6 DEF Doing, Checking

(* Equations that may be made.                                             *)
Eqs(T, e) == {pair \in Plain(T) \X Plain(T) : Fit(T, e, pair[1], pair[2])}

LEMMA EqsFacts ==
  ASSUME NEW T, NEW e
  PROVE  /\ \A s, t, b, c : FitTerm(T, e, s, b) /\ FitTerm(T, e, t, c) /\ (Proper(T) => b = c) => <<s, t>> \in Eqs(T, e)
         /\ \A s, t : Fit(T, e, s, t) => <<s, t>> \in Eqs(T, e)
         /\ \A pairs \in Seq(Eqs(T, e)) : \A i \in DOMAIN pairs : Fit(T, e, pairs[i][1], pairs[i][2])
<1>1. ASSUME NEW s, NEW t, Fit(T, e, s, t) PROVE <<s, t>> \in Eqs(T, e)
  BY <1>1 DEF Eqs, Fit
<1>2. ASSUME NEW s, NEW t, NEW b, NEW c, FitTerm(T, e, s, b), FitTerm(T, e, t, c), Proper(T) => b = c
      PROVE  <<s, t>> \in Eqs(T, e)
  BY <1>1, <1>2, FitPair
<1>3. ASSUME NEW pairs \in Seq(Eqs(T, e)), NEW i \in DOMAIN pairs PROVE Fit(T, e, pairs[i][1], pairs[i][2])
  <2>1. pairs[i] \in Eqs(T, e)
    BY <1>3
  <2> QED BY <2>1 DEF Eqs
<1> QED BY <1>1, <1>2, <1>3

LEMMA LeavesBy ==
  ASSUME NEW T, NEW d, NEW l, NEW ok, NEW a, NEW h, Doing(T, d, l, ok, a, "leave", h),
         NEW pairs \in Seq(Eqs(T, Tail(d))),
         NEW b, \A p \in DOMAIN T : p # h => Agree(a, b, p),
         NEW r, r = UnifyAll(l, pairs),
         ok /\ r.ok /\ Makes(T, Tail(d), l, pairs, r) => LeaveFacts(T, r.links, b, h)
  PROVE  Checking(T, Tail(d), r.links, ok /\ r.ok, b)
<1>1. /\ IsTree(T) /\ Names(T) /\ d # <<>> /\ Head(d)[1] = "leave" /\ Head(d)[2] = h
      /\ Checking(T, d, l, ok, a) /\ LinksOK(T, d, l) /\ ok \in BOOLEAN /\ (Proper(T) => ok)
  BY DEF Doing, IsProgram, Checking
<1>2. \A p \in DOMAIN T : Left(d, p) => Left(Tail(d), p)
  BY LeavingIs DEF LeavingAt
<1>3. Makes(T, Tail(d), l, pairs, r)
  BY <1>1, <1>2, EqsFacts, EquateFacts
<1>4. LinksOK(T, Tail(d), r.links) /\ Keeps(l, r.links) /\ r.ok \in BOOLEAN /\ (Proper(T) => r.ok)
  BY <1>3 DEF Makes
<1> DEFINE okay == ok /\ r.ok
<1>5. okay \in BOOLEAN /\ (okay => ok) /\ (Proper(T) => okay) /\ (okay => LeaveFacts(T, r.links, b, h))
  BY <1>1, <1>3, <1>4
<1> HIDE DEF okay
<1>6. Checking(T, Tail(d), r.links, okay, b)
  BY <1>1, <1>4, <1>5, Leaves
<1> QED BY <1>6 DEF okay

LEMMA Both ==
  ASSUME NEW S, NEW p \in Seq(S), NEW q \in Seq(S)
  PROVE  LET r == p \o q
         IN  /\ r \in Seq(S)
             /\ \A i \in DOMAIN p : i \in DOMAIN r /\ r[i] = p[i]
             /\ \A j \in DOMAIN q : Len(p) + j \in DOMAIN r /\ r[Len(p) + j] = q[j]
<1> DEFINE r == p \o q
<1>1. /\ r \in Seq(S) /\ Len(r) = Len(p) + Len(q)
      /\ \A i \in 1 .. Len(p) + Len(q) : r[i] = IF i <= Len(p) THEN p[i] ELSE q[i - Len(p)]
  BY ConcatProperties
<1>2. Len(p) \in Nat /\ Len(q) \in Nat /\ DOMAIN p = 1 .. Len(p) /\ DOMAIN q = 1 .. Len(q)
  OBVIOUS
<1>3. DOMAIN r = 1 .. Len(p) + Len(q)
  BY <1>1
<1> HIDE DEF r
<1>4. ASSUME NEW i \in DOMAIN p PROVE i \in DOMAIN r /\ r[i] = p[i]
  BY <1>1, <1>2, <1>3
<1>5. ASSUME NEW j \in DOMAIN q PROVE Len(p) + j \in DOMAIN r /\ r[Len(p) + j] = q[j]
  <2>1. j \in 1 .. Len(q) /\ Len(p) + j \in 1 .. Len(p) + Len(q) /\ ~(Len(p) + j <= Len(p)) /\ (Len(p) + j) - Len(p) = j
    BY <1>2
  <2> QED BY <1>1, <1>3, <2>1
<1> QED BY <1>1, <1>4, <1>5 DEF r

LEMMA OnePair ==
  ASSUME NEW S, NEW x \in S
  PROVE  <<x>> \in Seq(S) /\ Len(<<x>>) = 1 /\ DOMAIN <<x>> = {1} /\ <<x>>[1] = x
OBVIOUS

(* The variables of a node's names have their types, if these were         *)
(* declared before.                                                        *)
LEMMA Settled ==
  ASSUME NEW T, NEW d, NEW l, NEW ok, NEW a, NEW h, Doing(T, d, l, ok, a, "leave", h), ok,
         T[h].kind \in {"var", "arrexpr"}, ~Later(T, h)
  PROVE  Find(l, IdVar(T[h].id)) = Base(TypeOfId(T, T[h].id))
<1> DEFINE x == T[h].id
           q == PlaceOf(T, x)
<1>1. /\ h \in DOMAIN T /\ IsTree(T) /\ Names(T)
      /\ TodoOK(T, d) /\ Order(d) /\ d # <<>> /\ Head(d)[2] = h /\ Known(T, d, l, a)
      /\ \A at \in DOMAIN T : Syntax(T[at])
  <2>1. h \in DOMAIN T
    BY LeavingIs DEF LeavingAt
  <2> QED BY <2>1 DEF Doing, IsProgram, Checking
<1>2. x \in VarNames(T)
  BY <1>1 DEF Names
<1>3. PICK p \in DOMAIN T : \E b \in Declared(T[p]) : b[1] = x /\ q = p /\ TypeOfId(T, x) = b[2]
  BY <1>1, <1>2, NameDeclared
<1>4. PICK b \in Declared(T[p]) : b[1] = x /\ q = p /\ TypeOfId(T, x) = b[2]
  BY <1>3
<1>5. Before(p, h)
  BY <1>4 DEF Later
<1>6. p \in Seq(Nat) /\ h \in Seq(Nat)
  BY <1>1, TreeFacts
<1> HIDE DEF x, q
<1>7. CASE T[p].kind = "for"
  <2>1. Entered(d, p)
    BY <1>1, <1>5, EnteredBefore
  <2>2. EnterFacts(T, l, p)
    BY <1>1, <2>1 DEF Known
  <2>3. b = <<T[p].id, "int">>
    BY <1>4, <1>7 DEF Declared
  <2> QED BY <1>4, <1>7, <2>2, <2>3 DEF EnterFacts, x
<1>8. CASE T[p].kind # "for"
  <2>1. T[p].kind \in {"parameter", "vardec", "globaldef", "globaldec"}
    BY <1>4, <1>8 DEF Declared
  <2>2. CASE LeftOf(p, h)
    <3>1. Left(d, p)
      BY <1>1, <2>2, LeftBefore
    <3>2. DeclarationLeft(T, l, p)
      BY <1>1, <3>1 DEF Known, LeaveFacts
    <3> QED BY <1>4, <2>1, <3>2 DEF DeclarationLeft, x
  <2>3. CASE IsStrictPrefix(p, h)
    <3> DEFINE i == h[Len(p) + 1]
               c == Append(p, i)
    <3>1. IsPrefix(p, h) /\ p # h
      BY <2>3 DEF IsStrictPrefix
    <3>2. i \in DOMAIN T[p].kids /\ i \in Nat /\ c \in DOMAIN T /\ IsPrefix(c, h)
      BY <1>1, <3>1, WayDown
    <3> HIDE DEF i
    <3>3. T[c] = T[p].kids[i]
      BY <1>1, <3>2, TreeFacts
    <3> HIDE DEF c
    <3>4. ~(T[p].kind \in {"parameter", "globaldec"})
      <4>1. T[p].kind \in {"parameter", "globaldec"} => T[p].kids = <<>>
        BY <1>1 DEF Syntax
      <4> QED BY <3>2, <4>1
    <3>5. T[p].kind \in {"vardec", "globaldef"}
      BY <2>1, <3>4
    <3>6. T[p].kids[i].kind = "var" /\ T[p].kids[i].id # T[p].id
      BY <1>1, <3>2, <3>5 DEF Names
    <3>7. T[c].kids = <<>>
      <4>1. Syntax(T[c]) /\ T[c].kind = "var"
        BY <1>1, <3>2, <3>3, <3>6
      <4> QED BY <4>1 DEF Syntax
    <3>8. c = h
      <4>1. ASSUME c # h PROVE FALSE
        <5>1. h[Len(c) + 1] \in DOMAIN T[c].kids
          BY <1>1, <3>2, <4>1, WayDown
        <5> QED BY <3>7, <5>1
      <4> QED BY <4>1
    <3>9. b = <<T[p].id, T[p].type>>
      BY <1>4, <3>5 DEF Declared
    <3> QED BY <1>4, <3>3, <3>6, <3>8, <3>9 DEF x
  <2> QED BY <1>5, <2>2, <2>3 DEF Before
<1> QED BY <1>7, <1>8

-----------------------------------------------------------------------------
(***************************************************************************)
(* What each handler does.                                                 *)
(***************************************************************************)
LEMMA NothingToKnow ==
  ASSUME NEW T, NEW l, NEW a, NEW p, T[p].kind \in PlainKinds \cup EagerKinds
  PROVE  LeaveFacts(T, l, a, p)
<1>1. DeclarationLeft(T, l, p) /\ StatementLeft(T, l, p) /\ CallLeft(T, l, p)
  BY DEF PlainKinds, EagerKinds, DeclarationLeft, StatementLeft, CallLeft
<1>2. OperatorLeft(T, l, p) /\ UseLeft(T, l, p) /\ NoBool(T, l, p)
  BY DEF PlainKinds, EagerKinds, OperatorLeft, UseLeft, NoBool
<1>3. T[p].kind \notin Expressions
  BY DEF PlainKinds, EagerKinds, Expressions
<1> QED BY <1>1, <1>2, <1>3 DEF LeaveFacts, Grounded, Noted

LEMMA LinksOKOn ==
  ASSUME NEW T, NEW d, NEW e, NEW l, LinksOK(T, d, l), \A p \in DOMAIN T : Left(d, p) => Left(e, p)
  PROVE  LinksOK(T, e, l)
BY DEF LinksOK

LEMMA LeavesSame ==
  ASSUME NEW T, NEW d, NEW l, NEW ok, NEW a, NEW h, Doing(T, d, l, ok, a, "leave", h),
         NEW okay \in BOOLEAN, okay => ok, Proper(T) => okay,
         NEW b, \A p \in DOMAIN T : p # h => Agree(a, b, p),
         okay => LeaveFacts(T, l, b, h)
  PROVE  Checking(T, Tail(d), l, okay, b)
<1>1. IsTree(T) /\ d # <<>> /\ Head(d)[1] = "leave" /\ Head(d)[2] = h /\ Checking(T, d, l, ok, a)
  BY DEF Doing, IsProgram
<1>2. LinksOK(T, Tail(d), l)
  BY LeavingIs, LinksOKOn DEF LeavingAt
<1>3. Keeps(l, l)
  BY <1>2, KeepsItself DEF LinksOK
<1> QED BY <1>1, <1>2, <1>3, Leaves DEF Agree

LEMMA LeavesPlain ==
  ASSUME NEW T, NEW d, NEW l, NEW ok, NEW a, NEW h, Doing(T, d, l, ok, a, "leave", h),
         T[h].kind \in PlainKinds \cup EagerKinds
  PROVE  Checking(T, Tail(d), l, ok, a)
<1>1. LeaveFacts(T, l, a, h)
  BY NothingToKnow
<1>2. ok \in BOOLEAN /\ (Proper(T) => ok)
  BY DEF Doing, Checking
<1> QED BY <1>1, <1>2, LeavesSame DEF Agree

LEMMA DeclarationOnly ==
  ASSUME NEW T, NEW l, NEW a, NEW p, T[p].kind \in {"parameter", "vardec", "globaldef", "globaldec"},
         DeclarationLeft(T, l, p)
  PROVE  LeaveFacts(T, l, a, p)
<1>1. StatementLeft(T, l, p) /\ CallLeft(T, l, p)
  BY DEF StatementLeft, CallLeft
<1>2. OperatorLeft(T, l, p) /\ UseLeft(T, l, p) /\ NoBool(T, l, p)
  BY DEF OperatorLeft, UseLeft, NoBool
<1>3. T[p].kind \notin Expressions
  BY DEF Expressions
<1> QED BY <1>1, <1>2, <1>3 DEF LeaveFacts, Grounded, Noted

LEMMA NamePair ==
  ASSUME NEW T, IsProgram(T), NEW e, NEW at \in DOMAIN T, NEW x, NEW t, <<x, t>> \in Declared(T[at])
  PROVE  /\ x \in VarNames(T) /\ TypeOfId(T, x) = t /\ t \in Values
         /\ <<IdVar(x), Base(t)>> \in Eqs(T, e) /\ <<Base(t), IdVar(x)>> \in Eqs(T, e)
<1> DEFINE b == <<x, t>>
<1>0. b \in Declared(T[at]) /\ b[1] = x /\ b[2] = t
  OBVIOUS
<1> HIDE DEF b
<1>1. b[1] \in VarNames(T) /\ TypeOfId(T, b[1]) = b[2]
  BY <1>0, DeclaredHere DEF IsProgram
<1>2. b[2] \in Values
  <2>1. Syntax(T[at])
    BY DEF IsProgram
  <2>2. T[at].kind \in {"parameter", "vardec", "globaldef", "globaldec"} => T[at].type \in Values
    BY <2>1 DEF Syntax
  <2>3. CASE T[at].kind \in {"parameter", "vardec", "globaldef"}
    <3>1. b = <<T[at].id, T[at].type>>
      BY <1>0, <2>3 DEF Declared
    <3> QED BY <2>2, <2>3, <3>1
  <2>4. CASE T[at].kind = "for"
    <3>1. b = <<T[at].id, "int">>
      BY <1>0, <2>4 DEF Declared
    <3> QED BY <3>1 DEF Values
  <2>5. CASE T[at].kind = "globaldec"
    <3>1. b[2] = T[at].type \/ b[2] = "int"
      BY <1>0, <2>5 DEF Declared
    <3> QED BY <2>2, <2>5, <3>1 DEF Values
  <2> QED BY <1>0, <2>3, <2>4, <2>5 DEF Declared
<1>3. FitTerm(T, e, IdVar(b[1]), b[2]) /\ FitTerm(T, e, Base(b[2]), b[2])
  BY <1>1, <1>2, FitTerms
<1> QED BY <1>0, <1>1, <1>2, <1>3, EqsFacts

LEMMA LeavesGlobalDec ==
  ASSUME NEW T, NEW d, NEW l, NEW ok, NEW a, NEW h, Doing(T, d, l, ok, a, "leave", h),
         T[h].kind = "globaldec", NEW r,
         r = UnifyAll(l, << <<IdVar(T[h].id), Base(T[h].type)>> >>
                           \o [i \in DOMAIN T[h].ids |-> <<IdVar(T[h].ids[i]), Base("int")>>])
  PROVE  Checking(T, Tail(d), r.links, ok /\ r.ok, a)
<1> DEFINE n == T[h]
           E == Eqs(T, Tail(d))
           u == << <<IdVar(n.id), Base(n.type)>> >>
           v == [i \in DOMAIN n.ids |-> <<IdVar(n.ids[i]), Base("int")>>]
<1>1. LeavingAt(T, d, Tail(d), h) /\ IsProgram(T)
  BY LeavingIs DEF Doing
<1>2. Declared(n) = {<<n.id, n.type>>} \cup {<<n.ids[i], "int">> : i \in DOMAIN n.ids}
  BY DEF Declared
<1>3. n.ids \in Seq(ToSet(n.ids))
  BY <1>1 DEF LeavingAt, Syntax
<1>4. <<IdVar(n.id), Base(n.type)>> \in E
  <2>1. <<n.id, n.type>> \in Declared(n)
    BY <1>2
  <2> QED BY <1>1, <2>1, NamePair DEF LeavingAt
<1>5. ASSUME NEW i \in DOMAIN n.ids PROVE <<IdVar(n.ids[i]), Base("int")>> \in E
  <2>1. <<n.ids[i], "int">> \in Declared(n)
    BY <1>2
  <2> QED BY <1>1, <2>1, NamePair DEF LeavingAt
<1> HIDE DEF E, n
<1>6. u \in Seq(E) /\ DOMAIN u = {1} /\ u[1] = <<IdVar(n.id), Base(n.type)>> /\ Len(u) = 1
  BY <1>4, OnePair
<1>7. v \in Seq(E) /\ DOMAIN v = DOMAIN n.ids /\ \A i \in DOMAIN v : v[i] = <<IdVar(n.ids[i]), Base("int")>>
  <2>1. DOMAIN n.ids = 1 .. Len(n.ids) /\ Len(n.ids) \in Nat
    BY <1>3
  <2>2. v \in [1 .. Len(n.ids) -> E]
    BY <1>5, <2>1
  <2> QED BY <2>1, <2>2
<1> HIDE DEF u, v
<1> DEFINE w == u \o v
<1>8. /\ w \in Seq(E)
      /\ \A i \in DOMAIN u : i \in DOMAIN w /\ w[i] = u[i]
      /\ \A j \in DOMAIN v : Len(u) + j \in DOMAIN w /\ w[Len(u) + j] = v[j]
  BY <1>6, <1>7, Both
<1> HIDE DEF w
<1>9. ASSUME r.ok, Makes(T, Tail(d), l, w, r) PROVE DeclarationLeft(T, r.links, h)
  <2>1. \A i \in DOMAIN w : Tied(r.links, w[i][1], w[i][2])
    BY <1>9 DEF Makes
  <2>2. \A b : Find(r.links, Base(b)) = Base(b)
    BY <1>9, FindFacts DEF Makes, LinksOK
  <2>3. Find(r.links, IdVar(n.id)) = Base(n.type)
    BY <1>6, <1>8, <2>1, <2>2 DEF Tied
  <2>4. ASSUME NEW i \in DOMAIN n.ids PROVE Find(r.links, IdVar(n.ids[i])) = Base("int")
    <3>1. Len(u) + i \in DOMAIN w /\ w[Len(u) + i] = <<IdVar(n.ids[i]), Base("int")>>
      BY <1>7, <1>8
    <3>2. Tied(r.links, IdVar(n.ids[i]), Base("int"))
      BY <2>1, <3>1
    <3> QED BY <2>2, <3>2 DEF Tied
  <2> QED BY <1>2, <2>3, <2>4 DEF DeclarationLeft, n
<1>10. r = UnifyAll(l, w)
  BY DEF u, v, w, n
<1>11. ok /\ r.ok /\ Makes(T, Tail(d), l, w, r) => LeaveFacts(T, r.links, a, h)
  BY <1>9, DeclarationOnly
<1> QED BY <1>8, <1>10, <1>11, LeavesBy DEF E, Agree

LEMMA Gives ==
  ASSUME NEW T, NEW e, NEW l, NEW pairs, NEW r, Makes(T, e, l, pairs, r), r.ok,
         NEW i \in DOMAIN pairs, NEW s, NEW t, pairs[i] = <<s, t>>
  PROVE  /\ Tied(r.links, s, t)
         /\ \A b : t = Base(b) => Find(r.links, s) = Base(b)
         /\ \A b : s = Base(b) => Find(r.links, t) = Base(b)
<1>1. Tied(r.links, pairs[i][1], pairs[i][2])
  BY DEF Makes
<1>2. \A b : Find(r.links, Base(b)) = Base(b)
  BY FindFacts DEF Makes, LinksOK
<1>3. Tied(r.links, s, t)
  BY <1>1
<1> QED BY <1>2, <1>3 DEF Tied

LEMMA KidPairs ==
  ASSUME NEW T, NEW d, NEW e, NEW h, LeavingAt(T, d, e, h), NEW t \in Values,
         Proper(T) => \A i \in DOMAIN T[h].kids : TypeOf(T, Append(h, i)) = t
  PROVE  [i \in DOMAIN T[h].kids |-> <<NodeVar(Append(h, i)), Base(t)>>] \in Seq(Eqs(T, e))
<1> DEFINE E == Eqs(T, e)
           v == [i \in DOMAIN T[h].kids |-> <<NodeVar(Append(h, i)), Base(t)>>]
<1>1. ASSUME NEW i \in DOMAIN T[h].kids PROVE <<NodeVar(Append(h, i)), Base(t)>> \in E
  <2>1. Append(h, i) \in DOMAIN T /\ Left(e, Append(h, i))
    BY DEF LeavingAt
  <2>2. FitTerm(T, e, NodeVar(Append(h, i)), TypeOf(T, Append(h, i)))
    BY <2>1, FitTerms
  <2>3. FitTerm(T, e, Base(t), t)
    BY FitTerms
  <2> QED BY <2>2, <2>3, EqsFacts
<1>2. DOMAIN T[h].kids = 1 .. Len(T[h].kids) /\ Len(T[h].kids) \in Nat
  BY DEF LeavingAt
<1> HIDE DEF E
<1>3. v \in [1 .. Len(T[h].kids) -> E]
  BY <1>1, <1>2
<1> HIDE DEF v
<1>4. v \in Seq(E)
  BY <1>2, <1>3
<1> QED BY <1>4 DEF v, E

LEMMA LeavesDeclaration ==
  ASSUME NEW T, NEW d, NEW l, NEW ok, NEW a, NEW h, Doing(T, d, l, ok, a, "leave", h),
         T[h].kind \in {"parameter", "vardec", "globaldef"},
         NEW w \in Seq(Eqs(T, Tail(d))), 1 \in DOMAIN w, w[1] = <<IdVar(T[h].id), Base(T[h].type)>>,
         NEW r, r = UnifyAll(l, w)
  PROVE  Checking(T, Tail(d), r.links, ok /\ r.ok, a)
<1>1. ASSUME r.ok, Makes(T, Tail(d), l, w, r) PROVE DeclarationLeft(T, r.links, h)
  <2>1. Declared(T[h]) = {<<T[h].id, T[h].type>>}
    BY DEF Declared
  <2>2. Find(r.links, IdVar(T[h].id)) = Base(T[h].type)
    BY <1>1, Gives
  <2> QED BY <2>1, <2>2 DEF DeclarationLeft
<1>2. ok /\ r.ok /\ Makes(T, Tail(d), l, w, r) => LeaveFacts(T, r.links, a, h)
  BY <1>1, DeclarationOnly
<1> QED BY <1>2, LeavesBy DEF Agree

LEMMA HereNamePair ==
  ASSUME NEW T, NEW d, NEW l, NEW ok, NEW a, NEW h, Doing(T, d, l, ok, a, "leave", h),
         T[h].kind \in {"parameter", "vardec", "globaldef"}
  PROVE  /\ << <<IdVar(T[h].id), Base(T[h].type)>> >> \in Seq(Eqs(T, Tail(d)))
         /\ T[h].type \in Values
<1>1. LeavingAt(T, d, Tail(d), h) /\ IsProgram(T)
  BY LeavingIs DEF Doing
<1>2. <<T[h].id, T[h].type>> \in Declared(T[h])
  BY DEF Declared
<1>3. <<IdVar(T[h].id), Base(T[h].type)>> \in Eqs(T, Tail(d)) /\ T[h].type \in Values
  BY <1>1, <1>2, NamePair DEF LeavingAt
<1> QED BY <1>3, OnePair

LEMMA LeavesParameter ==
  ASSUME NEW T, NEW d, NEW l, NEW ok, NEW a, NEW h, Doing(T, d, l, ok, a, "leave", h),
         T[h].kind = "parameter", NEW r, r = UnifyAll(l, << <<IdVar(T[h].id), Base(T[h].type)>> >>)
  PROVE  Checking(T, Tail(d), r.links, ok /\ r.ok, a)
<1> DEFINE x == <<IdVar(T[h].id), Base(T[h].type)>>
           w == <<x>>
<1>1. w \in Seq(Eqs(T, Tail(d)))
  BY HereNamePair
<1>2. 1 \in DOMAIN w /\ w[1] = x
  OBVIOUS
<1> HIDE DEF w
<1>3. r = UnifyAll(l, w)
  BY DEF w
<1> QED BY <1>1, <1>2, <1>3, LeavesDeclaration

(* The dimensions of an array are in variables for numbers.                *)
LEMMA DimensionsAreInts ==
  ASSUME NEW T, IsProgram(T), NEW at \in DOMAIN T, T[at].kind \in {"vardec", "globaldef"},
         NEW i \in DOMAIN T[at].kids
  PROVE  TypeOf(T, Append(at, i)) = "int"
<1>1. T[at].kids[i].kind = "var" /\ TypeOfId(T, T[at].kids[i].id) = "int"
  BY DEF IsProgram, Names
<1>2. Append(at, i) \in DOMAIN T /\ T[Append(at, i)] = T[at].kids[i]
  BY TreeFacts DEF IsProgram
<1>3. ~Passes(T[at].kids[i])
  BY <1>1 DEF Passes, IsArithmetic
<1>4. TypeOf(T, Append(at, i)) = OwnType(T, T[at].kids[i])
  BY <1>2, <1>3, TypeOfFacts
<1> QED BY <1>1, <1>4 DEF OwnType

LEMMA LeavesGlobalDef ==
  ASSUME NEW T, NEW d, NEW l, NEW ok, NEW a, NEW h, Doing(T, d, l, ok, a, "leave", h),
         T[h].kind = "globaldef", NEW r,
         r = UnifyAll(l, << <<IdVar(T[h].id), Base(T[h].type)>> >>
                           \o [i \in DOMAIN T[h].kids |-> <<NodeVar(Append(h, i)), Base("int")>>])
  PROVE  Checking(T, Tail(d), r.links, ok /\ r.ok, a)
<1> DEFINE x == <<IdVar(T[h].id), Base(T[h].type)>>
           u == <<x>>
           v == [i \in DOMAIN T[h].kids |-> <<NodeVar(Append(h, i)), Base("int")>>]
           w == u \o v
<1>1. LeavingAt(T, d, Tail(d), h) /\ IsProgram(T)
  BY LeavingIs DEF Doing
<1>2. u \in Seq(Eqs(T, Tail(d)))
  BY HereNamePair
<1>3. v \in Seq(Eqs(T, Tail(d)))
  <2>1. "int" \in Values
    BY DEF Values
  <2>2. \A i \in DOMAIN T[h].kids : TypeOf(T, Append(h, i)) = "int"
    BY <1>1, DimensionsAreInts DEF LeavingAt
  <2> QED BY <1>1, <2>1, <2>2, KidPairs
<1>4. 1 \in DOMAIN u /\ u[1] = x
  OBVIOUS
<1> HIDE DEF x, u, v
<1>5. w \in Seq(Eqs(T, Tail(d))) /\ 1 \in DOMAIN w /\ w[1] = x
  BY <1>2, <1>3, <1>4, Both
<1> HIDE DEF w
<1>6. r = UnifyAll(l, w)
  BY DEF w, u, v, x
<1> QED BY <1>5, <1>6, LeavesDeclaration DEF x

LEMMA LeavesVarDec ==
  ASSUME NEW T, NEW d, NEW l, NEW ok, NEW a, NEW h, Doing(T, d, l, ok, a, "leave", h),
         T[h].kind = "vardec", NEW r,
         r = UnifyAll(l, << <<IdVar(T[h].id), Base(T[h].type)>> >>
                           \o IF T[h].single THEN <<>>
                              ELSE [i \in DOMAIN T[h].kids |-> <<NodeVar(Append(h, i)), Base(T[h].type)>>])
  PROVE  Checking(T, Tail(d), r.links, ok /\ r.ok, a)
<1> DEFINE x == <<IdVar(T[h].id), Base(T[h].type)>>
           u == <<x>>
           v == IF T[h].single THEN <<>>
                ELSE [i \in DOMAIN T[h].kids |-> <<NodeVar(Append(h, i)), Base(T[h].type)>>]
           w == u \o v
<1>1. LeavingAt(T, d, Tail(d), h) /\ IsProgram(T)
  BY LeavingIs DEF Doing
<1>2. u \in Seq(Eqs(T, Tail(d)))
  BY HereNamePair
<1>3. v \in Seq(Eqs(T, Tail(d)))
  <2>1. CASE T[h].single
    BY <2>1
  <2>2. CASE ~T[h].single
    <3>1. T[h].type \in Values
      BY HereNamePair
    <3>2. ASSUME Proper(T), NEW i \in DOMAIN T[h].kids PROVE TypeOf(T, Append(h, i)) = T[h].type
      <4>1. TypeOf(T, Append(h, i)) = "int"
        BY <1>1, DimensionsAreInts DEF LeavingAt
      <4>2. ~Mistreated(T, h)
        BY <1>1, <3>2 DEF Proper, LeavingAt
      <4>3. T[h].type = "int"
        BY <2>2, <4>2 DEF Mistreated
      <4> QED BY <4>1, <4>3
    <3>3. [i \in DOMAIN T[h].kids |-> <<NodeVar(Append(h, i)), Base(T[h].type)>>] \in Seq(Eqs(T, Tail(d)))
      BY <1>1, <3>1, <3>2, KidPairs
    <3> QED BY <2>2, <3>3
  <2> QED BY <2>1, <2>2
<1>4. 1 \in DOMAIN u /\ u[1] = x
  OBVIOUS
<1> HIDE DEF x, u, v
<1>5. w \in Seq(Eqs(T, Tail(d))) /\ 1 \in DOMAIN w /\ w[1] = x
  BY <1>2, <1>3, <1>4, Both
<1> HIDE DEF w
<1>6. r = UnifyAll(l, w)
  BY DEF w, u, v, x
<1> QED BY <1>5, <1>6, LeavesDeclaration DEF x

Given(l, s, t) ==
  /\ Tied(l, s, t)
  /\ \A b : t = Base(b) => Find(l, s) = Base(b)
  /\ \A b : s = Base(b) => Find(l, t) = Base(b)

LEMMA LeavesOnePair ==
  ASSUME NEW T, NEW d, NEW l, NEW ok, NEW a, NEW h, Doing(T, d, l, ok, a, "leave", h),
         NEW s, NEW t, <<s, t>> \in Eqs(T, Tail(d)),
         NEW b, \A p \in DOMAIN T : p # h => Agree(a, b, p),
         NEW r, r = UnifyAll(l, << <<s, t>> >>),
         ok /\ Given(r.links, s, t) /\ LinksOK(T, Tail(d), r.links) /\ Keeps(l, r.links)
           => LeaveFacts(T, r.links, b, h)
  PROVE  Checking(T, Tail(d), r.links, ok /\ r.ok, b)
<1> DEFINE x == <<s, t>>
           w == <<x>>
<1>1. w \in Seq(Eqs(T, Tail(d))) /\ 1 \in DOMAIN w /\ w[1] = x
  BY OnePair
<1>2. r = UnifyAll(l, w)
  OBVIOUS
<1> HIDE DEF w
<1>3. ok /\ r.ok /\ Makes(T, Tail(d), l, w, r) => LeaveFacts(T, r.links, b, h)
  <2>1. SUFFICES ASSUME ok, r.ok, Makes(T, Tail(d), l, w, r) PROVE LeaveFacts(T, r.links, b, h)
    OBVIOUS
  <2>2. Given(r.links, s, t)
    BY <1>1, <2>1, Gives DEF Given
  <2> QED BY <2>1, <2>2 DEF Makes
<1> QED BY <1>1, <1>2, <1>3, LeavesBy DEF Agree

LEMMA StatementOnly ==
  ASSUME NEW T, NEW l, NEW a, NEW p, T[p].kind \in {"varlet", "assign", "if", "while", "dowhile", "arrinit"},
         StatementLeft(T, l, p)
  PROVE  LeaveFacts(T, l, a, p)
<1>1. DeclarationLeft(T, l, p) /\ CallLeft(T, l, p)
  BY DEF DeclarationLeft, CallLeft
<1>2. OperatorLeft(T, l, p) /\ UseLeft(T, l, p) /\ NoBool(T, l, p)
  BY DEF OperatorLeft, UseLeft, NoBool
<1>3. T[p].kind \notin Expressions
  BY DEF Expressions
<1> QED BY <1>1, <1>2, <1>3 DEF LeaveFacts, Grounded, Noted

LEMMA FitKid ==
  ASSUME NEW T, NEW d, NEW e, NEW h, LeavingAt(T, d, e, h), NEW i \in DOMAIN T[h].kids
  PROVE  FitTerm(T, e, NodeVar(Append(h, i)), TypeOf(T, Append(h, i)))
<1>1. Append(h, i) \in DOMAIN T /\ Left(e, Append(h, i))
  BY DEF LeavingAt
<1> QED BY <1>1, FitTerms

LEMMA FitHere ==
  ASSUME NEW T, NEW d, NEW e, NEW h, LeavingAt(T, d, e, h)
  PROVE  FitTerm(T, e, NodeVar(h), TypeOf(T, h))
BY FitTerms DEF LeavingAt

LEMMA LeavesVarLet ==
  ASSUME NEW T, NEW d, NEW l, NEW ok, NEW a, NEW h, Doing(T, d, l, ok, a, "leave", h),
         T[h].kind = "varlet", NEW r, r = UnifyAll(l, << <<IdVar(T[h].id), NodeVar(h)>> >>)
  PROVE  Checking(T, Tail(d), r.links, ok /\ r.ok, a)
<1>1. LeavingAt(T, d, Tail(d), h) /\ IsProgram(T) /\ h \in DOMAIN T
  BY LeavingIs
<1>2. T[h].id \in VarNames(T)
  BY <1>1 DEF IsProgram, Names
<1>3. TypeOf(T, h) = TypeOfId(T, T[h].id)
  <2>1. ~Passes(T[h])
    BY DEF Passes, IsArithmetic
  <2>2. TypeOf(T, h) = OwnType(T, T[h])
    BY <1>1, <2>1, TypeOfFacts
  <2> QED BY <2>2 DEF OwnType
<1>4. FitTerm(T, Tail(d), IdVar(T[h].id), TypeOfId(T, T[h].id)) /\ FitTerm(T, Tail(d), NodeVar(h), TypeOf(T, h))
  BY <1>1, <1>2, FitTerms, FitHere
<1>5. <<IdVar(T[h].id), NodeVar(h)>> \in Eqs(T, Tail(d))
  BY <1>3, <1>4, EqsFacts
<1>6. Given(r.links, IdVar(T[h].id), NodeVar(h)) => StatementLeft(T, r.links, h)
  BY DEF Given, StatementLeft
<1> QED BY <1>5, <1>6, StatementOnly, LeavesOnePair DEF Agree

LEMMA LeavesAssign ==
  ASSUME NEW T, NEW d, NEW l, NEW ok, NEW a, NEW h, Doing(T, d, l, ok, a, "leave", h),
         T[h].kind = "assign", NEW r, r = UnifyAll(l, << <<NodeVar(Append(h, 1)), NodeVar(Append(h, 2))>> >>)
  PROVE  Checking(T, Tail(d), r.links, ok /\ r.ok, a)
<1>1. LeavingAt(T, d, Tail(d), h) /\ IsProgram(T) /\ h \in DOMAIN T
  BY LeavingIs
<1>2. T[h].kids[1].kind = "varlet" /\ DOMAIN T[h].kids = 1 .. 2
  BY <1>1 DEF LeavingAt, Syntax
<1>3. Append(h, 1) \in DOMAIN T /\ T[Append(h, 1)] = T[h].kids[1]
  BY <1>1, <1>2 DEF LeavingAt
<1>4. TypeOf(T, Append(h, 1)) = TypeOfId(T, T[h].kids[1].id)
  <2>1. ~Passes(T[h].kids[1])
    BY <1>2 DEF Passes, IsArithmetic
  <2>2. TypeOf(T, Append(h, 1)) = OwnType(T, T[h].kids[1])
    BY <1>1, <1>3, <2>1, TypeOfFacts
  <2> QED BY <1>2, <2>2 DEF OwnType
<1>5. ASSUME Proper(T) PROVE TypeOf(T, Append(h, 1)) = TypeOf(T, Append(h, 2))
  BY <1>1, <1>4, <1>5, GivenFacts DEF Proper, GivenOf
<1>6. FitTerm(T, Tail(d), NodeVar(Append(h, 1)), TypeOf(T, Append(h, 1))) /\ FitTerm(T, Tail(d), NodeVar(Append(h, 2)), TypeOf(T, Append(h, 2)))
  BY <1>1, <1>2, FitKid
<1>7. <<NodeVar(Append(h, 1)), NodeVar(Append(h, 2))>> \in Eqs(T, Tail(d))
  BY <1>5, <1>6, EqsFacts
<1>8. Given(r.links, NodeVar(Append(h, 1)), NodeVar(Append(h, 2))) => StatementLeft(T, r.links, h)
  BY DEF Given, StatementLeft
<1> QED BY <1>7, <1>8, StatementOnly, LeavesOnePair DEF Agree

LEMMA LeavesCondition ==
  ASSUME NEW T, NEW d, NEW l, NEW ok, NEW a, NEW h, Doing(T, d, l, ok, a, "leave", h),
         T[h].kind \in {"if", "while", "dowhile"},
         NEW i, i = IF T[h].kind = "dowhile" THEN Len(T[h].kids) ELSE 1,
         NEW r, r = UnifyAll(l, << <<NodeVar(Append(h, i)), Base("bool")>> >>)
  PROVE  Checking(T, Tail(d), r.links, ok /\ r.ok, a)
<1>1. LeavingAt(T, d, Tail(d), h) /\ IsProgram(T) /\ h \in DOMAIN T
  BY LeavingIs
<1>2. i \in DOMAIN T[h].kids
  BY <1>1 DEF LeavingAt, Syntax, Exprs
<1>3. ASSUME Proper(T) PROVE TypeOf(T, Append(h, i)) = "bool"
  BY <1>1, <1>3, GivenFacts DEF Proper, GivenOf
<1>4. FitTerm(T, Tail(d), NodeVar(Append(h, i)), TypeOf(T, Append(h, i))) /\ FitTerm(T, Tail(d), Base("bool"), "bool")
  BY <1>1, <1>2, FitKid, FitTerms DEF Values
<1>5. <<NodeVar(Append(h, i)), Base("bool")>> \in Eqs(T, Tail(d))
  BY <1>3, <1>4, EqsFacts
<1>6. Given(r.links, NodeVar(Append(h, i)), Base("bool")) => StatementLeft(T, r.links, h)
  <2>1. SUFFICES ASSUME Find(r.links, NodeVar(Append(h, i))) = Base("bool") PROVE StatementLeft(T, r.links, h)
    BY DEF Given
  <2>2. CASE T[h].kind = "dowhile"
    BY <2>1, <2>2 DEF StatementLeft
  <2>3. CASE T[h].kind \in {"if", "while"}
    BY <2>1, <2>3 DEF StatementLeft
  <2> QED BY <2>2, <2>3
<1> QED BY <1>5, <1>6, StatementOnly, LeavesOnePair DEF Agree

-----------------------------------------------------------------------------
(* Expressions.                                                            *)
LEMMA OtherFacts ==
  ASSUME NEW T, NEW l, NEW p, T[p].kind \in Expressions
  PROVE  /\ DeclarationLeft(T, l, p) /\ StatementLeft(T, l, p)
         /\ T[p].kind # "call" => CallLeft(T, l, p)
         /\ T[p].kind \notin {"binop", "monop", "cast", "literal"} => OperatorLeft(T, l, p)
         /\ T[p].kind \notin {"var", "arrexpr"} => UseLeft(T, l, p)
         /\ T[p].kind \notin {"binop", "monop"} => NoBool(T, l, p)
<1>1. DeclarationLeft(T, l, p) /\ StatementLeft(T, l, p)
  BY DEF Expressions, DeclarationLeft, StatementLeft
<1>2. T[p].kind # "call" => CallLeft(T, l, p)
  BY DEF CallLeft
<1>3. T[p].kind \notin {"binop", "monop", "cast", "literal"} => OperatorLeft(T, l, p)
  BY DEF OperatorLeft
<1>4. T[p].kind \notin {"var", "arrexpr"} => UseLeft(T, l, p)
  BY DEF UseLeft
<1>5. T[p].kind \notin {"binop", "monop"} => NoBool(T, l, p)
  BY DEF NoBool
<1> QED BY <1>1, <1>2, <1>3, <1>4, <1>5

(* The types in the tree, after one was written at h.                      *)
Writes(a, h, t) == [at \in DOMAIN a \cup {h} |-> IF at = h THEN t ELSE a[at]]

LEMMA WritesOne ==
  ASSUME NEW a, NEW h, NEW t
  PROVE  /\ h \in DOMAIN Writes(a, h, t) /\ Writes(a, h, t)[h] = t
         /\ \A p : p # h => Agree(a, Writes(a, h, t), p)
BY DEF Writes, Agree

LEMMA TermTypeFacts ==
  ASSUME NEW T, NEW d, NEW l, LinksOK(T, d, l), NEW s \in Plain(T)
  PROVE  /\ TypeOfTerm(l, s) \in Values => Find(l, s) = Base(TypeOfTerm(l, s))
         /\ \A b : Find(l, s) = Base(b) => TypeOfTerm(l, s) = b
<1>1. ASSUME NEW b, Find(l, s) = Base(b) PROVE TypeOfTerm(l, s) = b
  BY <1>1, TermKinds DEF TypeOfTerm
<1>2. ASSUME IsVar(Find(l, s)) PROVE TypeOfTerm(l, s) \notin Values
  <2>1. ~IsFun(Find(l, s))
    BY <1>2 DEF IsVar, IsFun
  <2>2. TypeOfTerm(l, s) = "void"
    BY <1>2, <2>1 DEF TypeOfTerm
  <2> QED BY <2>2 DEF Values
<1>3. IsVar(Find(l, s)) \/ \E b \in Values \cup {"void"} : Find(l, s) = Base(b)
  BY PlainRoot
<1> QED BY <1>1, <1>2, <1>3

(* The function around a return of its outermost list.                     *)
LEMMA OuterReturn ==
  ASSUME NEW T, IsProgram(T), NEW f \in DOMAIN T, T[f].kind = "fundef", NEW k \in DOMAIN T[f].kids,
         T[f].kids[k].kind = "return"
  PROVE  /\ Append(f, k) \in DOMAIN T /\ k \in Nat /\ f \in Seq(Nat) /\ Append(f, k) # <<>>
         /\ T[Append(f, k)] = T[f].kids[k]
         /\ OfOuterList(T, Append(f, k))
         /\ ReturnType(T, Append(f, k)) = T[f].kids[1].type
<1> DEFINE q == Append(f, k)
<1>1. IsTree(T) /\ f \in Seq(Nat) /\ k \in Nat /\ q \in DOMAIN T /\ T[q] = T[f].kids[k] /\ q \in Seq(Nat)
  BY TreeFacts DEF IsProgram
<1>2. Front(q) = f
  BY <1>1, FrontOfChild
<1>3. Len(q) = Len(f) + 1 /\ Len(f) \in Nat /\ IsPrefix(f, f)
  BY <1>1, ChildFacts, PrefixItself
<1>4. q # <<>>
  BY <1>1, <1>3
<1> DEFINE around == {p \in DOMAIN T : T[p].kind = "fundef" /\ IsPrefix(p, q)}
<1>5. f \in around
  BY <1>1, <1>3, PrefixOfChild
<1>6. ASSUME NEW p \in around PROVE p \in Seq(Nat) /\ IsPrefix(p, f) /\ Len(p) \in Nat /\ Len(p) <= Len(f)
  <2>1. p \in Seq(Nat) /\ p # q
    BY <1>1, <1>6, TreeFacts
  <2>2. IsPrefix(p, f)
    BY <1>1, <1>6, <2>1, PrefixOfChild
  <2> QED BY <1>1, <2>1, <2>2, PrefixShorter
<1> HIDE DEF around
<1> DEFINE g == CHOOSE p \in around : \A p1 \in around : Len(p1) <= Len(p)
<1>7. g \in around /\ \A p1 \in around : Len(p1) <= Len(g)
  BY <1>5, <1>6
<1>8. FunAround(T, q) = g
  BY DEF FunAround, around
<1> HIDE DEF g
<1>9. g = f
  <2>1. Len(f) <= Len(g) /\ Len(g) <= Len(f) /\ Len(g) \in Nat /\ IsPrefix(g, f) /\ g \in Seq(Nat)
    BY <1>5, <1>6, <1>7
  <2> QED BY <1>1, <1>3, <2>1, PrefixSame
<1>10. OfOuterList(T, q) /\ ReturnType(T, q) = T[f].kids[1].type
  BY <1>2, <1>8, <1>9 DEF OfOuterList, ReturnType
<1> QED BY <1>1, <1>4, <1>10

(* Expressions that were equated in advance.                               *)
LEMMA EarlyFacts ==
  ASSUME NEW T, NEW d, NEW l, NEW ok, NEW a, NEW h, Doing(T, d, l, ok, a, "leave", h), ok,
         Early(T, h), WellTyped(T)
  PROVE  Find(l, NodeVar(h)) = Base(TypeOf(T, h))
<1>1. /\ IsProgram(T) /\ IsTree(T) /\ h \in DOMAIN T /\ Known(T, d, l, a)
      /\ TodoOK(T, d) /\ Order(d) /\ d # <<>> /\ Head(d)[2] = h
  BY LeavingIs DEF Doing, Checking, IsProgram
<1>2. PICK q \in DOMAIN T : \E i \in DOMAIN T[q].kids :
        /\ h = Append(q, i)
        /\ \/ T[q].kind = "for" /\ i \in 1 .. T[q].bounds
           \/ T[q].kind = "return" /\ q # <<>> /\ OfOuterList(T, q)
  BY DEF Early
<1>3. PICK i \in DOMAIN T[q].kids :
        /\ h = Append(q, i)
        /\ \/ T[q].kind = "for" /\ i \in 1 .. T[q].bounds
           \/ T[q].kind = "return" /\ q # <<>> /\ OfOuterList(T, q)
  BY <1>2
<1>4. q \in Seq(Nat) /\ i \in Nat /\ h \in Seq(Nat) /\ DOMAIN T[q].kids = 1 .. Len(T[q].kids)
  BY <1>1, TreeFacts
<1>5. \A p \in DOMAIN T : IsPrefix(p, q) => EnterFacts(T, l, p)
  <2>1. SUFFICES ASSUME NEW p \in DOMAIN T, IsPrefix(p, q) PROVE EnterFacts(T, l, p)
    OBVIOUS
  <2>2. p \in Seq(Nat) /\ Len(p) <= Len(q) /\ Len(p) \in Nat /\ Len(q) \in Nat
    <3>1. p \in Seq(Nat)
      BY <1>1, TreeFacts
    <3> QED BY <1>4, <2>1, <3>1, PrefixShorter
  <2>3. IsPrefix(p, h) /\ Len(h) = Len(q) + 1
    BY <1>3, <1>4, <2>1, <2>2, PrefixOfChild, ChildFacts
  <2>4. p # h
    BY <2>2, <2>3
  <2>5. Before(p, h)
    BY <2>3, <2>4 DEF Before, IsStrictPrefix
  <2>6. Entered(d, p)
    BY <1>1, <2>5, EnteredBefore
  <2> QED BY <1>1, <2>6 DEF Known
<1>6. GivenOf(T, q)
  BY GivenFacts
<1>7. CASE T[q].kind = "for"
  <2>1. i \in 1 .. T[q].bounds
    BY <1>3, <1>7
  <2>2. Find(l, NodeVar(Append(q, i))) = Base("int")
    BY <1>4, <1>5, <1>7, <2>1, PrefixItself DEF EnterFacts
  <2>3. TypeOf(T, Append(q, i)) = "int"
    BY <1>6, <1>7, <2>1 DEF GivenOf
  <2> QED BY <1>3, <2>2, <2>3
<1>8. CASE T[q].kind = "return" /\ q # <<>> /\ OfOuterList(T, q)
  <2> DEFINE f == Front(q)
             k == Last(q)
  <2>1. f \in Seq(Nat) /\ k \in Nat /\ q = Append(f, k)
    BY <1>4, <1>8, FrontFacts
  <2>2. T[f].kind = "fundef"
    BY <1>8 DEF OfOuterList
  <2> HIDE DEF f, k
  <2>3. f \in DOMAIN T /\ k \in DOMAIN T[f].kids
    BY <1>1, <2>1, ParentFacts
  <2>4. T[f].kids[k].kind = "return"
    BY <1>1, <1>8, <2>1, <2>3, TreeFacts
  <2>5. ReturnType(T, q) = T[f].kids[1].type
    BY <1>1, <2>1, <2>2, <2>3, <2>4, OuterReturn
  <2>6. i = 1
    <3>1. Len(T[q].kids) <= 1 /\ Len(T[q].kids) \in Nat
      BY <1>1, <1>8, TreeFacts DEF IsProgram, Syntax
    <3> QED BY <1>4, <3>1
  <2>7. IsPrefix(f, q)
    BY <2>1, PrefixItself, PrefixOfChild
  <2>8. EnterFacts(T, l, f) /\ k \in OuterReturns(T[f])
    BY <1>5, <2>3, <2>4, <2>7 DEF OuterReturns
  <2>9. Find(l, NodeVar(Append(Append(f, k), 1))) = Base(T[f].kids[1].type)
    BY <2>2, <2>8 DEF EnterFacts
  <2>10. TypeOf(T, Append(q, i)) = ReturnType(T, q)
    BY <1>6, <1>8 DEF GivenOf
  <2> QED BY <1>3, <2>1, <2>5, <2>6, <2>9, <2>10
<1> QED BY <1>3, <1>7, <1>8

LEMMA UseFacts ==
  ASSUME NEW T, IsProgram(T), NEW h \in DOMAIN T, T[h].kind \in {"var", "arrexpr"}
  PROVE  /\ TypeOf(T, h) = TypeOfId(T, T[h].id) /\ T[h].id \in VarNames(T)
         /\ Later(T, h) => Unknown(T, h) /\ Unsure(T, h)
<1>1. ~Passes(T[h]) /\ ~IsArithmetic(T[h])
  BY DEF Passes, IsArithmetic
<1>2. TypeOf(T, h) = OwnType(T, T[h])
  BY <1>1, TypeOfFacts
<1>3. OwnType(T, T[h]) = TypeOfId(T, T[h].id)
  BY DEF OwnType
<1>4. T[h].id \in VarNames(T)
  BY DEF IsProgram, Names
<1>5. Later(T, h) => Unknown(T, h)
  BY <1>1, UnknownFacts
<1> QED BY <1>2, <1>3, <1>4, <1>5 DEF Unsure

(* A name used in an expression.                                           *)
LEMMA UseKnown ==
  ASSUME NEW T, NEW d, NEW l, NEW ok, NEW a, NEW h, Doing(T, d, l, ok, a, "leave", h), ok,
         T[h].kind \in {"var", "arrexpr"},
         NEW m, Keeps(l, m), LinksOK(T, Tail(d), m),
         (T[h].kind = "arrexpr" /\ Early(T, h)) \/ Tied(m, NodeVar(h), IdVar(T[h].id)),
         NEW b, b = Writes(a, h, TypeOfTerm(m, NodeVar(h)))
  PROVE  Grounded(T, m, h) /\ Noted(T, m, b, h)
<1>1. IsProgram(T) /\ h \in DOMAIN T
  BY LeavingIs
<1>2. TypeOf(T, h) = TypeOfId(T, T[h].id) /\ T[h].id \in VarNames(T) /\ (Later(T, h) => Unknown(T, h) /\ Unsure(T, h))
  BY <1>1, UseFacts
<1>3. ASSUME ~Later(T, h), ~(T[h].kind = "arrexpr" /\ Early(T, h)) PROVE Find(m, NodeVar(h)) = Base(TypeOf(T, h))
  <2>1. Find(l, IdVar(T[h].id)) = Base(TypeOfId(T, T[h].id))
    BY <1>3, Settled
  <2>2. Find(m, IdVar(T[h].id)) = Base(TypeOfId(T, T[h].id))
    BY <2>1, KeepsTied
  <2> QED BY <1>2, <1>3, <2>2 DEF Tied
<1>4. ASSUME Early(T, h), WellTyped(T) PROVE Find(m, NodeVar(h)) = Base(TypeOf(T, h))
  <2>1. Find(l, NodeVar(h)) = Base(TypeOf(T, h))
    BY <1>4, EarlyFacts
  <2> QED BY <2>1, KeepsTied
<1>5. Grounded(T, m, h)
  BY <1>2, <1>3, <1>4 DEF Grounded
<1>6. NodeVar(h) \in Plain(T)
  BY <1>1, PlainFacts
<1>7. h \in DOMAIN b /\ b[h] = TypeOfTerm(m, NodeVar(h))
  BY WritesOne
<1>8. /\ TypeOfTerm(m, NodeVar(h)) \in Values => Find(m, NodeVar(h)) = Base(TypeOfTerm(m, NodeVar(h)))
      /\ \A c : Find(m, NodeVar(h)) = Base(c) => TypeOfTerm(m, NodeVar(h)) = c
  BY <1>6, TermTypeFacts
<1>9. Noted(T, m, b, h)
  BY <1>2, <1>3, <1>4, <1>7, <1>8 DEF Noted
<1> QED BY <1>5, <1>9

LEMMA LeavesVar ==
  ASSUME NEW T, NEW d, NEW l, NEW ok, NEW a, NEW h, Doing(T, d, l, ok, a, "leave", h),
         T[h].kind = "var", NEW r, r = UnifyAll(l, << <<NodeVar(h), IdVar(T[h].id)>> >>),
         NEW b, b = Writes(a, h, TypeOfTerm(r.links, NodeVar(h)))
  PROVE  Checking(T, Tail(d), r.links, ok /\ r.ok, b)
<1>1. LeavingAt(T, d, Tail(d), h) /\ IsProgram(T) /\ h \in DOMAIN T
  BY LeavingIs
<1>2. TypeOf(T, h) = TypeOfId(T, T[h].id) /\ T[h].id \in VarNames(T)
  BY <1>1, UseFacts
<1>3. FitTerm(T, Tail(d), IdVar(T[h].id), TypeOfId(T, T[h].id)) /\ FitTerm(T, Tail(d), NodeVar(h), TypeOf(T, h))
  BY <1>1, <1>2, FitTerms, FitHere
<1>4. <<NodeVar(h), IdVar(T[h].id)>> \in Eqs(T, Tail(d))
  BY <1>2, <1>3, EqsFacts
<1>5. ASSUME ok, Given(r.links, NodeVar(h), IdVar(T[h].id)), LinksOK(T, Tail(d), r.links), Keeps(l, r.links)
      PROVE  LeaveFacts(T, r.links, b, h)
  <2>1. Tied(r.links, NodeVar(h), IdVar(T[h].id))
    BY <1>5 DEF Given
  <2>2. Grounded(T, r.links, h) /\ Noted(T, r.links, b, h)
    BY <1>5, <2>1, UseKnown
  <2>3. UseLeft(T, r.links, h)
    BY <2>1 DEF UseLeft
  <2> QED BY <2>2, <2>3, OtherFacts DEF LeaveFacts, Expressions
<1>6. \A p \in DOMAIN T : p # h => Agree(a, b, p)
  BY WritesOne
<1> QED BY <1>4, <1>5, <1>6, LeavesOnePair

LEMMA LeavesArrExpr ==
  ASSUME NEW T, NEW d, NEW l, NEW ok, NEW a, NEW h, Doing(T, d, l, ok, a, "leave", h),
         T[h].kind = "arrexpr", NEW element, element = UnifyTypes(l, NodeVar(h), IdVar(T[h].id)).links,
         NEW r, r = UnifyAll(element, [i \in DOMAIN T[h].kids |-> <<IdVar(T[h].id), NodeVar(Append(h, i))>>]),
         NEW b, b = Writes(a, h, TypeOfTerm(r.links, NodeVar(h)))
  PROVE  Checking(T, Tail(d), r.links, ok /\ r.ok, b)
<1> DEFINE x == IdVar(T[h].id)
           e == Tail(d)
           u == UnifyTypes(l, NodeVar(h), x)
           pairs == [i \in DOMAIN T[h].kids |-> <<x, NodeVar(Append(h, i))>>]
<1>1. /\ LeavingAt(T, d, e, h) /\ IsProgram(T) /\ h \in DOMAIN T /\ Names(T) /\ IsTree(T)
      /\ LinksOK(T, d, l) /\ ok \in BOOLEAN /\ (Proper(T) => ok)
  BY LeavingIs DEF IsProgram
<1>2. TypeOf(T, h) = TypeOfId(T, T[h].id) /\ T[h].id \in VarNames(T)
  BY <1>1, UseFacts
<1>3. FitTerm(T, e, x, TypeOfId(T, T[h].id)) /\ FitTerm(T, e, NodeVar(h), TypeOf(T, h))
  BY <1>1, <1>2, FitTerms, FitHere
<1>4. Fit(T, e, NodeVar(h), x)
  BY <1>2, <1>3, FitPair
<1>5. \A p \in DOMAIN T : Left(d, p) => Left(e, p)
  BY <1>1 DEF LeavingAt
<1>6. ASSUME ~Early(T, h) PROVE u.ok
  <2>1. ~Left(d, h)
    BY <1>1, LeavingHead DEF Doing, Checking
  <2>2. Closed({NodeVar(h)}, l)
    BY <1>1, <1>6, <2>1 DEF LinksOK
  <2>3. Find(l, NodeVar(h)) = NodeVar(h) /\ Find(l, x) # NodeVar(h)
    <3>1. \A t : Find(l, t) \in {NodeVar(h)} <=> t \in {NodeVar(h)}
      BY <2>2, ClosedFind
    <3> QED BY <3>1, Apart
  <2>4. IsVar(NodeVar(h))
    BY TermKinds
  <2> QED BY <2>3, <2>4 DEF UnifyTypes
<1>7. Makes(T, e, l, << <<NodeVar(h), x>> >>, u)
  BY <1>1, <1>4, <1>5, EquateOne
<1>8. LinksOK(T, e, element) /\ Keeps(l, element) /\ (u.ok => Tied(element, NodeVar(h), x))
  <2>1. << <<NodeVar(h), x>> >>[1] = <<NodeVar(h), x>> /\ 1 \in DOMAIN << <<NodeVar(h), x>> >>
    OBVIOUS
  <2>2. u.ok => Tied(u.links, NodeVar(h), x)
    BY <1>7, <2>1 DEF Makes
  <2>3. LinksOK(T, e, u.links) /\ Keeps(l, u.links)
    BY <1>7 DEF Makes
  <2> QED BY <2>2, <2>3
<1> HIDE DEF u
<1>9. ASSUME NEW i \in DOMAIN T[h].kids PROVE <<x, NodeVar(Append(h, i))>> \in Eqs(T, e)
  <2>1. FitTerm(T, e, NodeVar(Append(h, i)), TypeOf(T, Append(h, i)))
    BY <1>1, FitKid
  <2>2. ASSUME Proper(T) PROVE TypeOfId(T, T[h].id) = TypeOf(T, Append(h, i))
    <3>1. TypeOf(T, Append(h, i)) = "int"
      BY <1>1, <2>2, GivenFacts DEF Proper, GivenOf
    <3>2. ~Mistreated(T, h)
      BY <1>1, <2>2 DEF Proper
    <3> QED BY <3>1, <3>2 DEF Mistreated, NotOfInts
  <2> QED BY <1>3, <2>1, <2>2, EqsFacts
<1>10. DOMAIN T[h].kids = 1 .. Len(T[h].kids) /\ Len(T[h].kids) \in Nat
  BY <1>1 DEF LeavingAt
<1> DEFINE E == Eqs(T, e)
<1>11. pairs \in Seq(E) /\ DOMAIN pairs = DOMAIN T[h].kids /\ \A i \in DOMAIN pairs : pairs[i] = <<x, NodeVar(Append(h, i))>>
  <2>1. pairs \in [1 .. Len(T[h].kids) -> E]
    BY <1>9, <1>10
  <2> HIDE DEF E
  <2> QED BY <1>10, <2>1
<1> HIDE DEF pairs
<1>12. Makes(T, e, element, pairs, r)
  <2>1. r = UnifyAll(element, pairs)
    BY DEF pairs
  <2> QED BY <1>1, <1>8, <1>11, <2>1, EqsFacts, EquateFacts
<1>13. LinksOK(T, e, r.links) /\ Keeps(element, r.links) /\ r.ok \in BOOLEAN /\ (Proper(T) => r.ok)
  BY <1>12 DEF Makes
<1>14. Keeps(l, r.links)
  BY <1>8, <1>13, KeepsOn
<1>15. ASSUME ok, r.ok PROVE LeaveFacts(T, r.links, b, h)
  <2>1. Early(T, h) \/ Tied(r.links, NodeVar(h), x)
    BY <1>6, <1>8, <1>13, KeepsTied
  <2>2. Grounded(T, r.links, h) /\ Noted(T, r.links, b, h)
    BY <1>13, <1>14, <1>15, <2>1, UseKnown
  <2>3. \A i \in DOMAIN T[h].kids : Tied(r.links, x, NodeVar(Append(h, i)))
    BY <1>11, <1>12, <1>15, Gives
  <2>4. UseLeft(T, r.links, h)
    BY <2>1, <2>3 DEF UseLeft
  <2>5. T[h].kind \in Expressions
    BY DEF Expressions
  <2>6. /\ DeclarationLeft(T, r.links, h) /\ StatementLeft(T, r.links, h) /\ CallLeft(T, r.links, h)
        /\ OperatorLeft(T, r.links, h) /\ NoBool(T, r.links, h)
    BY <2>5, OtherFacts
  <2> QED BY <2>2, <2>4, <2>6 DEF LeaveFacts
<1>16. \A p \in DOMAIN T : p # h => Agree(a, b, p)
  BY WritesOne
<1> DEFINE okay == ok /\ r.ok
<1>17. okay \in BOOLEAN /\ (okay => ok) /\ (Proper(T) => okay) /\ (okay => LeaveFacts(T, r.links, b, h))
  BY <1>1, <1>13, <1>15
<1>18. d # <<>> /\ Head(d)[1] = "leave" /\ Head(d)[2] = h /\ Checking(T, d, l, ok, a)
  BY DEF Doing
<1> HIDE DEF okay, e
<1>19. Checking(T, Tail(d), r.links, okay, b)
  BY <1>1, <1>13, <1>14, <1>16, <1>17, <1>18, Leaves DEF e
<1> QED BY <1>19 DEF okay

LEMMA NotEarlyKid ==
  ASSUME NEW T, IsTree(T), NEW h \in DOMAIN T, T[h].kind \notin {"for", "return"}, NEW i \in DOMAIN T[h].kids
  PROVE  ~Early(T, Append(h, i))
<1>1. SUFFICES ASSUME NEW q \in DOMAIN T, NEW j \in DOMAIN T[q].kids, Append(h, i) = Append(q, j)
               PROVE  q = h
  BY DEF Early
<1>2. h \in Seq(Nat) /\ i \in Nat /\ q \in Seq(Nat) /\ j \in Nat
  BY TreeFacts
<1> QED BY <1>1, <1>2, ChildInjective

(* An operand whose class is known.                                        *)
ClassKnown(T, l, p) ==
  /\ \E u : Find(l, NodeVar(p)) = Base(u)
  /\ WellTyped(T) => Find(l, NodeVar(p)) = Base(TypeOf(T, p))

LEMMA KidKnown ==
  ASSUME NEW T, NEW d, NEW l, NEW ok, NEW a, NEW h, Doing(T, d, l, ok, a, "leave", h), ok,
         T[h].kind \notin {"for", "return"}, NEW i \in DOMAIN T[h].kids, T[h].kids[i].kind \in Expressions,
         ~Unknown(T, Append(h, i))
  PROVE  ClassKnown(T, l, Append(h, i))
<1>1. LeavingAt(T, d, Tail(d), h) /\ Known(T, d, l, a) /\ IsTree(T) /\ h \in DOMAIN T
  BY LeavingIs DEF IsProgram
<1>2. Append(h, i) \in DOMAIN T /\ T[Append(h, i)] = T[h].kids[i] /\ Left(d, Append(h, i))
  BY <1>1 DEF LeavingAt
<1>3. ~Early(T, Append(h, i))
  BY <1>1, NotEarlyKid
<1>4. Grounded(T, l, Append(h, i))
  BY <1>1, <1>2 DEF Known, LeaveFacts
<1> QED BY <1>2, <1>3, <1>4 DEF Grounded, ClassKnown

(* Nodes are tied to their own type only.                                  *)
LEMMA TiedToOwnType ==
  ASSUME NEW T, NEW d, NEW l, LinksOK(T, d, l), Proper(T), NEW p \in DOMAIN T, NEW b,
         Find(l, NodeVar(p)) = Base(b)
  PROVE  TypeOf(T, p) = b
<1>1. Closed(TypeClass(T, b), l)
  BY DEF LinksOK
<1>2. NodeVar(p) \in TypeClass(T, b)
  BY <1>1, ClosedFind, TypeClassFacts
<1> QED BY <1>2, TypeClassFacts

LEMMA LeavesCastOrLiteral ==
  ASSUME NEW T, NEW d, NEW l, NEW ok, NEW a, NEW h, Doing(T, d, l, ok, a, "leave", h),
         T[h].kind \in {"cast", "literal"}, NEW r, r = UnifyAll(l, << <<NodeVar(h), Base(T[h].type)>> >>),
         NEW b, b = Writes(a, h, T[h].type)
  PROVE  Checking(T, Tail(d), r.links, ok /\ r.ok, b)
<1>1. LeavingAt(T, d, Tail(d), h) /\ IsProgram(T) /\ h \in DOMAIN T
  BY LeavingIs
<1>2. T[h].type \in Values
  BY <1>1 DEF LeavingAt, Syntax
<1>3. TypeOf(T, h) = T[h].type
  <2>1. ~Passes(T[h])
    BY DEF Passes, IsArithmetic
  <2>2. TypeOf(T, h) = OwnType(T, T[h])
    BY <1>1, <2>1, TypeOfFacts
  <2> QED BY <2>2 DEF OwnType
<1>4. FitTerm(T, Tail(d), NodeVar(h), TypeOf(T, h)) /\ FitTerm(T, Tail(d), Base(T[h].type), T[h].type)
  BY <1>1, <1>2, FitTerms, FitHere
<1>5. <<NodeVar(h), Base(T[h].type)>> \in Eqs(T, Tail(d))
  BY <1>3, <1>4, EqsFacts
<1>6. ASSUME Given(r.links, NodeVar(h), Base(T[h].type)) PROVE LeaveFacts(T, r.links, b, h)
  <2>1. Find(r.links, NodeVar(h)) = Base(T[h].type)
    BY <1>6 DEF Given
  <2>2. h \in DOMAIN b /\ b[h] = T[h].type
    BY WritesOne
  <2>3. Grounded(T, r.links, h) /\ Noted(T, r.links, b, h)
    BY <1>3, <2>1, <2>2 DEF Grounded, Noted
  <2>4. OperatorLeft(T, r.links, h)
    BY <2>1 DEF OperatorLeft
  <2> QED BY <2>3, <2>4, OtherFacts DEF LeaveFacts, Expressions
<1>7. \A p \in DOMAIN T : p # h => Agree(a, b, p)
  BY WritesOne
<1> QED BY <1>5, <1>6, <1>7, LeavesOnePair

LEMMA MonopFacts ==
  ASSUME NEW T, IsProgram(T), NEW h \in DOMAIN T, T[h].kind = "monop"
  PROVE  /\ DOMAIN T[h].kids = {1} /\ T[h].kids[1].kind \in Expressions
         /\ Append(h, 1) \in DOMAIN T /\ T[Append(h, 1)] = T[h].kids[1]
         /\ Unknown(T, h)
         /\ T[h].op = "not" => TypeOf(T, h) = "bool" /\ (WellTyped(T) => TypeOf(T, Append(h, 1)) = "bool")
         /\ T[h].op = "neg" => /\ TypeOf(T, h) = TypeOf(T, Append(h, 1))
                               /\ WellTyped(T) => TypeOf(T, Append(h, 1)) \in {"int", "float"}
<1>1. IsTree(T) /\ Syntax(T[h])
  BY DEF IsProgram
<1>2. DOMAIN T[h].kids = 1 .. Len(T[h].kids) /\ Append(h, 1) \in DOMAIN T /\ T[Append(h, 1)] = T[h].kids[1]
  BY <1>1, TreeFacts DEF Syntax, Exprs
<1>3. DOMAIN T[h].kids = {1} /\ T[h].kids[1].kind \in Expressions
  <2>1. Len(T[h].kids) = 1
    BY <1>1 DEF Syntax
  <2>2. T[h].kids[1].kind \in Expressions
    BY <1>1 DEF Syntax, Exprs
  <2>3. 1 .. 1 = {1}
    OBVIOUS
  <2> QED BY <1>2, <2>1, <2>2, <2>3
<1>4. ~IsArithmetic(T[h])
  BY DEF IsArithmetic
<1>5. Unknown(T, h)
  BY <1>4, UnknownFacts
<1>6. ASSUME T[h].op = "not" PROVE TypeOf(T, h) = "bool" /\ (WellTyped(T) => TypeOf(T, Append(h, 1)) = "bool")
  <2>1. ~Passes(T[h])
    BY <1>4, <1>6 DEF Passes
  <2>2. TypeOf(T, h) = OwnType(T, T[h])
    BY <2>1, TypeOfFacts
  <2>3. OperandTypes("not") = {"bool"}
    BY DEF OperandTypes, Equality, Ordering, Logical
  <2>4. WellTyped(T) => TypeOf(T, Append(h, 1)) \in OperandTypes(T[h].op)
    BY GivenFacts DEF GivenOf
  <2> QED BY <1>6, <2>2, <2>3, <2>4 DEF OwnType
<1>7. ASSUME T[h].op = "neg"
      PROVE  TypeOf(T, h) = TypeOf(T, Append(h, 1)) /\ (WellTyped(T) => TypeOf(T, Append(h, 1)) \in {"int", "float"})
  <2>1. Passes(T[h])
    BY <1>7 DEF Passes
  <2>2. TypeOf(T, h) = TypeOf(T, Append(h, 1))
    BY <2>1, TypeOfFacts
  <2>3. OperandTypes("neg") = {"int", "float"}
    BY DEF OperandTypes, Equality, Ordering, Logical
  <2>4. WellTyped(T) => TypeOf(T, Append(h, 1)) \in OperandTypes(T[h].op)
    BY GivenFacts DEF GivenOf
  <2> QED BY <1>7, <2>2, <2>3, <2>4
<1> QED BY <1>2, <1>3, <1>5, <1>6, <1>7

LEMMA LeavesNot ==
  ASSUME NEW T, NEW d, NEW l, NEW ok, NEW a, NEW h, Doing(T, d, l, ok, a, "leave", h),
         T[h].kind = "monop", T[h].op = "not",
         NEW r, r = UnifyAll(l, << <<NodeVar(Append(h, 1)), Base("bool")>> >>),
         NEW b, b = Writes(a, h, "bool")
  PROVE  Checking(T, Tail(d), r.links, ok /\ r.ok, b)
<1>1. LeavingAt(T, d, Tail(d), h) /\ IsProgram(T) /\ h \in DOMAIN T
  BY LeavingIs
<1>2. /\ 1 \in DOMAIN T[h].kids /\ Unknown(T, h) /\ TypeOf(T, h) = "bool"
      /\ WellTyped(T) => TypeOf(T, Append(h, 1)) = "bool"
  BY <1>1, MonopFacts
<1>3. FitTerm(T, Tail(d), NodeVar(Append(h, 1)), TypeOf(T, Append(h, 1))) /\ FitTerm(T, Tail(d), Base("bool"), "bool")
  BY <1>1, <1>2, FitKid, FitTerms DEF Values
<1>4. <<NodeVar(Append(h, 1)), Base("bool")>> \in Eqs(T, Tail(d))
  BY <1>2, <1>3, EqsFacts DEF Proper
<1>5. ASSUME Given(r.links, NodeVar(Append(h, 1)), Base("bool")) PROVE LeaveFacts(T, r.links, b, h)
  <2>1. Find(r.links, NodeVar(Append(h, 1))) = Base("bool")
    BY <1>5 DEF Given
  <2>2. h \in DOMAIN b /\ b[h] = "bool"
    BY WritesOne
  <2>3. Grounded(T, r.links, h) /\ Noted(T, r.links, b, h)
    BY <1>2, <2>2 DEF Grounded, Noted
  <2>4. OperatorLeft(T, r.links, h)
    BY <2>1 DEF OperatorLeft
  <2>5. NoBool(T, r.links, h)
    BY DEF NoBool
  <2> QED BY <2>3, <2>4, <2>5, OtherFacts DEF LeaveFacts, Expressions
<1>6. \A p \in DOMAIN T : p # h => Agree(a, b, p)
  BY WritesOne
<1> QED BY <1>4, <1>5, <1>6, LeavesOnePair

LEMMA LeavesNegation ==
  ASSUME NEW T, NEW d, NEW l, NEW ok, NEW a, NEW h, Doing(T, d, l, ok, a, "leave", h),
         T[h].kind = "monop", T[h].op = "neg",
         NEW b, b = Writes(a, h, IF Is(l, NodeVar(Append(h, 1)), "int") THEN "int" ELSE "float")
  PROVE  Checking(T, Tail(d), l, ok /\ ~Is(l, NodeVar(Append(h, 1)), "bool"), b)
<1> DEFINE kid == NodeVar(Append(h, 1))
           okay == ok /\ ~Is(l, kid, "bool")
<1>1. /\ LeavingAt(T, d, Tail(d), h) /\ IsProgram(T) /\ h \in DOMAIN T
      /\ LinksOK(T, d, l) /\ ok \in BOOLEAN /\ (Proper(T) => ok)
  BY LeavingIs
<1>2. /\ DOMAIN T[h].kids = {1} /\ T[h].kids[1].kind \in Expressions /\ Append(h, 1) \in DOMAIN T
      /\ Unknown(T, h) /\ TypeOf(T, h) = TypeOf(T, Append(h, 1))
      /\ WellTyped(T) => TypeOf(T, Append(h, 1)) \in {"int", "float"}
  BY <1>1, MonopFacts
<1>3. ASSUME Proper(T) PROVE okay
  <2>1. ~Is(l, kid, "bool")
    <3>1. SUFFICES ASSUME Find(l, kid) = Base("bool") PROVE FALSE
      BY DEF Is
    <3>2. TypeOf(T, Append(h, 1)) = "bool"
      BY <1>1, <1>2, <1>3, <3>1, TiedToOwnType
    <3> QED BY <1>2, <1>3, <3>2 DEF Proper
  <2> QED BY <1>1, <1>3, <2>1
<1>4. ASSUME okay PROVE LeaveFacts(T, l, b, h)
  <2>1. ok /\ Find(l, kid) # Base("bool")
    BY <1>4 DEF Is
  <2>2. ASSUME ~Unknown(T, Append(h, 1))
        PROVE  /\ \E u : Find(l, kid) = Base(u)
               /\ WellTyped(T) => Find(l, kid) = Base(TypeOf(T, Append(h, 1)))
    <3>1. 1 \in DOMAIN T[h].kids /\ T[h].kind \notin {"for", "return"} /\ T[h].kids[1].kind \in Expressions
      BY <1>2
    <3>2. ok
      BY <2>1
    <3>3. ~Unknown(T, Append(h, 1))
      BY <2>2
    <3>4. ClassKnown(T, l, Append(h, 1))
      BY <3>1, <3>2, <3>3, KidKnown
    <3> QED BY <3>4 DEF ClassKnown
  <2>3. NoBool(T, l, h)
    BY <1>2, <2>1, <2>2 DEF NoBool
  <2>4. h \in DOMAIN b /\ b[h] = IF Find(l, kid) = Base("int") THEN "int" ELSE "float"
    BY WritesOne DEF Is
  <2>5. Grounded(T, l, h)
    BY <1>2 DEF Grounded
  <2>6. ASSUME WellTyped(T), ~Unsure(T, h) PROVE b[h] = TypeOf(T, h)
    <3>1. ~Unknown(T, Append(h, 1))
      BY <2>6 DEF Unsure
    <3>2. Find(l, kid) = Base(TypeOf(T, Append(h, 1)))
      BY <2>2, <2>6, <3>1
    <3> QED BY <1>2, <2>4, <2>6, <3>2, Apart
  <2>7. Noted(T, l, b, h)
    BY <2>4, <2>6 DEF Noted
  <2>8. OperatorLeft(T, l, h)
    BY DEF OperatorLeft
  <2> QED BY <2>3, <2>5, <2>7, <2>8, OtherFacts DEF LeaveFacts, Expressions
<1>5. \A p \in DOMAIN T : p # h => Agree(a, b, p)
  BY WritesOne
<1>6. okay \in BOOLEAN /\ (okay => ok)
  BY <1>1 DEF Is
<1> HIDE DEF okay
<1>7. Checking(T, Tail(d), l, okay, b)
  BY <1>3, <1>4, <1>5, <1>6, LeavesSame
<1> QED BY <1>7 DEF okay

LEMMA LeavesArrInit ==
  ASSUME NEW T, NEW d, NEW l, NEW ok, NEW a, NEW h, Doing(T, d, l, ok, a, "leave", h),
         T[h].kind = "arrinit"
  PROVE  Checking(T, Tail(d), l, ok /\ Append(h, 1) \in DOMAIN a /\ a[Append(h, 1)] = "int", a)
<1> DEFINE kid == Append(h, 1)
           okay == ok /\ kid \in DOMAIN a /\ a[kid] = "int"
<1>1. /\ LeavingAt(T, d, Tail(d), h) /\ IsProgram(T) /\ h \in DOMAIN T
      /\ LinksOK(T, d, l) /\ ok \in BOOLEAN /\ (Proper(T) => ok) /\ (ok => Known(T, d, l, a))
  BY LeavingIs
<1>2. /\ 1 \in DOMAIN T[h].kids /\ T[h].kids[1].kind \in Expressions
      /\ T[h].kids[1].kind = "call" => ~T[h].kids[1].in_stmt_pos
  BY <1>1 DEF LeavingAt, Syntax, Exprs
<1>3. kid \in DOMAIN T /\ T[kid] = T[h].kids[1] /\ Left(d, kid)
  BY <1>1, <1>2 DEF LeavingAt
<1>4. ok => Noted(T, l, a, kid)
  BY <1>1, <1>3 DEF Known, LeaveFacts
<1>5. ASSUME Proper(T) PROVE okay
  <2>1. ~Unsure(T, kid)
    BY <1>1, <1>5 DEF Proper, Mistreated
  <2>2. TypeOf(T, kid) = "int"
    BY <1>1, <1>2, <1>5, GivenFacts DEF Proper, GivenOf
  <2> QED BY <1>1, <1>2, <1>3, <1>4, <1>5, <2>1, <2>2 DEF Noted, Proper
<1>6. ASSUME okay PROVE LeaveFacts(T, l, a, h)
  <2>1. T[kid].kind # "monop" => Find(l, NodeVar(kid)) = Base("int")
    BY <1>2, <1>3, <1>4, <1>6 DEF Noted, Values
  <2>2. StatementLeft(T, l, h)
    BY <2>1 DEF StatementLeft
  <2> QED BY <2>2, StatementOnly
<1>7. okay \in BOOLEAN /\ (okay => ok)
  BY <1>1
<1> HIDE DEF okay
<1>8. Checking(T, Tail(d), l, okay, a)
  BY <1>5, <1>6, <1>7, LeavesSame DEF Agree
<1> QED BY <1>8 DEF okay

-----------------------------------------------------------------------------
(* Calls.                                                                  *)
LEMMA ParamType ==
  ASSUME NEW T, IsProgram(T), NEW at \in DOMAIN T, T[at].kind = "header", NEW i \in DOMAIN Params(T[at])
  PROVE  Params(T[at])[i].id \in VarNames(T) /\ TypeOfId(T, Params(T[at])[i].id) = Params(T[at])[i].type
<1>1. PICK k \in DOMAIN T[at].kids :
        /\ Append(at, k) \in DOMAIN T /\ T[Append(at, k)] = Params(T[at])[i]
        /\ <<Params(T[at])[i].id, Params(T[at])[i].type>> \in Declared(Params(T[at])[i])
  BY ParamFacts
<1> DEFINE x == Params(T[at])[i]
           v == <<x.id, x.type>>
<1>2. v \in Declared(T[Append(at, k)]) /\ v[1] = x.id /\ v[2] = x.type
  BY <1>1
<1> HIDE DEF v
<1> QED BY <1>1, <1>2, DeclaredHere DEF IsProgram

(* What a name of a function stands for.                                   *)
Callee(T, f, t) ==
  /\ t[3] = [i \in DOMAIN Params(T[HeaderAt(T, f)]) |-> IdVar(Params(T[HeaderAt(T, f)])[i].id)]
  /\ t[4] = Base(T[HeaderAt(T, f)].type)

LEMMA CalleeFacts ==
  ASSUME NEW T, NEW d, NEW l, LinksOK(T, d, l), NEW f \in FunNames(T)
  PROVE  /\ Find(l, IdVar(f)) \in FunClass(T, f)
         /\ IsFun(Find(l, IdVar(f))) => Callee(T, f, Find(l, IdVar(f)))
<1>1. IdVar(f) \in FunClass(T, f)
  BY DEF FunClass
<1>2. Find(l, IdVar(f)) \in FunClass(T, f)
  BY <1>1, ClosedFind DEF LinksOK
<1>3. \A p : LET t == FunType(p, T[HeaderAt(T, f)]) IN Callee(T, f, t)
  BY TermKinds DEF FunType, Callee
<1>4. IsFun(Find(l, IdVar(f))) => Find(l, IdVar(f)) # IdVar(f)
  BY TermKinds
<1> QED BY <1>2, <1>3, <1>4 DEF FunClass

LEMMA CallFacts ==
  ASSUME NEW T, IsProgram(T), NEW h \in DOMAIN T, T[h].kind = "call"
  PROVE  LET H == HeaderAt(T, T[h].id)
         IN  /\ T[h].id \in FunNames(T) /\ H \in DOMAIN T /\ T[H].kind = "header" /\ T[H].id = T[h].id
             /\ T[H].type \in Values \cup {"void"} /\ TypeOf(T, h) = T[H].type
             /\ Params(T[H]) \in Seq(ToSet(T[H].kids)) /\ DOMAIN Params(T[H]) = DOMAIN T[h].kids
             /\ Forward(T, h) => Unknown(T, h) /\ Unsure(T, h)
<1> DEFINE H == HeaderAt(T, T[h].id)
<1>1. T[h].id \in FunNames(T) /\ Len(T[h].kids) = Len(Params(T[H]))
  BY DEF IsProgram, Names
<1>2. H \in DOMAIN T /\ T[H].kind = "header" /\ T[H].id = T[h].id
  BY <1>1, FunctionHasHeader
<1>3. T[H].type \in Values \cup {"void"}
  BY <1>2 DEF IsProgram, Syntax
<1>4. ~Passes(T[h]) /\ ~IsArithmetic(T[h])
  BY DEF Passes, IsArithmetic
<1>5. TypeOf(T, h) = OwnType(T, T[h])
  BY <1>4, TypeOfFacts
<1>6. OwnType(T, T[h]) = T[H].type
  BY DEF OwnType
<1>7. Params(T[H]) \in Seq(ToSet(T[H].kids))
  BY <1>2, ParamFacts
<1>8. DOMAIN T[h].kids = 1 .. Len(T[h].kids)
  BY TreeFacts DEF IsProgram
<1>9. DOMAIN Params(T[H]) = 1 .. Len(Params(T[H]))
  BY <1>7
<1>10. Forward(T, h) => Unknown(T, h) /\ Unsure(T, h)
  BY <1>4, UnknownFacts DEF Unsure
<1> QED BY <1>1, <1>2, <1>3, <1>5, <1>6, <1>7, <1>8, <1>9, <1>10

(* Nothing is written into a node before it is left.                       *)
LEMMA NotWritten ==
  ASSUME NEW T, NEW d, NEW l, NEW ok, NEW a, NEW h, Doing(T, d, l, ok, a, "leave", h),
         T[h].kind # "arrinit"
  PROVE  h \notin DOMAIN a
<1>1. h \in DOMAIN T /\ ~Left(d, h)
  BY LeavingHead DEF Doing, Checking, IsProgram
<1> QED BY <1>1 DEF Doing, Checking, Written

LEMMA LeavesCallForward ==
  ASSUME NEW T, NEW d, NEW l, NEW ok, NEW a, NEW h, Doing(T, d, l, ok, a, "leave", h),
         T[h].kind = "call", ~IsFun(Find(l, IdVar(T[h].id)))
  PROVE  Checking(T, Tail(d), l, ok, a)
<1> DEFINE H == HeaderAt(T, T[h].id)
<1>1. /\ IsProgram(T) /\ h \in DOMAIN T /\ ok \in BOOLEAN /\ (Proper(T) => ok) /\ (ok => Known(T, d, l, a))
  BY LeavingIs
<1>2. /\ H \in DOMAIN T /\ T[H].kind = "header" /\ T[H].id = T[h].id
      /\ Forward(T, h) => Unknown(T, h) /\ Unsure(T, h)
  BY <1>1, CallFacts
<1>3. ASSUME ok PROVE Forward(T, h)
  <2>1. SUFFICES ASSUME Before(H, h) PROVE FALSE
    BY DEF Forward
  <2>2. Entered(d, H)
    BY <1>1, <1>2, <2>1, EnteredBefore DEF Doing, Checking, IsProgram
  <2> QED BY <1>1, <1>2, <1>3, <2>2 DEF Known, EnterFacts
<1>4. h \notin DOMAIN a
  BY NotWritten
<1>5. ASSUME ok PROVE LeaveFacts(T, l, a, h)
  <2>1. Forward(T, h) /\ Unknown(T, h) /\ Unsure(T, h)
    BY <1>2, <1>3, <1>5
  <2>2. CallLeft(T, l, h)
    BY <2>1 DEF CallLeft
  <2>3. Grounded(T, l, h) /\ Noted(T, l, a, h)
    BY <1>4, <2>1 DEF Grounded, Noted
  <2> QED BY <2>2, <2>3, OtherFacts DEF LeaveFacts, Expressions
<1> QED BY <1>1, <1>5, LeavesSame DEF Agree

CallEqs(h, t) == [i \in DOMAIN t[3] |-> <<NodeVar(Append(h, i)), t[3][i]>>] \o << <<NodeVar(h), t[4]>> >>

(* Equations of the arguments, and of the result.                          *)
CallEqsOf(T, e, h, w) ==
  LET params == Params(T[HeaderAt(T, T[h].id)])
  IN  /\ w \in Seq(Eqs(T, e))
      /\ \A i \in DOMAIN params : i \in DOMAIN w /\ w[i] = <<NodeVar(Append(h, i)), IdVar(params[i].id)>>
      /\ \E i \in DOMAIN w : w[i] = <<NodeVar(h), Base(T[HeaderAt(T, T[h].id)].type)>>

LEMMA CallPairs ==
  ASSUME NEW T, NEW d, NEW e, NEW h, LeavingAt(T, d, e, h), IsProgram(T), T[h].kind = "call",
         NEW t, Callee(T, T[h].id, t)
  PROVE  CallEqsOf(T, e, h, CallEqs(h, t))
<1> DEFINE H == HeaderAt(T, T[h].id)
           params == Params(T[H])
           E == Eqs(T, e)
           p == [i \in DOMAIN t[3] |-> <<NodeVar(Append(h, i)), t[3][i]>>]
           x == <<NodeVar(h), t[4]>>
           q == << x >>
<1>1. h \in DOMAIN T
  BY DEF LeavingAt
<1>2. /\ H \in DOMAIN T /\ T[H].kind = "header"
      /\ T[H].type \in Values \cup {"void"} /\ TypeOf(T, h) = T[H].type
      /\ DOMAIN params = DOMAIN T[h].kids
  BY <1>1, CallFacts
<1>3. DOMAIN t[3] = DOMAIN T[h].kids /\ (\A i \in DOMAIN T[h].kids : t[3][i] = IdVar(params[i].id)) /\ t[4] = Base(T[H].type)
  BY <1>2 DEF Callee
<1>4. ASSUME NEW i \in DOMAIN T[h].kids PROVE <<NodeVar(Append(h, i)), IdVar(params[i].id)>> \in E
  <2>1. params[i].id \in VarNames(T) /\ TypeOfId(T, params[i].id) = params[i].type
    BY <1>2, ParamType
  <2>2. FitTerm(T, e, IdVar(params[i].id), params[i].type)
    BY <2>1, FitTerms
  <2>3. FitTerm(T, e, NodeVar(Append(h, i)), TypeOf(T, Append(h, i)))
    BY FitKid
  <2>4. Proper(T) => TypeOf(T, Append(h, i)) = params[i].type
    BY <1>1, <1>2, GivenFacts DEF Proper, GivenOf
  <2> QED BY <2>2, <2>3, <2>4, EqsFacts
<1>5. x \in E
  <2>1. FitTerm(T, e, NodeVar(h), TypeOf(T, h)) /\ FitTerm(T, e, Base(T[H].type), T[H].type)
    BY <1>2, FitHere, FitTerms
  <2> QED BY <1>2, <1>3, <2>1, EqsFacts
<1>6. DOMAIN T[h].kids = 1 .. Len(T[h].kids) /\ Len(T[h].kids) \in Nat
  BY DEF LeavingAt
<1>7. p \in Seq(E) /\ DOMAIN p = DOMAIN T[h].kids /\ \A i \in DOMAIN p : p[i] = <<NodeVar(Append(h, i)), IdVar(params[i].id)>>
  <2>1. p \in [1 .. Len(T[h].kids) -> E]
    BY <1>3, <1>4, <1>6
  <2>2. \A i \in DOMAIN p : p[i] = <<NodeVar(Append(h, i)), IdVar(params[i].id)>>
    BY <1>3
  <2>3. DOMAIN p = DOMAIN T[h].kids
    BY <1>3
  <2> HIDE DEF E, p
  <2>4. p \in Seq(E)
    BY <1>6, <2>1
  <2> QED BY <2>2, <2>3, <2>4
<1> HIDE DEF E, x
<1>8. q \in Seq(E) /\ 1 \in DOMAIN q /\ q[1] = x
  BY <1>5, OnePair
<1>9. CallEqs(h, t) = p \o q
  BY DEF x, CallEqs
<1> HIDE DEF p, q
<1> DEFINE w == p \o q
<1>10. /\ w \in Seq(E)
       /\ \A i \in DOMAIN p : i \in DOMAIN w /\ w[i] = p[i]
       /\ \A j \in DOMAIN q : Len(p) + j \in DOMAIN w /\ w[Len(p) + j] = q[j]
  BY <1>7, <1>8, Both
<1> HIDE DEF w
<1>11. \A i \in DOMAIN params : i \in DOMAIN w /\ w[i] = <<NodeVar(Append(h, i)), IdVar(params[i].id)>>
  BY <1>2, <1>7, <1>10
<1>12. \E i \in DOMAIN w : w[i] = x
  BY <1>8, <1>10
<1>13. CallEqsOf(T, e, h, w)
  BY <1>3, <1>10, <1>11, <1>12 DEF E, x, CallEqsOf
<1> QED BY <1>9, <1>13 DEF w

LEMMA LeavesCall ==
  ASSUME NEW T, NEW d, NEW l, NEW ok, NEW a, NEW h, Doing(T, d, l, ok, a, "leave", h),
         T[h].kind = "call", NEW t, t = Find(l, IdVar(T[h].id)), IsFun(t),
         NEW r, r = UnifyAll(l, CallEqs(h, t)),
         NEW b, b = IF T[h].in_stmt_pos THEN a ELSE Writes(a, h, t[4][2])
  PROVE  Checking(T, Tail(d), r.links, ok /\ r.ok, b)
<1> DEFINE H == HeaderAt(T, T[h].id)
           params == Params(T[H])
           w == CallEqs(h, t)
<1>1. /\ LeavingAt(T, d, Tail(d), h) /\ IsProgram(T) /\ h \in DOMAIN T /\ LinksOK(T, d, l)
  BY LeavingIs
<1>2. T[h].id \in FunNames(T) /\ TypeOf(T, h) = T[H].type
  BY <1>1, CallFacts
<1>3. Callee(T, T[h].id, t)
  BY <1>1, <1>2, CalleeFacts
<1>4. t[4] = Base(T[H].type) /\ t[4][2] = T[H].type
  BY <1>3, TermKinds DEF Callee
<1>5. CallEqsOf(T, Tail(d), h, w)
  BY <1>1, <1>3, CallPairs
<1>6. \A i \in DOMAIN params : i \in DOMAIN w /\ w[i] = <<NodeVar(Append(h, i)), IdVar(params[i].id)>>
  BY <1>5 DEF CallEqsOf
<1>7. w \in Seq(Eqs(T, Tail(d))) /\ \E i \in DOMAIN w : w[i] = <<NodeVar(h), Base(T[H].type)>>
  BY <1>5 DEF CallEqsOf
<1>8. r = UnifyAll(l, w)
  OBVIOUS
<1> HIDE DEF w
<1>9. ASSUME ok, r.ok, Makes(T, Tail(d), l, w, r) PROVE LeaveFacts(T, r.links, b, h)
  <2>1. Find(r.links, NodeVar(h)) = Base(T[H].type)
    BY <1>7, <1>9, Gives
  <2>2. \A i \in DOMAIN params : Tied(r.links, NodeVar(Append(h, i)), IdVar(params[i].id))
    BY <1>6, <1>9, Gives
  <2>3. CallLeft(T, r.links, h)
    BY <2>1, <2>2 DEF CallLeft
  <2>4. Grounded(T, r.links, h)
    BY <1>2, <2>1 DEF Grounded
  <2>5. Noted(T, r.links, b, h)
    <3>1. CASE T[h].in_stmt_pos
      <4>1. h \notin DOMAIN b
        BY <3>1, NotWritten
      <4> QED BY <3>1, <4>1 DEF Noted
    <3>2. CASE ~T[h].in_stmt_pos
      <4>1. h \in DOMAIN b /\ b[h] = T[H].type
        BY <1>4, <3>2, WritesOne
      <4> QED BY <1>2, <2>1, <4>1 DEF Noted
    <3> QED BY <3>1, <3>2
  <2> QED BY <2>3, <2>4, <2>5, OtherFacts DEF LeaveFacts, Expressions
<1>10. \A p \in DOMAIN T : p # h => Agree(a, b, p)
  <2>1. \A p : Agree(a, a, p)
    BY DEF Agree
  <2> QED BY <2>1, WritesOne
<1> QED BY <1>7, <1>8, <1>9, <1>10, LeavesBy

-----------------------------------------------------------------------------
(* Operators with two operands.                                            *)
BinopOf(T, h) ==
  LET op == T[h].op
  IN  /\ DOMAIN T[h].kids = {1, 2}
      /\ \A i \in {1, 2} : T[h].kids[i].kind \in Expressions /\ Append(h, i) \in DOMAIN T
      /\ op \in Arithmetic \cup {"mod"} \cup Ordering \cup Equality \cup Logical
      /\ op \in Logical \cup Equality \cup Ordering => TypeOf(T, h) = "bool"
      /\ op = "mod" => TypeOf(T, h) = "int"
      /\ op \in Arithmetic => TypeOf(T, h) = TypeOf(T, Append(h, 1))
      /\ op \in Arithmetic /\ ~Unknown(T, h) => \E i \in {1, 2} : ~Unknown(T, Append(h, i))
      /\ op \in Arithmetic /\ Unknown(T, h) => Unsure(T, h)
      /\ WellTyped(T) => /\ TypeOf(T, Append(h, 1)) \in OperandTypes(op)
                         /\ TypeOf(T, Append(h, 2)) = TypeOf(T, Append(h, 1))

LEMMA BinopFacts ==
  ASSUME NEW T, IsProgram(T), NEW h \in DOMAIN T, T[h].kind = "binop"
  PROVE  BinopOf(T, h)
<1> DEFINE op == T[h].op
<1>1. IsTree(T) /\ Syntax(T[h])
  BY DEF IsProgram
<1>2. /\ Len(T[h].kids) = 2 /\ \A i \in {1, 2} : T[h].kids[i].kind \in Expressions
      /\ op \in Arithmetic \cup {"mod"} \cup Ordering \cup Equality \cup Logical
  BY <1>1 DEF Syntax, Exprs
<1>3. DOMAIN T[h].kids = 1 .. Len(T[h].kids) /\ \A i \in DOMAIN T[h].kids : Append(h, i) \in DOMAIN T
  BY <1>1, TreeFacts
<1>4. 1 .. 2 = {1, 2}
  OBVIOUS
<1>5. DOMAIN T[h].kids = {1, 2} /\ \A i \in {1, 2} : Append(h, i) \in DOMAIN T
  BY <1>2, <1>3, <1>4
<1>6. WellTyped(T) => /\ TypeOf(T, Append(h, 1)) \in OperandTypes(op)
                      /\ TypeOf(T, Append(h, 2)) = TypeOf(T, Append(h, 1))
  BY GivenFacts DEF GivenOf
<1>7. ASSUME op \in Arithmetic
      PROVE  /\ TypeOf(T, h) = TypeOf(T, Append(h, 1))
             /\ ~Unknown(T, h) => \E i \in {1, 2} : ~Unknown(T, Append(h, i))
             /\ Unknown(T, h) => Unsure(T, h)
  <2>1. IsArithmetic(T[h]) /\ Passes(T[h])
    BY <1>7 DEF IsArithmetic, Passes
  <2>2. TypeOf(T, h) = TypeOf(T, Append(h, 1))
    BY <2>1, TypeOfFacts
  <2>3. Unknown(T, h) <=> Unknown(T, Append(h, 1)) /\ Unknown(T, Append(h, 2))
    BY <2>1, UnknownFacts
  <2> QED BY <2>1, <2>2, <2>3 DEF Unsure
<1>8. ASSUME op \notin Arithmetic PROVE TypeOf(T, h) = OwnType(T, T[h])
  <2>1. ~Passes(T[h])
    BY <1>8 DEF Passes, IsArithmetic
  <2> QED BY <2>1, TypeOfFacts
<1>9. op = "mod" => op \notin Arithmetic /\ OwnType(T, T[h]) = "int"
  BY DEF Arithmetic, OwnType
<1>10. op \in Logical \cup Equality \cup Ordering => op \notin Arithmetic /\ OwnType(T, T[h]) = "bool"
  BY DEF Arithmetic, Logical, Equality, Ordering, OwnType
<1> QED BY <1>2, <1>5, <1>6, <1>7, <1>8, <1>9, <1>10 DEF BinopOf

LEMMA BinopTypeFacts ==
  ASSUME NEW op, NEW s, NEW t
  PROVE  LET type == BinopType(op, s, t)
         IN  /\ op \in Logical \cup Equality \cup Ordering => type = "bool"
             /\ op = "mod" => type = "int"
             /\ op \in Arithmetic =>
                  /\ type \in {"int", "float", "bool", "unset"}
                  /\ type # "unset" => Base(type) \in {s, t}
                  /\ type = "bool" => op \in {"add", "mul"}
                  /\ type = "unset" => /\ Base("int") \notin {s, t} /\ Base("float") \notin {s, t}
                                       /\ op \in {"add", "mul"} => Base("bool") \notin {s, t}
<1>1. op \in Logical \cup Equality \cup Ordering => BinopType(op, s, t) = "bool"
  BY DEF BinopType, Logical, Equality, Ordering, Arithmetic
<1>2. op = "mod" => BinopType(op, s, t) = "int"
  BY DEF BinopType, Logical, Equality, Ordering, Arithmetic
<1>3. ASSUME op \in Arithmetic
      PROVE  BinopType(op, s, t) =
               IF Base("int") \in {s, t} THEN "int"
               ELSE IF Base("float") \in {s, t} THEN "float"
               ELSE IF op \in {"add", "mul"} /\ Base("bool") \in {s, t} THEN "bool" ELSE "unset"
  <2>1. op \notin Logical \cup Equality \cup Ordering /\ op # "mod"
    BY <1>3 DEF Logical, Equality, Ordering, Arithmetic
  <2> QED BY <1>3, <2>1 DEF BinopType
<1> QED BY <1>1, <1>2, <1>3

(* What an operator's equations have done to the links l of before.        *)
BinopTied(T, l, m, h) ==
  /\ Keeps(l, m) /\ Tied(m, NodeVar(Append(h, 1)), NodeVar(Append(h, 2)))
  /\ T[h].op \in Logical \cup Ordering \cup Equality => Find(m, NodeVar(h)) = Base("bool")
  /\ T[h].op = "mod" => Find(m, NodeVar(h)) = Base("int")
  /\ T[h].op \in Logical \cup Arithmetic \cup {"mod"} => Tied(m, NodeVar(Append(h, 1)), NodeVar(h))

LEMMA BinopClass ==
  ASSUME NEW T, NEW d, NEW l, NEW ok, NEW a, NEW h, Doing(T, d, l, ok, a, "leave", h), ok,
         T[h].kind = "binop", NEW i \in {1, 2}, ~Unknown(T, Append(h, i)), NEW m, BinopTied(T, l, m, h)
  PROVE  /\ ClassKnown(T, l, Append(h, i))
         /\ ClassKnown(T, m, Append(h, 1))
<1>1. BinopOf(T, h)
  BY LeavingIs, BinopFacts
<1>2. ClassKnown(T, l, Append(h, i))
  <2>1. i \in DOMAIN T[h].kids /\ T[h].kids[i].kind \in Expressions /\ T[h].kind \notin {"for", "return"}
    BY <1>1 DEF BinopOf
  <2> QED BY <2>1, KidKnown
<1> DEFINE k == NodeVar(Append(h, i))
           k1 == NodeVar(Append(h, 1))
<1>3. Find(m, k) = Find(m, k1)
  BY DEF BinopTied, Tied
<1>4. \A u : Find(l, k) = Base(u) => Find(m, k1) = Base(u)
  BY <1>3, KeepsTied DEF BinopTied
<1>5. WellTyped(T) => TypeOf(T, Append(h, i)) = TypeOf(T, Append(h, 1))
  BY <1>1 DEF BinopOf
<1> QED BY <1>2, <1>4, <1>5 DEF ClassKnown

(* The class of an operand is that of the result.                          *)
LEMMA OperandClass ==
  ASSUME NEW T, NEW h, NEW l, NEW m, BinopTied(T, l, m, h), NEW u,
         Base(u) \in {Find(l, NodeVar(Append(h, 1))), Find(l, NodeVar(Append(h, 2)))}
  PROVE  /\ Find(m, NodeVar(Append(h, 1))) = Base(u)
         /\ T[h].op \in Arithmetic => Find(m, NodeVar(h)) = Base(u)
<1>1. Find(m, NodeVar(Append(h, 1))) = Base(u)
  BY KeepsTied DEF BinopTied, Tied
<1> QED BY <1>1 DEF BinopTied, Tied

BinopWrites(a, h, type) == IF type = "unset" THEN a ELSE Writes(a, h, type)

LEMMA BinopNoted ==
  ASSUME NEW T, NEW d, NEW l, NEW ok, NEW a, NEW h, Doing(T, d, l, ok, a, "leave", h), ok,
         T[h].kind = "binop", NEW m, BinopTied(T, l, m, h),
         NEW s, s = Find(l, NodeVar(Append(h, 1))), NEW t, t = Find(l, NodeVar(Append(h, 2)))
  PROVE  Grounded(T, m, h) /\ Noted(T, m, BinopWrites(a, h, BinopType(T[h].op, s, t)), h)
<1> DEFINE op == T[h].op
           type == BinopType(op, s, t)
           b == BinopWrites(a, h, type)
<1>1. BinopOf(T, h)
  BY LeavingIs, BinopFacts
<1>2. h \notin DOMAIN a
  BY NotWritten
<1>3. IF type = "unset" THEN h \notin DOMAIN b ELSE h \in DOMAIN b /\ b[h] = type
  BY <1>2, WritesOne DEF BinopWrites
<1>4. CASE op \in Arithmetic
  <2>1. /\ type \in {"int", "float", "bool", "unset"}
        /\ type # "unset" => Base(type) \in {s, t}
        /\ type = "unset" => /\ Base("int") \notin {s, t} /\ Base("float") \notin {s, t}
                             /\ op \in {"add", "mul"} => Base("bool") \notin {s, t}
    BY <1>4, BinopTypeFacts
  <2>2. \A u : Base(u) \in {s, t} => Find(m, NodeVar(h)) = Base(u)
    BY <1>4, OperandClass
  <2>3. Find(m, NodeVar(Append(h, 1))) = Find(m, NodeVar(h)) /\ TypeOf(T, h) = TypeOf(T, Append(h, 1))
    BY <1>1, <1>4 DEF BinopTied, Tied, BinopOf
  <2>4. ASSUME ~Unknown(T, h)
        PROVE  /\ \E u : Find(m, NodeVar(h)) = Base(u)
               /\ WellTyped(T) => Base(TypeOf(T, h)) \in {s, t} /\ Find(m, NodeVar(h)) = Base(TypeOf(T, h))
    <3>1. PICK i \in {1, 2} : ~Unknown(T, Append(h, i))
      BY <1>1, <1>4, <2>4 DEF BinopOf
    <3>2. ClassKnown(T, l, Append(h, i)) /\ ClassKnown(T, m, Append(h, 1))
      BY <3>1, BinopClass
    <3>3. WellTyped(T) => TypeOf(T, Append(h, i)) = TypeOf(T, h)
      BY <1>1, <2>3 DEF BinopOf
    <3> QED BY <2>3, <3>2, <3>3 DEF ClassKnown
  <2>5. Grounded(T, m, h)
    BY <2>4 DEF Grounded
  <2>6. ASSUME WellTyped(T), ~Unsure(T, h) PROVE type = TypeOf(T, h) /\ type # "unset"
    <3>1. ~Unknown(T, h)
      BY <1>1, <1>4, <2>6 DEF BinopOf
    <3>2. Base(TypeOf(T, h)) \in {s, t} /\ Find(m, NodeVar(h)) = Base(TypeOf(T, h))
      BY <2>4, <2>6, <3>1
    <3>3. TypeOf(T, h) \in OperandTypes(op)
      BY <1>1, <2>3, <2>6 DEF BinopOf
    <3>4. OperandTypes(op) = IF op \in {"add", "mul"} THEN Values ELSE {"int", "float"}
      BY <1>4 DEF OperandTypes, Arithmetic, Ordering, Equality, Logical
    <3>5. type # "unset"
      <4>1. TypeOf(T, h) \in {"int", "float"} \/ (op \in {"add", "mul"} /\ TypeOf(T, h) = "bool")
        BY <3>3, <3>4 DEF Values
      <4> HIDE DEF type, op
      <4> QED BY <2>1, <3>2, <4>1
    <3>6. Base(type) = Base(TypeOf(T, h))
      BY <2>1, <2>2, <3>2, <3>5
    <3> QED BY <3>5, <3>6, Apart
  <2>7. Noted(T, m, b, h)
    <3> HIDE DEF type, b
    <3>1. h \in DOMAIN b => Find(m, NodeVar(h)) = Base(b[h])
      BY <1>3, <2>1, <2>2
    <3>2. WellTyped(T) /\ ~Unsure(T, h) => h \in DOMAIN b /\ b[h] = TypeOf(T, h)
      BY <1>3, <2>6
    <3> QED BY <3>1, <3>2 DEF Noted
  <2> QED BY <2>5, <2>7
<1>5. CASE op \notin Arithmetic
  <2>1. op = "mod" \/ op \in Logical \cup Equality \cup Ordering
    BY <1>1, <1>5 DEF BinopOf
  <2>2. type = TypeOf(T, h) /\ type # "unset" /\ Find(m, NodeVar(h)) = Base(type)
    <3>1. CASE op = "mod"
      <4>1. type = "int"
        BY <3>1, BinopTypeFacts
      <4>2. TypeOf(T, h) = "int" /\ Find(m, NodeVar(h)) = Base("int")
        BY <1>1, <3>1 DEF BinopOf, BinopTied
      <4> QED BY <4>1, <4>2
    <3>2. CASE op \in Logical \cup Equality \cup Ordering
      <4>1. type = "bool"
        BY <3>2, BinopTypeFacts
      <4>2. TypeOf(T, h) = "bool" /\ Find(m, NodeVar(h)) = Base("bool")
        BY <1>1, <3>2 DEF BinopOf, BinopTied
      <4> QED BY <4>1, <4>2
    <3> QED BY <2>1, <3>1, <3>2
  <2> HIDE DEF type, b
  <2>3. Grounded(T, m, h) /\ Noted(T, m, b, h)
    BY <1>3, <2>2 DEF Grounded, Noted
  <2> QED BY <2>3 DEF b, type
<1> QED BY <1>4, <1>5

LEMMA BinopNoBool ==
  ASSUME NEW T, NEW d, NEW l, NEW ok, NEW a, NEW h, Doing(T, d, l, ok, a, "leave", h), ok,
         T[h].kind = "binop", NEW m, BinopTied(T, l, m, h),
         NEW s, s = Find(l, NodeVar(Append(h, 1))), NEW t, t = Find(l, NodeVar(Append(h, 2))),
         ~(BoolForbidden(T[h].op, s, t) /\ Is(m, s, "bool"))
  PROVE  NoBool(T, m, h)
<1> DEFINE op == T[h].op
           type == BinopType(op, s, t)
<1>1. BinopOf(T, h)
  BY LeavingIs, BinopFacts
<1>2. SUFFICES ASSUME op \in Ordering \cup {"sub", "div"}, NEW i \in {1, 2}, ~Unknown(T, Append(h, i))
               PROVE  \E u : u # "bool" /\ Find(m, NodeVar(Append(h, 1))) = Base(u)
  BY <1>1 DEF NoBool, BinopOf
<1>3. PICK u : Find(m, NodeVar(Append(h, 1))) = Base(u)
  <2>1. ClassKnown(T, m, Append(h, 1))
    BY <1>2, BinopClass
  <2> QED BY <2>1 DEF ClassKnown
<1>4. Find(m, s) = Find(m, NodeVar(Append(h, 1)))
  BY DEF BinopTied, Keeps
<1>5. SUFFICES ASSUME u = "bool" PROVE FALSE
  BY <1>3
<1>6. ~BoolForbidden(op, s, t)
  BY <1>3, <1>4, <1>5 DEF Is
<1>7. op \in {"sub", "div"} /\ op \in Arithmetic /\ type # "unset"
  BY <1>2, <1>6 DEF BoolForbidden, Arithmetic
<1>8. Base(type) \in {s, t} /\ type # "bool"
  BY <1>7, BinopTypeFacts
<1>9. Find(m, NodeVar(Append(h, 1))) = Base(type)
  BY <1>8, OperandClass
<1> QED BY <1>3, <1>5, <1>8, <1>9, Apart

(* No bool is refused in a proper program.                                 *)
LEMMA BinopProper ==
  ASSUME NEW T, NEW d, NEW l, NEW ok, NEW a, NEW h, Doing(T, d, l, ok, a, "leave", h),
         T[h].kind = "binop", NEW m, BinopTied(T, l, m, h), LinksOK(T, Tail(d), m), Proper(T),
         NEW s, s = Find(l, NodeVar(Append(h, 1))), NEW t, t = Find(l, NodeVar(Append(h, 2)))
  PROVE  ~(BoolForbidden(T[h].op, s, t) /\ Is(m, s, "bool"))
<1> DEFINE op == T[h].op
           type == BinopType(op, s, t)
<1>1. BinopOf(T, h) /\ h \in DOMAIN T /\ ok
  BY LeavingIs, BinopFacts
<1>2. SUFFICES ASSUME BoolForbidden(op, s, t), Is(m, s, "bool") PROVE FALSE
  OBVIOUS
<1>3. Find(m, NodeVar(Append(h, 1))) = Base("bool")
  BY <1>2 DEF BinopTied, Keeps, Is
<1>4. Append(h, 1) \in DOMAIN T
  BY <1>1 DEF BinopOf
<1>5. TypeOf(T, Append(h, 1)) = "bool"
  BY <1>3, <1>4, TiedToOwnType
<1>6. "bool" \in OperandTypes(op)
  BY <1>1, <1>5 DEF BinopOf, Proper
<1>7. op \notin Ordering \cup {"sub", "div"}
  BY <1>6 DEF OperandTypes, Arithmetic, Ordering, Equality, Logical
<1>8. op \in Arithmetic /\ op \in {"add", "mul"} /\ type = "unset"
  BY <1>2, <1>7 DEF BoolForbidden, Arithmetic
<1>9. TypeOf(T, h) = "bool"
  BY <1>1, <1>5, <1>8 DEF BinopOf
<1>10. ~Unknown(T, h)
  BY <1>1, <1>8, <1>9 DEF Proper, Mistreated
<1>11. PICK i \in {1, 2} : ~Unknown(T, Append(h, i))
  BY <1>1, <1>8, <1>10 DEF BinopOf
<1>12. ClassKnown(T, l, Append(h, i))
  BY <1>1, <1>11, BinopClass
<1>13. TypeOf(T, Append(h, i)) = "bool"
  BY <1>1, <1>5 DEF BinopOf, Proper
<1>14. Base("bool") \in {s, t}
  BY <1>12, <1>13 DEF ClassKnown, Proper
<1>15. Base("bool") \notin {s, t}
  BY <1>8, BinopTypeFacts
<1> QED BY <1>14, <1>15

LEMMA TwoPairs ==
  ASSUME NEW S, NEW x \in S, NEW y \in S, NEW w, w = <<x, y>>
  PROVE  w \in Seq(S) /\ 1 \in DOMAIN w /\ 2 \in DOMAIN w /\ w[1] = x /\ w[2] = y
OBVIOUS

BinopEqs(h, op, s) ==
  CASE op \in Logical -> << <<Base("bool"), NodeVar(h)>>, <<s, NodeVar(h)>> >>
    [] op = "mod"     -> << <<Base("int"), NodeVar(h)>>, <<s, NodeVar(h)>> >>
    [] op \in Equality \cup Ordering -> << <<Base("bool"), NodeVar(h)>> >>
    [] op \in Arithmetic -> << <<s, NodeVar(h)>> >>

BinopGiven(T, h, s, m) ==
  /\ T[h].op \in Logical \cup Ordering \cup Equality => Find(m, NodeVar(h)) = Base("bool")
  /\ T[h].op = "mod" => Find(m, NodeVar(h)) = Base("int")
  /\ T[h].op \in Logical \cup Arithmetic \cup {"mod"} => Tied(m, s, NodeVar(h))

LEMMA BinopEqsFacts ==
  ASSUME NEW T, NEW d, NEW e, NEW h, LeavingAt(T, d, e, h), IsProgram(T), T[h].kind = "binop",
         NEW l, LinksOK(T, d, l), NEW s, s = Find(l, NodeVar(Append(h, 1))), NEW w, w = BinopEqs(h, T[h].op, s)
  PROVE  /\ w \in Seq(Eqs(T, e))
         /\ \A k, r : Makes(T, e, k, w, r) /\ r.ok => BinopGiven(T, h, s, r.links)
<1> DEFINE op == T[h].op
           b == <<Base("bool"), NodeVar(h)>>
           n == <<Base("int"), NodeVar(h)>>
           x == <<s, NodeVar(h)>>
           E == Eqs(T, e)
<1>1. BinopOf(T, h) /\ h \in DOMAIN T
  BY BinopFacts DEF LeavingAt
<1>2. FitTerm(T, e, NodeVar(h), TypeOf(T, h)) /\ FitTerm(T, e, Base("bool"), "bool") /\ FitTerm(T, e, Base("int"), "int")
  BY FitHere, FitTerms DEF Values
<1>3. op \in Logical \cup Equality \cup Ordering => b \in E
  BY <1>1, <1>2, EqsFacts DEF BinopOf
<1>4. op = "mod" => n \in E
  BY <1>1, <1>2, EqsFacts DEF BinopOf
<1>5. ASSUME op \in Logical \cup Arithmetic \cup {"mod"} PROVE x \in E
  <2>1. 1 \in DOMAIN T[h].kids
    BY <1>1 DEF BinopOf
  <2>2. FitTerm(T, e, NodeVar(Append(h, 1)), TypeOf(T, Append(h, 1)))
    BY <2>1, FitKid
  <2>3. Proper(T) => TypeOf(T, Append(h, 1)) = TypeOf(T, h)
    <3>1. Proper(T) => TypeOf(T, Append(h, 1)) \in OperandTypes(op)
      BY <1>1 DEF BinopOf, Proper
    <3>2. op \in Logical => OperandTypes(op) = {"bool"}
      BY DEF OperandTypes, Equality, Ordering, Logical
    <3>3. op = "mod" => OperandTypes(op) = {"int"}
      BY DEF OperandTypes, Equality, Ordering, Logical
    <3> QED BY <1>1, <1>5, <3>1, <3>2, <3>3 DEF BinopOf
  <2>4. Fit(T, e, NodeVar(Append(h, 1)), NodeVar(h))
    BY <1>2, <2>2, <2>3, FitPair
  <2>5. Fit(T, e, s, NodeVar(h))
    BY <2>4, FitRoot DEF LeavingAt
  <2> QED BY <2>5, EqsFacts
<1>6. op \in Arithmetic \cup {"mod"} \cup Ordering \cup Equality \cup Logical
  BY <1>1 DEF BinopOf
<1>7. \A k, r, i : Makes(T, e, k, w, r) /\ r.ok /\ i \in DOMAIN w =>
        /\ w[i] = b => Find(r.links, NodeVar(h)) = Base("bool")
        /\ w[i] = n => Find(r.links, NodeVar(h)) = Base("int")
        /\ w[i] = x => Tied(r.links, s, NodeVar(h))
  BY Gives
<1>8. CASE op \in Logical
  <2>2. op \notin Arithmetic \cup Equality \cup Ordering \cup {"mod"}
    BY <1>8 DEF Logical, Arithmetic, Equality, Ordering
  <2>1. w = <<b, x>>
    BY <1>8, <2>2 DEF BinopEqs
  <2> HIDE DEF b, x, E, op
  <2>3. b \in E /\ x \in E
    BY <1>3, <1>5, <1>8
  <2>4. w \in Seq(E) /\ 1 \in DOMAIN w /\ 2 \in DOMAIN w /\ w[1] = b /\ w[2] = x
    BY <2>1, <2>3, TwoPairs
  <2>5. ASSUME NEW k, NEW r, Makes(T, e, k, w, r), r.ok
        PROVE  Find(r.links, NodeVar(h)) = Base("bool") /\ Tied(r.links, s, NodeVar(h))
    BY <1>7, <2>4, <2>5
  <2>6. ASSUME NEW k, NEW r, Makes(T, e, k, w, r), r.ok PROVE BinopGiven(T, h, s, r.links)
    BY <1>8, <2>2, <2>5, <2>6 DEF BinopGiven, op
  <2> QED BY <2>4, <2>6 DEF E
<1>9. CASE op = "mod"
  <2>1. op \notin Arithmetic \cup Logical \cup Ordering \cup Equality
    BY <1>9 DEF Logical, Arithmetic, Ordering, Equality
  <2>2. w = <<n, x>>
    BY <1>9, <2>1 DEF BinopEqs
  <2> HIDE DEF n, x, E, op
  <2>3. n \in E /\ x \in E
    BY <1>4, <1>5, <1>9
  <2>4. w \in Seq(E) /\ 1 \in DOMAIN w /\ 2 \in DOMAIN w /\ w[1] = n /\ w[2] = x
    BY <2>2, <2>3, TwoPairs
  <2>5. ASSUME NEW k, NEW r, Makes(T, e, k, w, r), r.ok
        PROVE  Find(r.links, NodeVar(h)) = Base("int") /\ Tied(r.links, s, NodeVar(h))
    BY <1>7, <2>4, <2>5
  <2>6. ASSUME NEW k, NEW r, Makes(T, e, k, w, r), r.ok PROVE BinopGiven(T, h, s, r.links)
    BY <1>9, <2>1, <2>5, <2>6 DEF BinopGiven, op
  <2> QED BY <2>4, <2>6 DEF E
<1>10. CASE op \in Equality \cup Ordering
  <2>1. op \notin Arithmetic \cup Logical \cup {"mod"}
    BY <1>10 DEF Logical, Arithmetic, Ordering, Equality
  <2>2. w = <<b>>
    BY <1>10, <2>1 DEF BinopEqs
  <2> HIDE DEF b, x, E, op
  <2>3. b \in E
    BY <1>3, <1>10
  <2>4. w \in Seq(E) /\ 1 \in DOMAIN w /\ w[1] = b
    BY <2>2, <2>3, OnePair
  <2>5. ASSUME NEW k, NEW r, Makes(T, e, k, w, r), r.ok PROVE Find(r.links, NodeVar(h)) = Base("bool")
    BY <1>7, <2>4, <2>5
  <2>6. ASSUME NEW k, NEW r, Makes(T, e, k, w, r), r.ok PROVE BinopGiven(T, h, s, r.links)
    BY <1>10, <2>1, <2>5, <2>6 DEF BinopGiven, op
  <2> QED BY <2>4, <2>6 DEF E
<1>11. CASE op \in Arithmetic
  <2>1. op \notin Logical \cup Ordering \cup Equality \cup {"mod"}
    BY <1>11 DEF Logical, Arithmetic, Ordering, Equality
  <2>2. w = <<x>>
    BY <1>11, <2>1 DEF BinopEqs
  <2> HIDE DEF b, x, E, op
  <2>3. x \in E
    BY <1>5, <1>11
  <2>4. w \in Seq(E) /\ 1 \in DOMAIN w /\ w[1] = x
    BY <2>2, <2>3, OnePair
  <2>5. ASSUME NEW k, NEW r, Makes(T, e, k, w, r), r.ok PROVE Tied(r.links, s, NodeVar(h))
    BY <1>7, <2>4, <2>5
  <2>6. ASSUME NEW k, NEW r, Makes(T, e, k, w, r), r.ok PROVE BinopGiven(T, h, s, r.links)
    BY <1>11, <2>1, <2>5, <2>6 DEF BinopGiven, op
  <2> QED BY <2>4, <2>6 DEF E
<1> QED BY <1>6, <1>8, <1>9, <1>10, <1>11

(* The operands, of which the left one's root is used, are tied first.     *)
LEMMA BinopTies ==
  ASSUME NEW T, NEW d, NEW e, NEW h, LeavingAt(T, d, e, h), IsProgram(T), T[h].kind = "binop",
         NEW l, LinksOK(T, d, l), NEW s, s = Find(l, NodeVar(Append(h, 1))),
         NEW tied, tied = UnifyTypes(l, s, NodeVar(Append(h, 2)))
  PROVE  /\ LinksOK(T, e, tied.links) /\ Keeps(l, tied.links) /\ tied.ok \in BOOLEAN /\ (Proper(T) => tied.ok)
         /\ tied.ok => Tied(tied.links, NodeVar(Append(h, 1)), NodeVar(Append(h, 2)))
<1> DEFINE k1 == NodeVar(Append(h, 1))
           k2 == NodeVar(Append(h, 2))
           x == <<s, k2>>
           w == << x >>
<1>1. BinopOf(T, h) /\ h \in DOMAIN T
  BY BinopFacts DEF LeavingAt
<1>2. FitTerm(T, e, k1, TypeOf(T, Append(h, 1))) /\ FitTerm(T, e, k2, TypeOf(T, Append(h, 2)))
  BY <1>1, FitKid DEF BinopOf
<1>3. Proper(T) => TypeOf(T, Append(h, 1)) = TypeOf(T, Append(h, 2))
  BY <1>1 DEF BinopOf, Proper
<1>4. Fit(T, e, k1, k2)
  BY <1>2, <1>3, FitPair
<1>5. Fit(T, e, s, k2)
  BY <1>4, FitRoot DEF LeavingAt
<1>6. Makes(T, e, l, w, tied)
  BY <1>5, EquateOne DEF LeavingAt
<1>7. 1 \in DOMAIN w /\ w[1] = x
  OBVIOUS
<1> HIDE DEF w
<1>8. tied.ok => Tied(tied.links, s, k2)
  BY <1>6, <1>7, Gives
<1>9. LinksOK(T, e, tied.links) /\ Keeps(l, tied.links) /\ tied.ok \in BOOLEAN /\ (Proper(T) => tied.ok)
  BY <1>6 DEF Makes
<1>10. Find(tied.links, s) = Find(tied.links, k1)
  BY <1>9 DEF Keeps
<1> QED BY <1>8, <1>9, <1>10 DEF Tied

LEMMA LeavesBinop ==
  ASSUME NEW T, NEW d, NEW l, NEW ok, NEW a, NEW h, Doing(T, d, l, ok, a, "leave", h),
         T[h].kind = "binop",
         NEW s, s = Find(l, NodeVar(Append(h, 1))), NEW t, t = Find(l, NodeVar(Append(h, 2))),
         NEW tied, tied = UnifyTypes(l, s, NodeVar(Append(h, 2))),
         NEW r, r = UnifyAll(tied.links, BinopEqs(h, T[h].op, s)),
         NEW b, b = BinopWrites(a, h, BinopType(T[h].op, s, t))
  PROVE  Checking(T, Tail(d), r.links,
                  ok /\ tied.ok /\ r.ok /\ ~(BoolForbidden(T[h].op, s, t) /\ Is(r.links, s, "bool")), b)
<1> DEFINE e == Tail(d)
           w == BinopEqs(h, T[h].op, s)
           bool == BoolForbidden(T[h].op, s, t) /\ Is(r.links, s, "bool")
           okay == ok /\ tied.ok /\ r.ok /\ ~bool
<1>1. /\ LeavingAt(T, d, e, h) /\ IsProgram(T) /\ IsTree(T) /\ Names(T) /\ LinksOK(T, d, l)
      /\ ok \in BOOLEAN /\ (Proper(T) => ok)
  BY LeavingIs DEF IsProgram
<1>2. /\ LinksOK(T, e, tied.links) /\ Keeps(l, tied.links) /\ tied.ok \in BOOLEAN /\ (Proper(T) => tied.ok)
      /\ tied.ok => Tied(tied.links, NodeVar(Append(h, 1)), NodeVar(Append(h, 2)))
  BY <1>1, BinopTies
<1>3. w \in Seq(Eqs(T, e)) /\ \A k, u : Makes(T, e, k, w, u) /\ u.ok => BinopGiven(T, h, s, u.links)
  BY <1>1, BinopEqsFacts
<1>4. r = UnifyAll(tied.links, w)
  OBVIOUS
<1> HIDE DEF w
<1>5. Makes(T, e, tied.links, w, r)
  BY <1>1, <1>2, <1>3, <1>4, EqsFacts, EquateFacts
<1>6. LinksOK(T, e, r.links) /\ Keeps(tied.links, r.links) /\ r.ok \in BOOLEAN /\ (Proper(T) => r.ok)
  BY <1>5 DEF Makes
<1>7. Keeps(l, r.links)
  BY <1>2, <1>6, KeepsOn
<1>8. ASSUME tied.ok, r.ok PROVE BinopTied(T, l, r.links, h)
  <2>1. BinopGiven(T, h, s, r.links)
    BY <1>3, <1>5, <1>8
  <2>2. Tied(r.links, NodeVar(Append(h, 1)), NodeVar(Append(h, 2)))
    BY <1>2, <1>6, <1>8, KeepsTied
  <2>3. Find(r.links, s) = Find(r.links, NodeVar(Append(h, 1)))
    BY <1>7 DEF Keeps
  <2> QED BY <1>7, <2>1, <2>2, <2>3 DEF BinopTied, BinopGiven, Tied
<1>9. bool \in BOOLEAN
  BY DEF BoolForbidden, Is
<1>10. Proper(T) => ~bool
  BY <1>2, <1>6, <1>8, BinopProper
<1> HIDE DEF bool
<1>12. okay \in BOOLEAN /\ (okay => ok) /\ (Proper(T) => okay)
  BY <1>1, <1>2, <1>6, <1>9, <1>10
<1>13. ASSUME ok, tied.ok, r.ok, ~bool PROVE LeaveFacts(T, r.links, b, h)
  <2>1. BinopTied(T, l, r.links, h)
    BY <1>8, <1>13
  <2>2. Grounded(T, r.links, h) /\ Noted(T, r.links, b, h)
    BY <1>13, <2>1, BinopNoted
  <2>3. NoBool(T, r.links, h)
    BY <1>13, <2>1, BinopNoBool DEF bool
  <2>4. OperatorLeft(T, r.links, h)
    BY <2>1 DEF OperatorLeft, BinopTied
  <2> QED BY <2>2, <2>3, <2>4, OtherFacts DEF LeaveFacts, Expressions
<1>14. okay => LeaveFacts(T, r.links, b, h)
  BY <1>13
<1>15. \A p \in DOMAIN T : p # h => Agree(a, b, p)
  <2>1. \A p : Agree(a, a, p)
    BY DEF Agree
  <2> QED BY <2>1, WritesOne DEF BinopWrites
<1>16. d # <<>> /\ Head(d)[1] = "leave" /\ Head(d)[2] = h /\ Checking(T, d, l, ok, a)
  BY DEF Doing
<1> HIDE DEF e, okay
<1>17. Checking(T, Tail(d), r.links, okay, b)
  BY <1>1, <1>6, <1>7, <1>12, <1>14, <1>15, <1>16, Leaves DEF e
<1> QED BY <1>17 DEF okay, bool

-----------------------------------------------------------------------------
(* Places that are visited.                                                *)
LEMMA VisitingIs ==
  ASSUME NEW T, NEW d, NEW l, NEW ok, NEW a, NEW h, Doing(T, d, l, ok, a, "visit", h)
  PROVE  /\ IsProgram(T) /\ IsTree(T) /\ Names(T) /\ h \in DOMAIN T /\ Syntax(T[h])
         /\ LinksOK(T, d, l) /\ ok \in BOOLEAN /\ (Proper(T) => ok)
         /\ \A p \in DOMAIN T : Left(d, p) => Left(Going(T, d), p)
         /\ LinksOK(T, Going(T, d), l)
<1>1. IsProgram(T) /\ IsTree(T) /\ Names(T) /\ TodoOK(T, d) /\ Order(d) /\ d # <<>> /\ Head(d)[1] = "visit" /\ Head(d)[2] = h
  BY DEF Doing, Checking, IsProgram
<1>2. h \in DOMAIN T
  BY <1>1, TodoFacts
<1>3. \A p \in DOMAIN T : Left(d, p) => Left(Going(T, d), p)
  BY <1>1, AfterGoing
<1>4. LinksOK(T, d, l) /\ ok \in BOOLEAN /\ (Proper(T) => ok)
  BY DEF Doing, Checking
<1> QED BY <1>1, <1>2, <1>3, <1>4, LinksOKOn DEF IsProgram

LEMMA VisitsTo ==
  ASSUME NEW T, NEW d, NEW l, NEW ok, NEW a, NEW h, Doing(T, d, l, ok, a, "visit", h),
         NEW m, Keeps(l, m), LinksOK(T, Going(T, d), m),
         NEW okay \in BOOLEAN, okay => ok, Proper(T) => okay,
         okay => EnterFacts(T, m, h)
  PROVE  Checking(T, Going(T, d), m, okay, a)
<1>1. IsTree(T) /\ Checking(T, d, l, ok, a) /\ d # <<>> /\ Head(d)[1] = "visit" /\ Head(d)[2] = h
  BY DEF Doing, IsProgram
<1> QED BY <1>1, Visits

LEMMA VisitsPlain ==
  ASSUME NEW T, NEW d, NEW l, NEW ok, NEW a, NEW h, Doing(T, d, l, ok, a, "visit", h),
         T[h].kind \notin EagerKinds
  PROVE  Checking(T, Going(T, d), l, ok, a)
<1>1. LinksOK(T, Going(T, d), l) /\ ok \in BOOLEAN /\ (Proper(T) => ok)
  BY VisitingIs
<1>2. Keeps(l, l)
  BY <1>1, KeepsItself DEF LinksOK
<1>3. EnterFacts(T, l, h)
  BY DEF EagerKinds, EnterFacts
<1> QED BY <1>1, <1>2, <1>3, VisitsTo

(* A visit that makes equations, and has an objection unless c holds.      *)
LEMMA VisitsBy ==
  ASSUME NEW T, NEW d, NEW l, NEW ok, NEW a, NEW h, Doing(T, d, l, ok, a, "visit", h),
         NEW pairs \in Seq(Eqs(T, Going(T, d))), NEW r, r = UnifyAll(l, pairs),
         NEW c \in BOOLEAN, Proper(T) => c,
         r.ok /\ c /\ Makes(T, Going(T, d), l, pairs, r) => EnterFacts(T, r.links, h)
  PROVE  Checking(T, Going(T, d), r.links, ok /\ r.ok /\ c, a)
<1> DEFINE okay == ok /\ r.ok /\ c
           e == Going(T, d)
<1>1. /\ Names(T) /\ LinksOK(T, d, l) /\ ok \in BOOLEAN /\ (Proper(T) => ok)
      /\ \A p \in DOMAIN T : Left(d, p) => Left(e, p)
  BY VisitingIs
<1> HIDE DEF e
<1>2. Makes(T, e, l, pairs, r)
  BY <1>1, EqsFacts, EquateFacts DEF e
<1>3. LinksOK(T, e, r.links) /\ Keeps(l, r.links) /\ r.ok \in BOOLEAN /\ (Proper(T) => r.ok)
  BY <1>2 DEF Makes
<1>4. okay \in BOOLEAN /\ (okay => ok) /\ (Proper(T) => okay)
  BY <1>1, <1>3
<1>5. okay => EnterFacts(T, r.links, h)
  BY <1>2 DEF e
<1> HIDE DEF okay
<1>6. Checking(T, Going(T, d), r.links, okay, a)
  BY <1>3, <1>4, <1>5, VisitsTo DEF e
<1> QED BY <1>6 DEF okay

ForEqs(T, h) ==
  << <<Base("int"), NodeVar(Append(h, 1))>>, <<Base("int"), IdVar(T[h].id)>> >>
    \o [i \in 1 .. T[h].bounds - 1 |-> <<Base("int"), NodeVar(Append(h, i + 1))>>]

ForEqsOf(T, e, h, w) ==
  /\ w \in Seq(Eqs(T, e))
  /\ \E j \in DOMAIN w : w[j] = <<Base("int"), IdVar(T[h].id)>>
  /\ \A i \in 1 .. T[h].bounds : \E j \in DOMAIN w : w[j] = <<Base("int"), NodeVar(Append(h, i))>>

LEMMA ForPairs ==
  ASSUME NEW T, IsProgram(T), NEW h \in DOMAIN T, T[h].kind = "for", NEW e
  PROVE  ForEqsOf(T, e, h, ForEqs(T, h))
<1> DEFINE n == T[h].bounds
           E == Eqs(T, e)
           first == <<Base("int"), NodeVar(Append(h, 1))>>
           name == <<Base("int"), IdVar(T[h].id)>>
           u == <<first, name>>
           v == [i \in 1 .. n - 1 |-> <<Base("int"), NodeVar(Append(h, i + 1))>>]
<1>1. n \in {2, 3} /\ \A i \in 1 .. n : i \in DOMAIN T[h].kids
  BY DEF IsProgram, Syntax, Exprs
<1>2. \A i \in DOMAIN T[h].kids : Append(h, i) \in DOMAIN T
  BY TreeFacts DEF IsProgram
<1>3. ASSUME NEW i \in 1 .. n PROVE <<Base("int"), NodeVar(Append(h, i))>> \in E
  <2>1. Append(h, i) \in DOMAIN T
    BY <1>1, <1>2
  <2>2. Early(T, Append(h, i))
    BY <1>1 DEF Early
  <2>3. FitTerm(T, e, NodeVar(Append(h, i)), TypeOf(T, Append(h, i))) /\ FitTerm(T, e, Base("int"), "int")
    BY <2>1, <2>2, FitTerms DEF Values
  <2>4. Proper(T) => TypeOf(T, Append(h, i)) = "int"
    BY GivenFacts DEF Proper, GivenOf
  <2> QED BY <2>3, <2>4, EqsFacts
<1>4. name \in E
  <2>1. <<T[h].id, "int">> \in Declared(T[h])
    BY DEF Declared
  <2> QED BY <2>1, NamePair
<1>5. first \in E
  BY <1>1, <1>3
<1>6. v \in Seq(E) /\ DOMAIN v = 1 .. n - 1 /\ \A i \in 1 .. n - 1 : v[i] = <<Base("int"), NodeVar(Append(h, i + 1))>>
  <2>1. \A i \in 1 .. n - 1 : i + 1 \in 1 .. n
    BY <1>1
  <2> HIDE DEF E
  <2>2. v \in [1 .. n - 1 -> E]
    BY <1>3, <2>1
  <2>3. n - 1 \in Nat
    BY <1>1
  <2>4. DOMAIN v = 1 .. n - 1 /\ \A i \in 1 .. n - 1 : v[i] = <<Base("int"), NodeVar(Append(h, i + 1))>>
    OBVIOUS
  <2> HIDE DEF v
  <2>5. v \in Seq(E)
    BY <2>2, <2>3
  <2> QED BY <2>4, <2>5
<1> HIDE DEF E, v, first, name
<1>7. u \in Seq(E) /\ 1 \in DOMAIN u /\ 2 \in DOMAIN u /\ u[1] = first /\ u[2] = name
  BY <1>4, <1>5, TwoPairs
<1>8. ForEqs(T, h) = u \o v
  BY DEF ForEqs, v, first, name
<1> HIDE DEF u
<1> DEFINE w == u \o v
<1>9. /\ w \in Seq(E)
      /\ \A i \in DOMAIN u : i \in DOMAIN w /\ w[i] = u[i]
      /\ \A j \in DOMAIN v : Len(u) + j \in DOMAIN w /\ w[Len(u) + j] = v[j]
  <2>1. u \in Seq(E) /\ v \in Seq(E)
    BY <1>6, <1>7
  <2> QED BY <2>1, Both
<1> HIDE DEF w
<1>10. \E j \in DOMAIN w : w[j] = name
  BY <1>7, <1>9
<1>11. \E j \in DOMAIN w : w[j] = first
  BY <1>7, <1>9
<1>12. ASSUME NEW i \in 1 .. n PROVE \E j \in DOMAIN w : w[j] = <<Base("int"), NodeVar(Append(h, i))>>
  <2>1. CASE i = 1
    BY <1>11, <2>1 DEF first
  <2>2. CASE i # 1
    <3>1. PICK k : k = i - 1
      OBVIOUS
    <3>2. k \in 1 .. n - 1 /\ k + 1 = i
      BY <1>1, <2>2, <3>1
    <3> QED BY <1>6, <1>9, <3>2
  <2> QED BY <2>1, <2>2
<1>13. ForEqsOf(T, e, h, w)
  BY <1>9, <1>10, <1>12 DEF ForEqsOf, E, name
<1> QED BY <1>8, <1>13 DEF w

LEMMA VisitsFor ==
  ASSUME NEW T, NEW d, NEW l, NEW ok, NEW a, NEW h, Doing(T, d, l, ok, a, "visit", h),
         T[h].kind = "for", NEW r, r = UnifyAll(l, ForEqs(T, h))
  PROVE  Checking(T, Going(T, d), r.links, ok /\ r.ok, a)
<1> DEFINE w == ForEqs(T, h)
           e == Going(T, d)
<1>1. IsProgram(T) /\ h \in DOMAIN T
  BY VisitingIs
<1>2. ForEqsOf(T, e, h, w)
  BY <1>1, ForPairs
<1>3. r = UnifyAll(l, w) /\ w \in Seq(Eqs(T, e))
  BY <1>2 DEF ForEqsOf
<1> HIDE DEF w
<1>4. ASSUME r.ok, Makes(T, e, l, w, r) PROVE EnterFacts(T, r.links, h)
  <2>1. Find(r.links, IdVar(T[h].id)) = Base("int")
    BY <1>2, <1>4, Gives DEF ForEqsOf
  <2>2. \A i \in 1 .. T[h].bounds : Find(r.links, NodeVar(Append(h, i))) = Base("int")
    BY <1>2, <1>4, Gives DEF ForEqsOf
  <2> QED BY <2>1, <2>2 DEF EnterFacts
<1>5. Checking(T, Going(T, d), r.links, ok /\ r.ok /\ TRUE, a)
  BY <1>3, <1>4, VisitsBy
<1> QED BY <1>5

-----------------------------------------------------------------------------
(* Functions: the values that they return, and their headers.              *)
FunDefEqs(T, h) ==
  LET ret == Base(T[h].kids[1].type)
  IN  [i \in DOMAIN T[h].kids |->
         <<IF i \in OuterReturns(T[h]) THEN NodeVar(Append(Append(h, i), 1)) ELSE ret, ret>>]

LEMMA FunDefFacts ==
  ASSUME NEW T, IsProgram(T), NEW h \in DOMAIN T, T[h].kind = "fundef"
  PROVE  /\ T[h].kids[1].type \in Values \cup {"void"}
         /\ DOMAIN T[h].kids = 1 .. Len(T[h].kids) /\ Len(T[h].kids) \in Nat
         /\ \A i \in DOMAIN T[h].kids : Append(h, i) \in DOMAIN T /\ T[Append(h, i)] = T[h].kids[i]
<1>1. IsTree(T) /\ Syntax(T[h])
  BY DEF IsProgram
<1>2. /\ DOMAIN T[h].kids = 1 .. Len(T[h].kids) /\ Len(T[h].kids) \in Nat
      /\ \A i \in DOMAIN T[h].kids : Append(h, i) \in DOMAIN T /\ T[Append(h, i)] = T[h].kids[i]
  BY <1>1, TreeFacts
<1>3. 1 \in DOMAIN T[h].kids /\ T[h].kids[1].kind = "header"
  BY <1>1 DEF Syntax
<1>4. Syntax(T[h].kids[1])
  BY <1>2, <1>3 DEF IsProgram
<1> QED BY <1>2, <1>3, <1>4 DEF Syntax

LEMMA OuterValue ==
  ASSUME NEW T, IsProgram(T), NEW h \in DOMAIN T, T[h].kind = "fundef",
         NEW i \in OuterReturns(T[h]), T[h].kids[i].kids # <<>>, NEW v, v = Append(Append(h, i), 1)
  PROVE  /\ v \in DOMAIN T /\ Early(T, v)
         /\ WellTyped(T) => TypeOf(T, v) = T[h].kids[1].type /\ T[h].kids[1].type # "void"
<1> DEFINE R == Append(h, i)
<1>1. i \in DOMAIN T[h].kids /\ T[h].kids[i].kind = "return"
  BY DEF OuterReturns
<1>2. /\ R \in DOMAIN T /\ R # <<>> /\ T[R] = T[h].kids[i] /\ OfOuterList(T, R)
      /\ ReturnType(T, R) = T[h].kids[1].type
  BY <1>1, OuterReturn
<1> HIDE DEF R
<1>3. 1 \in DOMAIN T[R].kids /\ Append(R, 1) \in DOMAIN T
  <2>1. DOMAIN T[R].kids = 1 .. Len(T[R].kids) /\ Len(T[R].kids) \in Nat /\ T[R].kids \in Seq(ToSet(T[R].kids))
    BY <1>2, TreeFacts DEF IsProgram
  <2>2. Len(T[R].kids) # 0
    BY <1>2, <2>1
  <2>3. 1 \in DOMAIN T[R].kids
    BY <2>1, <2>2
  <2> QED BY <1>2, <2>3, TreeFacts DEF IsProgram
<1>4. v = Append(R, 1)
  BY DEF R
<1>5. Early(T, v)
  BY <1>1, <1>2, <1>3, <1>4 DEF Early
<1>6. ASSUME WellTyped(T) PROVE TypeOf(T, v) = T[h].kids[1].type /\ T[h].kids[1].type # "void"
  <2>1. GivenOf(T, R)
    BY <1>2, <1>6, GivenFacts
  <2>2. T[R].kind = "return"
    BY <1>1, <1>2
  <2>3. ASSUME NEW j \in DOMAIN T[R].kids
        PROVE  TypeOf(T, Append(R, j)) = ReturnType(T, R) /\ ReturnType(T, R) # "void"
    BY <2>1, <2>2 DEF GivenOf
  <2>4. TypeOf(T, Append(R, 1)) = ReturnType(T, R) /\ ReturnType(T, R) # "void"
    BY <1>3, <2>3
  <2> QED BY <1>2, <1>4, <2>4
<1> QED BY <1>3, <1>4, <1>5, <1>6

LEMMA FunDefPairs ==
  ASSUME NEW T, IsProgram(T), NEW h \in DOMAIN T, T[h].kind = "fundef",
         \A i \in OuterReturns(T[h]) : T[h].kids[i].kids # <<>>, NEW e
  PROVE  FunDefEqs(T, h) \in Seq(Eqs(T, e))
<1> DEFINE E == Eqs(T, e)
           ret == Base(T[h].kids[1].type)
           n == Len(T[h].kids)
           v(i) == Append(Append(h, i), 1)
<1>1. T[h].kids[1].type \in Values \cup {"void"} /\ DOMAIN T[h].kids = 1 .. n /\ n \in Nat
  BY FunDefFacts
<1>2. FitTerm(T, e, ret, T[h].kids[1].type)
  BY <1>1, FitTerms
<1>3. ASSUME NEW i \in OuterReturns(T[h]) PROVE <<NodeVar(v(i)), ret>> \in E
  <2>1. v(i) \in DOMAIN T /\ Early(T, v(i)) /\ (WellTyped(T) => TypeOf(T, v(i)) = T[h].kids[1].type)
    BY OuterValue
  <2>2. FitTerm(T, e, NodeVar(v(i)), TypeOf(T, v(i)))
    BY <2>1, FitTerms
  <2> QED BY <1>2, <2>1, <2>2, EqsFacts DEF Proper
<1>4. <<ret, ret>> \in E
  BY <1>2, EqsFacts
<1>5. FunDefEqs(T, h) \in [1 .. n -> E]
  BY <1>1, <1>3, <1>4 DEF FunDefEqs
<1> HIDE DEF E
<1>6. FunDefEqs(T, h) \in Seq(E)
  BY <1>1, <1>5
<1> QED BY <1>6 DEF E

(* A function without a result returns no value.                           *)
NoValue(T, h) == T[h].kids[1].type = "void" => OuterReturns(T[h]) = {}

LEMMA VisitsFunDef ==
  ASSUME NEW T, NEW d, NEW l, NEW ok, NEW a, NEW h, Doing(T, d, l, ok, a, "visit", h),
         T[h].kind = "fundef", \A i \in OuterReturns(T[h]) : T[h].kids[i].kids # <<>>,
         NEW r, r = UnifyAll(l, FunDefEqs(T, h))
  PROVE  Checking(T, Going(T, d), r.links, ok /\ r.ok /\ NoValue(T, h), a)
<1> DEFINE w == FunDefEqs(T, h)
           e == Going(T, d)
           c == NoValue(T, h)
<1>1. IsProgram(T) /\ h \in DOMAIN T
  BY VisitingIs
<1>2. w \in Seq(Eqs(T, e))
  BY <1>1, FunDefPairs
<1>3. DOMAIN w = DOMAIN T[h].kids
  BY DEF FunDefEqs
<1>4. \A i \in OuterReturns(T[h]) : i \in DOMAIN w /\ w[i] = <<NodeVar(Append(Append(h, i), 1)), Base(T[h].kids[1].type)>>
  BY DEF FunDefEqs, OuterReturns
<1>5. r = UnifyAll(l, w)
  OBVIOUS
<1>6. Proper(T) => c
  <2>1. SUFFICES ASSUME Proper(T), NEW i \in OuterReturns(T[h]) PROVE T[h].kids[1].type # "void"
    BY DEF NoValue
  <2> QED BY <1>1, <2>1, OuterValue DEF Proper
<1> HIDE DEF w
<1>7. ASSUME r.ok, c, Makes(T, e, l, w, r) PROVE EnterFacts(T, r.links, h)
  <2>1. ASSUME NEW i \in OuterReturns(T[h])
        PROVE  T[h].kids[1].type # "void" /\ Find(r.links, NodeVar(Append(Append(h, i), 1))) = Base(T[h].kids[1].type)
    <3>1. PICK s : s = NodeVar(Append(Append(h, i), 1))
      OBVIOUS
    <3>2. i \in DOMAIN w /\ w[i] = <<s, Base(T[h].kids[1].type)>>
      BY <1>4, <3>1
    <3>3. Find(r.links, s) = Base(T[h].kids[1].type)
      BY <1>7, <3>2, Gives
    <3>4. T[h].kids[1].type # "void"
      BY <1>7 DEF c, NoValue
    <3> QED BY <3>1, <3>3, <3>4
  <2> QED BY <2>1 DEF EnterFacts
<1>8. c \in BOOLEAN
  BY DEF NoValue, c
<1> HIDE DEF c
<1>9. Checking(T, Going(T, d), r.links, ok /\ r.ok /\ c, a)
  BY <1>2, <1>5, <1>6, <1>7, <1>8, VisitsBy
<1> QED BY <1>9 DEF c

(* The terms of one function.                                              *)
LEMMA FunClassFacts ==
  ASSUME NEW T, IsProgram(T), NEW f \in FunNames(T), NEW s \in FunClass(T, f)
  PROVE  /\ s \notin Plain(T)
         /\ \A b : s \notin TypeClass(T, b)
         /\ \A g \in FunNames(T) : s \in FunClass(T, g) => g = f
         /\ ~IsBase(s)
         /\ IsFun(s) => Callee(T, f, s)
         /\ ~IsFun(s) => IsVar(s)
<1>1. Names(T)
  BY DEF IsProgram
<1>2. s = IdVar(f) \/ \E p \in FunPlaces(T, f) : s = FunType(p, T[HeaderAt(T, f)])
  BY DEF FunClass
<1>3. f \notin VarNames(T)
  BY <1>1 DEF Names
<1>4. CASE s = IdVar(f)
  <2>1. IsVar(s) /\ ~IsBase(s) /\ ~IsFun(s)
    BY <1>4, TermKinds
  <2>2. s \notin Plain(T)
    BY <1>3, <1>4, Apart DEF Plain
  <2>3. \A b : s \notin TypeClass(T, b)
    BY <1>3, <1>4, Apart DEF TypeClass
  <2>4. ASSUME NEW g \in FunNames(T), s \in FunClass(T, g) PROVE g = f
    <3>1. \A p : FunType(p, T[HeaderAt(T, g)]) # s
      BY <2>1, TermKinds DEF FunType
    <3>2. s = IdVar(g)
      BY <2>4, <3>1 DEF FunClass
    <3> QED BY <1>4, <3>2, Apart
  <2> QED BY <2>1, <2>2, <2>3, <2>4
<1>5. ASSUME NEW p \in FunPlaces(T, f), s = FunType(p, T[HeaderAt(T, f)])
      PROVE  /\ s \notin Plain(T)
             /\ \A b : s \notin TypeClass(T, b)
             /\ \A g \in FunNames(T) : s \in FunClass(T, g) => g = f
             /\ ~IsBase(s) /\ IsFun(s) /\ Callee(T, f, s)
  <2>1. ~IsVar(s) /\ ~IsBase(s) /\ IsFun(s) /\ s[2] = p /\ Callee(T, f, s)
    BY <1>5, TermKinds DEF FunType, Callee
  <2>2. s \notin Plain(T)
    BY <1>1, <2>1, PlainNotFun
  <2>3. ASSUME NEW b, s \in TypeClass(T, b) PROVE FALSE
    BY <2>1, <2>3, TermKinds DEF TypeClass
  <2>4. ASSUME NEW g \in FunNames(T), s \in FunClass(T, g) PROVE g = f
    <3>1. s # IdVar(g)
      BY <2>1, TermKinds
    <3>2. PICK q \in FunPlaces(T, g) : s = FunType(q, T[HeaderAt(T, g)])
      BY <2>4, <3>1 DEF FunClass
    <3>3. s[2] = q
      BY <3>2, TermKinds DEF FunType
    <3>4. p \in FunPlaces(T, f) /\ p \in FunPlaces(T, g)
      BY <2>1, <3>3
    <3> QED BY <3>4 DEF FunPlaces
  <2> QED BY <2>1, <2>2, <2>3, <2>4
<1> QED BY <1>2, <1>4, <1>5

(* Functions may be linked to one another.                                 *)
LEMMA LinkOfFunction ==
  ASSUME NEW T, IsProgram(T), NEW d, NEW l, LinksOK(T, d, l), NEW f \in FunNames(T),
         NEW x \in FunClass(T, f), NEW y \in FunClass(T, f), NEW m,
         \A A : Closed(A, l) /\ (x \in A <=> y \in A) => Closed(A, m), Sound(m)
  PROVE  LinksOK(T, d, m)
<1>1. Closed(Plain(T), m)
  BY FunClassFacts DEF LinksOK
<1>2. \A g \in FunNames(T) : Closed(FunClass(T, g), m)
  BY FunClassFacts DEF LinksOK
<1>3. ASSUME NEW p \in DOMAIN T, ~Left(d, p), ~Early(T, p) PROVE Closed({NodeVar(p)}, m)
  <2>1. NodeVar(p) \in Plain(T)
    BY PlainFacts
  <2>2. x # NodeVar(p) /\ y # NodeVar(p)
    BY <2>1, FunClassFacts
  <2>3. x \in {NodeVar(p)} <=> y \in {NodeVar(p)}
    BY <2>2
  <2>4. Closed({NodeVar(p)}, l)
    BY <1>3 DEF LinksOK
  <2> QED BY <2>3, <2>4
<1>4. ASSUME Proper(T), NEW b PROVE Closed(TypeClass(T, b), m)
  <2>1. x \notin TypeClass(T, b) /\ y \notin TypeClass(T, b)
    BY FunClassFacts
  <2>2. Closed(TypeClass(T, b), l)
    BY <1>4 DEF LinksOK
  <2>3. x \in TypeClass(T, b) <=> y \in TypeClass(T, b)
    BY <2>1
  <2> QED BY <2>2, <2>3
<1> QED BY <1>1, <1>2, <1>3, <1>4 DEF LinksOK

LEMMA SamePairs ==
  ASSUME NEW l, Sound(l), NEW L, NEW v \in Seq(L), NEW x
  PROVE  UnifyAll(l, Append([i \in DOMAIN v |-> <<v[i], v[i]>>], <<x, x>>)).links = l
<1> DEFINE pair(u) == <<u, u>>
           S == {pair(u) : u \in L \cup {x}}
           p == [i \in DOMAIN v |-> pair(v[i])]
           w == Append(p, pair(x))
<1>1. \A u \in S : u[1] = u[2]
  OBVIOUS
<1>2. p \in Seq(S) /\ pair(x) \in S
  <2>1. \A i \in DOMAIN v : pair(v[i]) \in S
    OBVIOUS
  <2> HIDE DEF S, pair
  <2>2. p \in [1 .. Len(v) -> S] /\ Len(v) \in Nat
    BY <2>1
  <2>3. p \in Seq(S)
    BY <2>2
  <2> QED BY <2>3 DEF S
<1>3. UnifyAll(l, Append([i \in DOMAIN v |-> <<v[i], v[i]>>], <<x, x>>)) = UnifyAll(l, w)
  OBVIOUS
<1> HIDE DEF S, pair, p
<1>4. w \in Seq(S)
  BY <1>2
<1>5. \A i \in DOMAIN w : w[i] \in S
  BY <1>4
<1> HIDE DEF w
<1>6. UnifiesAll(l, w, Len(w), UnifyAll(l, w))
  BY <1>4, UnifyAllFacts
<1>7. UnifyAll(l, w).links = l
  BY <1>1, <1>5, <1>6 DEF UnifiesAll
<1> QED BY <1>3, <1>7

LEMMA UnifyFunction ==
  ASSUME NEW T, IsProgram(T), NEW d, NEW l, LinksOK(T, d, l), NEW f \in FunNames(T),
         NEW g \in FunClass(T, f), IsFun(g), NEW r, r = Unify(l, IdVar(f), g)
  PROVE  r.ok = TRUE /\ LinksOK(T, d, r.links) /\ Keeps(l, r.links) /\ IsFun(Find(r.links, IdVar(f)))
<1> DEFINE x == Find(l, IdVar(f))
           y == Find(l, g)
           m == Link(l, x, y)
<1>1. Sound(l) /\ Closed(FunClass(T, f), l)
  BY DEF LinksOK
<1>2. x \in FunClass(T, f) /\ y \in FunClass(T, f)
  <2>1. IdVar(f) \in FunClass(T, f)
    BY DEF FunClass
  <2> QED BY <1>1, <2>1, ClosedFind
<1>3. x \notin DOMAIN l /\ y \notin DOMAIN l /\ IsFun(y)
  BY <1>1, FindFacts
<1>4. ~IsBase(x) /\ (IsFun(x) => Callee(T, f, x)) /\ (~IsFun(x) => IsVar(x)) /\ Callee(T, f, y)
  BY <1>2, <1>3, FunClassFacts
<1>5. CASE x = y
  <2>1. r = [links |-> l, ok |-> TRUE]
    BY <1>5 DEF Unify, UnifyTypes
  <2>2. Keeps(l, l)
    BY <1>1, KeepsItself
  <2> QED BY <1>3, <1>5, <2>1, <2>2
<1>6. CASE x # y
  <2> HIDE DEF x, y
  <2>1. /\ Keeps(l, m) /\ Find(m, x) = y
        /\ \A A : Closed(A, l) /\ (x \in A <=> y \in A) => Closed(A, m)
    BY <1>1, <1>3, <1>4, <1>6, LinkFacts
  <2>2. Sound(m)
    BY <2>1 DEF Keeps
  <2>3. LinksOK(T, d, m)
    BY <1>2, <2>1, <2>2, LinkOfFunction
  <2>4. Find(m, IdVar(f)) = y
    BY <2>1 DEF Keeps, x
  <2>5. r.links = m /\ r.ok = TRUE
    <3>1. CASE IsFun(x)
      <4>1. x[3] = y[3] /\ x[4] = y[4]
        BY <1>4, <3>1 DEF Callee
      <4>2. r = [links |-> UnifyAll(m, Append([i \in DOMAIN x[3] |-> <<x[3][i], y[3][i]>>], <<x[4], y[4]>>)).links,
                 ok    |-> TRUE]
        <5>1. Len(x[3]) = Len(y[3])
          BY <4>1
        <5> QED BY <1>3, <1>6, <3>1, <5>1 DEF Unify, x, y
      <4>3. \E L : x[3] \in Seq(L)
        <5>1. HeaderAt(T, f) \in DOMAIN T /\ T[HeaderAt(T, f)].kind = "header"
          BY FunctionHasHeader
        <5> DEFINE P == Params(T[HeaderAt(T, f)])
        <5>2. P \in Seq(ToSet(T[HeaderAt(T, f)].kids))
          BY <5>1, ParamFacts
        <5>3. x[3] = [i \in DOMAIN P |-> IdVar(P[i].id)]
          BY <1>4, <3>1 DEF Callee
        <5> HIDE DEF P
        <5>4. DOMAIN P = 1 .. Len(P) /\ Len(P) \in Nat
          BY <5>2
        <5> DEFINE L == {IdVar(P[i].id) : i \in DOMAIN P}
        <5>5. x[3] \in [1 .. Len(P) -> L]
          BY <5>3, <5>4
        <5> HIDE DEF L
        <5>6. x[3] \in Seq(L)
          BY <5>4, <5>5
        <5> QED BY <5>6
      <4>4. PICK L : x[3] \in Seq(L)
        BY <4>3
      <4>5. UnifyAll(m, Append([i \in DOMAIN x[3] |-> <<x[3][i], x[3][i]>>], <<x[4], x[4]>>)).links = m
        BY <2>2, <4>4, SamePairs
      <4> QED BY <4>1, <4>2, <4>5
    <3>2. CASE ~IsFun(x)
      <4>1. r = UnifyTypes(l, IdVar(f), g)
        BY <3>2 DEF Unify, x
      <4>2. IsVar(x)
        BY <1>4, <3>2
      <4> QED BY <1>6, <4>1, <4>2 DEF UnifyTypes, x, y
    <3> QED BY <3>1, <3>2
  <2> QED BY <1>3, <2>1, <2>3, <2>4, <2>5
<1> QED BY <1>5, <1>6

LEMMA VisitsHeader ==
  ASSUME NEW T, NEW d, NEW l, NEW ok, NEW a, NEW h, Doing(T, d, l, ok, a, "visit", h),
         T[h].kind \in {"fundec", "header"},
         NEW hdr, hdr = IF T[h].kind = "header" THEN T[h] ELSE T[h].kids[1],
         NEW r, r = Unify(l, IdVar(hdr.id), FunType(h, hdr))
  PROVE  Checking(T, Going(T, d), r.links, ok /\ r.ok, a)
<1> DEFINE e == Going(T, d)
           f == hdr.id
<1>1. /\ IsProgram(T) /\ IsTree(T) /\ Names(T) /\ h \in DOMAIN T /\ Syntax(T[h])
      /\ ok \in BOOLEAN /\ (Proper(T) => ok) /\ LinksOK(T, e, l)
  BY VisitingIs
<1>2. PICK at \in DOMAIN T : T[at] = hdr /\ T[at].kind = "header" /\ (T[h].kind = "header" => at = h)
  <2>1. CASE T[h].kind = "header"
    BY <1>1, <2>1
  <2>2. CASE T[h].kind = "fundec"
    <3>1. 1 \in DOMAIN T[h].kids /\ T[h].kids[1].kind = "header"
      BY <1>1, <2>2 DEF Syntax
    <3>2. Append(h, 1) \in DOMAIN T /\ T[Append(h, 1)] = T[h].kids[1]
      BY <1>1, <3>1, TreeFacts
    <3> QED BY <2>2, <3>1, <3>2
  <2> QED BY <2>1, <2>2
<1>3. f \in FunNames(T) /\ T[HeaderAt(T, f)] = hdr
  BY <1>1, <1>2, HeaderHereOnly
<1>4. h \in FunPlaces(T, f)
  BY <1>1 DEF FunPlaces
<1>5. FunType(h, hdr) \in FunClass(T, f)
  BY <1>3, <1>4 DEF FunClass
<1>6. IsFun(FunType(h, hdr))
  BY TermKinds DEF FunType
<1>7. r.ok = TRUE /\ LinksOK(T, e, r.links) /\ Keeps(l, r.links) /\ IsFun(Find(r.links, IdVar(f)))
  <2>1. PICK g \in FunClass(T, f) : g = FunType(h, hdr)
    BY <1>5
  <2>2. IsFun(g) /\ r = Unify(l, IdVar(f), g)
    BY <1>6, <2>1
  <2>3. IsProgram(T) /\ LinksOK(T, e, l) /\ f \in FunNames(T)
    BY <1>1, <1>3
  <2> HIDE DEF e, f
  <2> QED BY <2>2, <2>3, UnifyFunction
<1>8. EnterFacts(T, r.links, h)
  BY <1>7 DEF EnterFacts
<1> DEFINE okay == ok /\ r.ok
<1>9. okay \in BOOLEAN /\ (okay => ok) /\ (Proper(T) => okay)
  BY <1>1, <1>7
<1> HIDE DEF okay, e
<1>10. Checking(T, Going(T, d), r.links, okay, a)
  BY <1>7, <1>8, <1>9, VisitsTo DEF e
<1> QED BY <1>10 DEF okay

-----------------------------------------------------------------------------
(***************************************************************************)
(* The invariant.                                                          *)
(***************************************************************************)
CheckInv ==
  /\ tree \in Programs
  /\ phase \in {"check", "accepted", "rejected", "crashed"}
  /\ phase # "crashed" => Checking(tree, todo, links, typable, ann)
  /\ phase = "accepted" => todo = <<>> /\ typable
  /\ phase = "rejected" => ~typable
  /\ phase = "crashed" =>
       \E at \in DOMAIN tree :
         tree[at].kind = "return" /\ tree[at].kids = <<>> /\ OfOuterList(tree, at)

LEMMA InitInv == Init => CheckInv
<1> SUFFICES ASSUME Init PROVE CheckInv
  OBVIOUS
<1> USE DEF Init
<1>1. IsProgram(tree) /\ IsTree(tree) /\ <<>> \in DOMAIN tree
  BY ProgramsAssumption DEF IsProgram, IsTree
<1> DEFINE x == <<"visit", <<>>>>
<1>2. x \in {"visit", "leave"} \X DOMAIN tree
  BY <1>1
<1>3. todo = <<x>> /\ x[1] = "visit" /\ x[2] = <<>>
  OBVIOUS
<1> HIDE DEF x
<1>4. TodoOK(tree, todo) /\ DOMAIN todo = {1} /\ todo[1] = x
  BY <1>2, <1>3, OnePair DEF TodoOK
<1>5. Order(todo)
  BY <1>4 DEF Order
<1>6. LinksOK(tree, todo, links)
  BY DEF LinksOK, Sound, Closed
<1>7. Written(tree, todo, ann)
  BY DEF Written
<1>8. \A p \in DOMAIN tree : ~Entered(todo, p) /\ ~Left(todo, p)
  <2>1. ASSUME NEW p \in DOMAIN tree PROVE IsPrefix(<<>>, p)
    <3>1. p \in Seq(Nat) /\ <<>> \in Seq(Nat) /\ Len(<<>>) = 0 /\ Len(p) \in Nat /\ 1 .. 0 = {}
      BY <1>1, TreeFacts
    <3>2. Len(<<>>) <= Len(p) /\ \A i \in 1 .. Len(<<>>) : <<>>[i] = p[i]
      BY <3>1
    <3> QED BY <3>1, <3>2, PrefixDef
  <2> QED BY <1>3, <1>4, <2>1 DEF Entered, Left
<1>9. Known(tree, todo, links, ann)
  BY <1>8 DEF Known
<1> QED BY <1>4, <1>5, <1>6, <1>7, <1>9 DEF Checking, CheckInv

LEMMA Begins ==
  ASSUME CheckInv, phase = "check", todo # <<>>, NEW event, Head(todo)[1] = event
  PROVE  Doing(tree, todo, links, typable, ann, event, Here)
BY ProgramsAssumption DEF CheckInv, Doing, Here

LEMMA GoesOn ==
  ASSUME CheckInv, phase = "check", UNCHANGED <<tree, phase>>,
         Checking(tree, todo', links', typable', ann')
  PROVE  CheckInv'
BY DEF CheckInv

LEMMA KeepsVisiting ==
  ASSUME CheckInv, Visit \/ LeavePlain
  PROVE  CheckInv'
<1>1. CASE Visit
  <2>1. Doing(tree, todo, links, typable, ann, "visit", Here)
    BY <1>1, Begins DEF Visit
  <2>2. Checking(tree, Going(tree, todo), links, typable, ann)
    BY <1>1, <2>1, VisitsPlain DEF Visit, Node_
  <2>3. todo' = Going(tree, todo)
    BY <1>1 DEF Visit, TRAVchildren, Going, Node_, Kid, Here
  <2> QED BY <1>1, <2>2, <2>3, GoesOn DEF Visit
<1>2. CASE LeavePlain
  <2>1. Doing(tree, todo, links, typable, ann, "leave", Here)
    BY <1>2, Begins DEF LeavePlain, On
  <2>2. Checking(tree, Tail(todo), links, typable, ann)
    BY <1>2, <2>1, LeavesPlain DEF LeavePlain, On, Node_
  <2> QED BY <1>2, <2>2, GoesOn DEF LeavePlain, On, Leave
<1> QED BY <1>1, <1>2

LEMMA KeepsFunHeader ==
  ASSUME CheckInv, FunHeader
  PROVE  CheckInv'
<1>1. Doing(tree, todo, links, typable, ann, "visit", Here) /\ Node_.kind \in {"fundec", "header"} /\ phase = "check"
  BY Begins DEF FunHeader, On
<1>2. PICK r : r = Unify(links, IdVar(HeaderHere.id), FunType(Here, HeaderHere))
  OBVIOUS
<1>3. Checking(tree, Going(tree, todo), r.links, typable /\ r.ok, ann)
  BY <1>1, <1>2, VisitsHeader DEF HeaderHere, Node_
<1>4. todo' = Going(tree, todo)
  BY DEF FunHeader, TRAVchildren, Going, Node_, Kid, Here
<1>5. links' = r.links /\ typable' = (typable /\ r.ok) /\ UNCHANGED <<tree, phase, ann>>
  BY <1>2 DEF FunHeader
<1> QED BY <1>1, <1>3, <1>4, <1>5, GoesOn

LEMMA KeepsFunDefEnter ==
  ASSUME CheckInv, FunDefEnter
  PROVE  CheckInv'
<1>1. Doing(tree, todo, links, typable, ann, "visit", Here) /\ Node_.kind = "fundef" /\ phase = "check"
  BY Begins DEF FunDefEnter, On
<1>2. PICK r : r = UnifyAll(links, FunDefEqs(tree, Here))
  OBVIOUS
<1>3. \A i \in OuterReturns(tree[Here]) : tree[Here].kids[i].kids # <<>>
  BY DEF FunDefEnter, Node_
<1>4. Checking(tree, Going(tree, todo), r.links, typable /\ r.ok /\ NoValue(tree, Here), ann)
  <2>1. tree[Here].kind = "fundef"
    BY <1>1 DEF Node_
  <2>2. Doing(tree, todo, links, typable, ann, "visit", Here)
    BY <1>1
  <2> QED BY <1>2, <1>3, <2>1, <2>2, VisitsFunDef
<1>5. todo' = Going(tree, todo)
  BY DEF FunDefEnter, TRAVchildren, Going, Node_, Kid, Here
<1>6. FunDefReturns = FunDefEqs(tree, Here)
  BY DEF FunDefReturns, FunDefEqs, Node_, Kid
<1>7. /\ links' = r.links /\ UNCHANGED <<tree, phase, ann>>
      /\ typable' = (typable /\ r.ok /\ NoValue(tree, Here))
  BY <1>2, <1>6 DEF FunDefEnter, Node_, NoValue
<1> QED BY <1>1, <1>4, <1>5, <1>7, GoesOn

LEMMA KeepsFunDefCrash ==
  ASSUME CheckInv, FunDefCrash
  PROVE  CheckInv'
<1>1. Doing(tree, todo, links, typable, ann, "visit", Here) /\ Node_.kind = "fundef" /\ phase = "check"
  BY Begins DEF FunDefCrash, On
<1>2. PICK i \in OuterReturns(Node_) : Node_.kids[i].kids = <<>>
  BY DEF FunDefCrash
<1>3. IsProgram(tree) /\ Here \in DOMAIN tree
  BY <1>1, VisitingIs
<1>4. i \in DOMAIN tree[Here].kids /\ tree[Here].kids[i].kind = "return"
  BY <1>2 DEF OuterReturns, Node_
<1> DEFINE at == Append(Here, i)
<1>5. at \in DOMAIN tree /\ tree[at] = tree[Here].kids[i] /\ OfOuterList(tree, at)
  BY <1>1, <1>3, <1>4, OuterReturn DEF Node_
<1>6. tree[at].kind = "return" /\ tree[at].kids = <<>>
  BY <1>2, <1>4, <1>5 DEF Node_
<1>7. phase' = "crashed" /\ tree' = tree
  BY DEF FunDefCrash
<1> HIDE DEF at
<1>8. tree' \in Programs
  BY <1>7 DEF CheckInv
<1>9. \E p \in DOMAIN tree' : tree'[p].kind = "return" /\ tree'[p].kids = <<>> /\ OfOuterList(tree', p)
  BY <1>5, <1>6, <1>7
<1> QED BY <1>7, <1>8, <1>9 DEF CheckInv

LEMMA KeepsDeclarations ==
  ASSUME CheckInv, GlobalDec_ \/ GlobalDef_ \/ Parameter_ \/ VarDec_
  PROVE  CheckInv'
<1> USE DEF On, Node_, Kid, KidVar, Equate, NameIs, KidsAre, Leave
<1>1. CASE GlobalDec_
  <2>1. Doing(tree, todo, links, typable, ann, "leave", Here)
    BY <1>1, Begins DEF GlobalDec_
  <2>2. PICK r : r = UnifyAll(links, << <<IdVar(tree[Here].id), Base(tree[Here].type)>> >>
                            \o [i \in DOMAIN tree[Here].ids |-> <<IdVar(tree[Here].ids[i]), Base("int")>>])
    OBVIOUS
  <2>3. Checking(tree, Tail(todo), r.links, typable /\ r.ok, ann)
    BY <1>1, <2>1, <2>2, LeavesGlobalDec DEF GlobalDec_
  <2>4. links' = r.links /\ typable' = (typable /\ r.ok) /\ todo' = Tail(todo) /\ UNCHANGED <<tree, phase, ann>> /\ phase = "check"
    BY <1>1, <2>2 DEF GlobalDec_
  <2> QED BY <2>3, <2>4, GoesOn
<1>2. CASE GlobalDef_
  <2>1. Doing(tree, todo, links, typable, ann, "leave", Here)
    BY <1>2, Begins DEF GlobalDef_
  <2>2. PICK r : r = UnifyAll(links, << <<IdVar(tree[Here].id), Base(tree[Here].type)>> >>
                            \o [i \in DOMAIN tree[Here].kids |-> <<NodeVar(Append(Here, i)), Base("int")>>])
    OBVIOUS
  <2>3. Checking(tree, Tail(todo), r.links, typable /\ r.ok, ann)
    BY <1>2, <2>1, <2>2, LeavesGlobalDef DEF GlobalDef_
  <2>4. links' = r.links /\ typable' = (typable /\ r.ok) /\ todo' = Tail(todo) /\ UNCHANGED <<tree, phase, ann>> /\ phase = "check"
    BY <1>2, <2>2 DEF GlobalDef_
  <2> QED BY <2>3, <2>4, GoesOn
<1>3. CASE Parameter_
  <2>1. Doing(tree, todo, links, typable, ann, "leave", Here)
    BY <1>3, Begins DEF Parameter_
  <2>2. PICK r : r = UnifyAll(links, << <<IdVar(tree[Here].id), Base(tree[Here].type)>> >>)
    OBVIOUS
  <2>3. Checking(tree, Tail(todo), r.links, typable /\ r.ok, ann)
    BY <1>3, <2>1, <2>2, LeavesParameter DEF Parameter_
  <2>4. links' = r.links /\ typable' = (typable /\ r.ok) /\ todo' = Tail(todo) /\ UNCHANGED <<tree, phase, ann>> /\ phase = "check"
    BY <1>3, <2>2 DEF Parameter_
  <2> QED BY <2>3, <2>4, GoesOn
<1>4. CASE VarDec_
  <2>1. Doing(tree, todo, links, typable, ann, "leave", Here)
    BY <1>4, Begins DEF VarDec_
  <2>2. PICK r : r = UnifyAll(links, << <<IdVar(tree[Here].id), Base(tree[Here].type)>> >>
                            \o IF tree[Here].single THEN <<>>
                               ELSE [i \in DOMAIN tree[Here].kids |-> <<NodeVar(Append(Here, i)), Base(tree[Here].type)>>])
    OBVIOUS
  <2>3. Checking(tree, Tail(todo), r.links, typable /\ r.ok, ann)
    BY <1>4, <2>1, <2>2, LeavesVarDec DEF VarDec_
  <2>4. links' = r.links /\ typable' = (typable /\ r.ok) /\ todo' = Tail(todo) /\ UNCHANGED <<tree, phase, ann>> /\ phase = "check"
    BY <1>4, <2>2 DEF VarDec_
  <2> QED BY <2>3, <2>4, GoesOn
<1> QED BY <1>1, <1>2, <1>3, <1>4

LEMMA KeepsStatements ==
  ASSUME CheckInv, VarLet_ \/ Assign_ \/ Condition \/ ForEnter
  PROVE  CheckInv'
<1> USE DEF On, Node_, Kid, KidVar, Equate, Leave
<1>1. CASE VarLet_
  <2>1. Doing(tree, todo, links, typable, ann, "leave", Here)
    BY <1>1, Begins DEF VarLet_
  <2>2. PICK r : r = UnifyAll(links, << <<IdVar(tree[Here].id), NodeVar(Here)>> >>)
    OBVIOUS
  <2>3. Checking(tree, Tail(todo), r.links, typable /\ r.ok, ann)
    BY <1>1, <2>1, <2>2, LeavesVarLet DEF VarLet_
  <2>4. links' = r.links /\ typable' = (typable /\ r.ok) /\ todo' = Tail(todo) /\ UNCHANGED <<tree, phase, ann>> /\ phase = "check"
    BY <1>1, <2>2 DEF VarLet_
  <2> QED BY <2>3, <2>4, GoesOn
<1>2. CASE Assign_
  <2>1. Doing(tree, todo, links, typable, ann, "leave", Here)
    BY <1>2, Begins DEF Assign_
  <2>2. PICK r : r = UnifyAll(links, << <<NodeVar(Append(Here, 1)), NodeVar(Append(Here, 2))>> >>)
    OBVIOUS
  <2>3. Checking(tree, Tail(todo), r.links, typable /\ r.ok, ann)
    BY <1>2, <2>1, <2>2, LeavesAssign DEF Assign_
  <2>4. links' = r.links /\ typable' = (typable /\ r.ok) /\ todo' = Tail(todo) /\ UNCHANGED <<tree, phase, ann>> /\ phase = "check"
    BY <1>2, <2>2 DEF Assign_
  <2> QED BY <2>3, <2>4, GoesOn
<1>3. CASE Condition
  <2>1. Doing(tree, todo, links, typable, ann, "leave", Here)
    BY <1>3, Begins DEF Condition
  <2>2. PICK i : i = IF tree[Here].kind = "dowhile" THEN Len(tree[Here].kids) ELSE 1
    OBVIOUS
  <2>3. PICK r : r = UnifyAll(links, << <<NodeVar(Append(Here, i)), Base("bool")>> >>)
    OBVIOUS
  <2>4. Checking(tree, Tail(todo), r.links, typable /\ r.ok, ann)
    BY <1>3, <2>1, <2>2, <2>3, LeavesCondition DEF Condition
  <2>5. links' = r.links /\ typable' = (typable /\ r.ok) /\ todo' = Tail(todo) /\ UNCHANGED <<tree, phase, ann>> /\ phase = "check"
    BY <1>3, <2>2, <2>3 DEF Condition
  <2> QED BY <2>4, <2>5, GoesOn
<1>4. CASE ForEnter
  <2>1. Doing(tree, todo, links, typable, ann, "visit", Here)
    BY <1>4, Begins DEF ForEnter
  <2>2. PICK r : r = UnifyAll(links, ForEqs(tree, Here))
    OBVIOUS
  <2>3. Checking(tree, Going(tree, todo), r.links, typable /\ r.ok, ann)
    BY <1>4, <2>1, <2>2, VisitsFor DEF ForEnter
  <2>4. todo' = Going(tree, todo)
    BY <1>4 DEF ForEnter, TRAVchildren, Going, Here
  <2>5. links' = r.links /\ typable' = (typable /\ r.ok) /\ UNCHANGED <<tree, phase, ann>> /\ phase = "check"
    BY <1>4, <2>2 DEF ForEnter, ForEqs
  <2> QED BY <2>3, <2>4, <2>5, GoesOn
<1> QED BY <1>1, <1>2, <1>3, <1>4

LEMMA AnnotateWrites ==
  ASSUME NEW t, Annotate(t)
  PROVE  ann' = Writes(ann, Here, t)
BY DEF Annotate, Writes

LEMMA KeepsUses ==
  ASSUME CheckInv, Var_ \/ ArrExpr_ \/ CastOrLiteral
  PROVE  CheckInv'
<1> USE DEF On, Node_, Kid, KidVar, Equate, Leave
<1>1. CASE Var_
  <2>1. Doing(tree, todo, links, typable, ann, "leave", Here)
    BY <1>1, Begins DEF Var_
  <2>2. PICK r : r = UnifyAll(links, << <<NodeVar(Here), IdVar(tree[Here].id)>> >>)
    OBVIOUS
  <2>3. PICK b : b = Writes(ann, Here, TypeOfTerm(r.links, NodeVar(Here)))
    OBVIOUS
  <2>4. Checking(tree, Tail(todo), r.links, typable /\ r.ok, b)
    BY <1>1, <2>1, <2>2, <2>3, LeavesVar DEF Var_
  <2>5. /\ links' = r.links /\ typable' = (typable /\ r.ok) /\ todo' = Tail(todo) /\ UNCHANGED <<tree, phase>> /\ phase = "check"
        /\ ann' = b
    BY <1>1, <2>2, <2>3, AnnotateWrites DEF Var_
  <2> QED BY <2>4, <2>5, GoesOn
<1>2. CASE ArrExpr_
  <2>1. Doing(tree, todo, links, typable, ann, "leave", Here)
    BY <1>2, Begins DEF ArrExpr_
  <2>0. PICK element : element = UnifyTypes(links, NodeVar(Here), IdVar(tree[Here].id)).links
    OBVIOUS
  <2>2. PICK r : r = UnifyAll(element, [i \in DOMAIN tree[Here].kids |-> <<IdVar(tree[Here].id), NodeVar(Append(Here, i))>>])
    OBVIOUS
  <2>3. PICK b : b = Writes(ann, Here, TypeOfTerm(r.links, NodeVar(Here)))
    OBVIOUS
  <2>4. Checking(tree, Tail(todo), r.links, typable /\ r.ok, b)
    BY <1>2, <2>0, <2>1, <2>2, <2>3, LeavesArrExpr DEF ArrExpr_
  <2>5. /\ links' = r.links /\ typable' = (typable /\ r.ok) /\ todo' = Tail(todo) /\ UNCHANGED <<tree, phase>> /\ phase = "check"
        /\ ann' = b
    BY <1>2, <2>0, <2>2, <2>3, AnnotateWrites DEF ArrExpr_
  <2> QED BY <2>4, <2>5, GoesOn
<1>3. CASE CastOrLiteral
  <2>1. Doing(tree, todo, links, typable, ann, "leave", Here)
    BY <1>3, Begins DEF CastOrLiteral
  <2>2. PICK r : r = UnifyAll(links, << <<NodeVar(Here), Base(tree[Here].type)>> >>)
    OBVIOUS
  <2>3. PICK b : b = Writes(ann, Here, tree[Here].type)
    OBVIOUS
  <2>4. Checking(tree, Tail(todo), r.links, typable /\ r.ok, b)
    BY <1>3, <2>1, <2>2, <2>3, LeavesCastOrLiteral DEF CastOrLiteral
  <2>5. /\ links' = r.links /\ typable' = (typable /\ r.ok) /\ todo' = Tail(todo) /\ UNCHANGED <<tree, phase>> /\ phase = "check"
        /\ ann' = b
    BY <1>3, <2>2, <2>3, AnnotateWrites DEF CastOrLiteral
  <2> QED BY <2>4, <2>5, GoesOn
<1> QED BY <1>1, <1>2, <1>3

LEMMA KeepsMonops ==
  ASSUME CheckInv, Negation \/ Not_ \/ ArrInit_
  PROVE  CheckInv'
<1> USE DEF On, Node_, Kid, KidVar, Equate, Leave
<1>1. CASE Not_
  <2>1. Doing(tree, todo, links, typable, ann, "leave", Here)
    BY <1>1, Begins DEF Not_
  <2>2. PICK r : r = UnifyAll(links, << <<NodeVar(Append(Here, 1)), Base("bool")>> >>)
    OBVIOUS
  <2>3. PICK b : b = Writes(ann, Here, "bool")
    OBVIOUS
  <2>4. Checking(tree, Tail(todo), r.links, typable /\ r.ok, b)
    BY <1>1, <2>1, <2>2, <2>3, LeavesNot DEF Not_
  <2>5. /\ links' = r.links /\ typable' = (typable /\ r.ok) /\ todo' = Tail(todo) /\ UNCHANGED <<tree, phase>> /\ phase = "check"
        /\ ann' = b
    BY <1>1, <2>2, <2>3, AnnotateWrites DEF Not_
  <2> QED BY <2>4, <2>5, GoesOn
<1>2. CASE Negation
  <2>1. Doing(tree, todo, links, typable, ann, "leave", Here)
    BY <1>2, Begins DEF Negation
  <2>2. PICK b : b = Writes(ann, Here, IF Is(links, NodeVar(Append(Here, 1)), "int") THEN "int" ELSE "float")
    OBVIOUS
  <2>3. Checking(tree, Tail(todo), links, typable /\ ~Is(links, NodeVar(Append(Here, 1)), "bool"), b)
    BY <1>2, <2>1, <2>2, LeavesNegation DEF Negation
  <2>4. /\ links' = links /\ typable' = (typable /\ ~Is(links, NodeVar(Append(Here, 1)), "bool")) /\ todo' = Tail(todo)
        /\ UNCHANGED <<tree, phase>> /\ phase = "check" /\ ann' = b
    BY <1>2, <2>2, AnnotateWrites DEF Negation
  <2> QED BY <2>3, <2>4, GoesOn
<1>3. CASE ArrInit_
  <2>1. Doing(tree, todo, links, typable, ann, "leave", Here)
    BY <1>3, Begins DEF ArrInit_
  <2>2. Checking(tree, Tail(todo), links, typable /\ Append(Here, 1) \in DOMAIN ann /\ ann[Append(Here, 1)] = "int", ann)
    BY <1>3, <2>1, LeavesArrInit DEF ArrInit_
  <2>3. /\ typable' = (typable /\ Append(Here, 1) \in DOMAIN ann /\ ann[Append(Here, 1)] = "int")
        /\ links' = links /\ todo' = Tail(todo) /\ UNCHANGED <<tree, phase, ann>> /\ phase = "check"
    BY <1>3 DEF ArrInit_
  <2> QED BY <2>2, <2>3, GoesOn
<1> QED BY <1>1, <1>2, <1>3

LEMMA KeepsCall ==
  ASSUME CheckInv, Call_
  PROVE  CheckInv'
<1> USE DEF On, Node_, Leave
<1>1. Doing(tree, todo, links, typable, ann, "leave", Here) /\ phase = "check" /\ tree[Here].kind = "call"
  BY Begins DEF Call_
<1>2. PICK t : t = Find(links, IdVar(tree[Here].id))
  OBVIOUS
<1>3. CASE ~IsFun(t)
  <2>1. Checking(tree, Tail(todo), links, typable, ann)
    BY <1>1, <1>2, <1>3, LeavesCallForward
  <2>2. UNCHANGED <<links, typable, ann, tree, phase>> /\ todo' = Tail(todo)
    BY <1>2, <1>3 DEF Call_
  <2> QED BY <1>1, <2>1, <2>2, GoesOn
<1>4. CASE IsFun(t)
  <2>1. PICK r : r = UnifyAll(links, CallEqs(Here, t))
    OBVIOUS
  <2>2. PICK b : b = IF tree[Here].in_stmt_pos THEN ann ELSE Writes(ann, Here, t[4][2])
    OBVIOUS
  <2>3. Checking(tree, Tail(todo), r.links, typable /\ r.ok, b)
    BY <1>1, <1>2, <1>4, <2>1, <2>2, LeavesCall
  <2>4. links' = r.links /\ typable' = (typable /\ r.ok)
    BY <1>2, <1>4, <2>1 DEF Call_, Equate, CallEqs, KidVar, Kid
  <2>5. ann' = b
    BY <1>2, <1>4, <2>2, AnnotateWrites DEF Call_
  <2>6. UNCHANGED <<tree, phase>> /\ todo' = Tail(todo)
    BY DEF Call_
  <2> QED BY <1>1, <2>3, <2>4, <2>5, <2>6, GoesOn
<1> QED BY <1>3, <1>4

LEMMA KeepsBinop ==
  ASSUME CheckInv, Binop_
  PROVE  CheckInv'
<1> USE DEF On, Node_, Leave
<1>1. Doing(tree, todo, links, typable, ann, "leave", Here) /\ phase = "check" /\ tree[Here].kind = "binop"
  BY Begins DEF Binop_
<1>2. PICK s : s = Find(links, NodeVar(Append(Here, 1)))
  OBVIOUS
<1>3. PICK t : t = Find(links, NodeVar(Append(Here, 2)))
  OBVIOUS
<1>4. PICK tied : tied = UnifyTypes(links, s, NodeVar(Append(Here, 2)))
  OBVIOUS
<1>5. PICK r : r = UnifyAll(tied.links, BinopEqs(Here, tree[Here].op, s))
  OBVIOUS
<1>6. PICK b : b = BinopWrites(ann, Here, BinopType(tree[Here].op, s, t))
  OBVIOUS
<1>7. BinopPairs(tree[Here].op, s) = BinopEqs(Here, tree[Here].op, s)
  BY DEF BinopPairs, BinopEqs
<1>8. Checking(tree, Tail(todo), r.links,
               typable /\ tied.ok /\ r.ok /\ ~(BoolForbidden(tree[Here].op, s, t) /\ Is(r.links, s, "bool")), b)
  BY <1>1, <1>2, <1>3, <1>4, <1>5, <1>6, LeavesBinop
<1>9. /\ links' = r.links
      /\ typable' = (typable /\ tied.ok /\ r.ok /\ ~(BoolForbidden(tree[Here].op, s, t) /\ Is(r.links, s, "bool")))
      /\ IF BinopType(tree[Here].op, s, t) = "unset" THEN UNCHANGED ann ELSE Annotate(BinopType(tree[Here].op, s, t))
      /\ todo' = Tail(todo) /\ UNCHANGED <<tree, phase>>
  BY <1>2, <1>3, <1>4, <1>5, <1>7 DEF Binop_, KidVar, Kid
<1>10. ann' = b
  BY <1>6, <1>9, AnnotateWrites DEF BinopWrites
<1> QED BY <1>1, <1>8, <1>9, <1>10, GoesOn

LEMMA KeepsFini ==
  ASSUME CheckInv, Fini
  PROVE  CheckInv'
BY DEF CheckInv, Fini

LEMMA NextInv == CheckInv /\ [Next]_vars => CheckInv'
<1> SUFFICES ASSUME CheckInv, [Next]_vars PROVE CheckInv'
  OBVIOUS
<1>1. CASE Visit \/ LeavePlain
  BY <1>1, KeepsVisiting
<1>2. CASE Declaration
  BY <1>2, KeepsFunHeader, KeepsFunDefEnter, KeepsFunDefCrash, KeepsDeclarations DEF Declaration
<1>3. CASE Statement
  BY <1>3, KeepsStatements DEF Statement
<1>4. CASE Expression
  BY <1>4, KeepsUses, KeepsMonops, KeepsCall, KeepsBinop DEF Expression
<1>5. CASE Fini
  BY <1>5, KeepsFini
<1>6. CASE UNCHANGED vars
  BY <1>6 DEF CheckInv, vars
<1> QED BY <1>1, <1>2, <1>3, <1>4, <1>5, <1>6 DEF Next

(* The traversal, the links, and the types written so far fit one another  *)
(* in every state (the handlers of trav_typecheck.c, one after the other). *)
THEOREM CheckerInvariant == Spec => []CheckInv
<1> QED BY InitInv, NextInv, PTL DEF Spec

-----------------------------------------------------------------------------
(***************************************************************************)
(* What is known in the end.                                               *)
(***************************************************************************)
Ended(T, l, a) ==
  /\ IsProgram(T) /\ LinksOK(T, <<>>, l)
  /\ \A p \in DOMAIN T : EnterFacts(T, l, p) /\ LeaveFacts(T, l, a, p)

LEMMA EndedIs == ASSUME CheckInv, phase = "accepted" PROVE Ended(tree, links, ann)
<1>1. IsProgram(tree) /\ Checking(tree, todo, links, typable, ann) /\ todo = <<>> /\ typable
  BY ProgramsAssumption DEF CheckInv
<1>2. LinksOK(tree, <<>>, links) /\ Known(tree, <<>>, links, ann)
  BY <1>1 DEF Checking
<1>3. DOMAIN <<>> = {}
  OBVIOUS
<1>4. \A p : Entered(<<>>, p) /\ Left(<<>>, p)
  BY <1>3 DEF Entered, Left
<1> QED BY <1>1, <1>2, <1>4 DEF Ended, Known

LEMMA DeclaredClass ==
  ASSUME NEW T, NEW l, NEW a, Ended(T, l, a), NEW at \in DOMAIN T, NEW d \in Declared(T[at])
  PROVE  Find(l, IdVar(d[1])) = Base(d[2])
<1>1. EnterFacts(T, l, at) /\ DeclarationLeft(T, l, at)
  BY DEF Ended, LeaveFacts
<1>2. CASE T[at].kind = "for"
  <2>1. Declared(T[at]) = {<<T[at].id, "int">>}
    BY <1>2 DEF Declared
  <2>2. d[1] = T[at].id /\ d[2] = "int"
    BY <2>1
  <2> QED BY <1>1, <1>2, <2>2 DEF EnterFacts
<1>3. CASE T[at].kind \in {"parameter", "vardec", "globaldef", "globaldec"}
  BY <1>1, <1>3 DEF DeclarationLeft
<1>4. CASE T[at].kind \notin {"for", "parameter", "vardec", "globaldef", "globaldec"}
  BY <1>4 DEF Declared
<1> QED BY <1>2, <1>3, <1>4

LEMMA NameClass ==
  ASSUME NEW T, NEW l, NEW a, Ended(T, l, a), NEW x \in VarNames(T)
  PROVE  Find(l, IdVar(x)) = Base(TypeOfId(T, x)) /\ TypeOfId(T, x) \in Values
<1>1. IsProgram(T) /\ Names(T)
  BY DEF Ended, IsProgram
<1>2. PICK at \in DOMAIN T : \E d \in Declared(T[at]) : d[1] = x /\ PlaceOf(T, x) = at /\ TypeOfId(T, x) = d[2]
  BY <1>1, NameDeclared
<1>3. PICK d \in Declared(T[at]) : d[1] = x /\ TypeOfId(T, x) = d[2]
  BY <1>2
<1>4. Find(l, IdVar(d[1])) = Base(d[2])
  BY DeclaredClass
<1>5. \E y, t : d = <<y, t>>
  BY <1>3 DEF Declared
<1>6. PICK y, t : d = <<y, t>>
  BY <1>5
<1>7. <<y, t>> \in Declared(T[at]) /\ d[2] = t
  BY <1>6
<1>8. t \in Values
  BY <1>1, <1>7, NamePair
<1> QED BY <1>3, <1>4, <1>7, <1>8

LEMMA NamesTyped == CheckInv => NamesHaveTheirTypes
<1> SUFFICES ASSUME CheckInv, phase = "accepted", NEW at \in DOMAIN tree
             PROVE  /\ \A d \in Declared(tree[at]) : TypeOfTerm(links, IdVar(d[1])) = d[2]
                    /\ tree[at].kind = "header" =>
                         LET params == Params(tree[at])
                             f == Find(links, IdVar(tree[at].id))
                         IN  /\ IsFun(f) /\ TypeOfTerm(links, f[4]) = tree[at].type
                             /\ [i \in DOMAIN f[3] |-> TypeOfTerm(links, f[3][i])]
                                  = [i \in DOMAIN params |-> params[i].type]
  BY DEF NamesHaveTheirTypes
<1>1. Ended(tree, links, ann)
  BY EndedIs
<1>2. IsProgram(tree) /\ Names(tree) /\ LinksOK(tree, <<>>, links) /\ Sound(links)
  BY <1>1 DEF Ended, IsProgram, LinksOK
<1>3. ASSUME NEW x \in VarNames(tree) PROVE TypeOfTerm(links, IdVar(x)) = TypeOfId(tree, x)
  <2>1. Find(links, IdVar(x)) = Base(TypeOfId(tree, x)) /\ IdVar(x) \in Plain(tree)
    BY <1>1, NameClass, PlainFacts
  <2> QED BY <1>2, <2>1, TermTypeFacts
<1>4. ASSUME NEW d \in Declared(tree[at]) PROVE TypeOfTerm(links, IdVar(d[1])) = d[2]
  <2>1. d[1] \in VarNames(tree) /\ TypeOfId(tree, d[1]) = d[2]
    BY <1>2, DeclaredHere
  <2> QED BY <1>3, <2>1
<1>5. ASSUME tree[at].kind = "header", NEW f, f = Find(links, IdVar(tree[at].id)), NEW params, params = Params(tree[at])
      PROVE  /\ IsFun(f) /\ TypeOfTerm(links, f[4]) = tree[at].type
             /\ [i \in DOMAIN f[3] |-> TypeOfTerm(links, f[3][i])] = [i \in DOMAIN params |-> params[i].type]
  <2>1. IsFun(f)
    BY <1>1, <1>5 DEF Ended, EnterFacts
  <2>2. tree[at].id \in FunNames(tree) /\ HeaderAt(tree, tree[at].id) = at
    BY <1>2, <1>5, HeaderHereOnly
  <2>3. Callee(tree, tree[at].id, f)
    BY <1>2, <1>5, <2>1, <2>2, CalleeFacts
  <2>4. f[3] = [i \in DOMAIN params |-> IdVar(params[i].id)] /\ f[4] = Base(tree[at].type)
    BY <1>5, <2>2, <2>3 DEF Callee
  <2>5. TypeOfTerm(links, f[4]) = tree[at].type
    <3>1. Find(links, f[4]) = Base(tree[at].type)
      BY <1>2, <2>4, FindFacts
    <3> QED BY <3>1, TermKinds DEF TypeOfTerm
  <2>6. ASSUME NEW i \in DOMAIN params PROVE TypeOfTerm(links, IdVar(params[i].id)) = params[i].type
    <3>1. params[i].id \in VarNames(tree) /\ TypeOfId(tree, params[i].id) = params[i].type
      BY <1>2, <1>5, ParamType
    <3> QED BY <1>3, <3>1
  <2> QED BY <2>1, <2>4, <2>5, <2>6
<1> QED BY <1>4, <1>5

LEMMA AnnotationsAre == CheckInv => AnnotationsRight
<1> SUFFICES ASSUME CheckInv, phase = "accepted", WellTyped(tree), NEW at \in DOMAIN tree,
                    tree[at].kind \in Expressions, tree[at].kind = "call" => ~tree[at].in_stmt_pos
             PROVE  Unsure(tree, at) \/ (at \in DOMAIN ann /\ ann[at] = TypeOf(tree, at))
  BY DEF AnnotationsRight
<1>1. Noted(tree, links, ann, at)
  BY EndedIs DEF Ended, LeaveFacts
<1> QED BY <1>1 DEF Noted

LEMMA RejectsErrors == CheckInv => RejectsOnlyErrors
BY DEF CheckInv, Checking, Proper, RejectsOnlyErrors

(***************************************************************************)
(* The class of an expression that the equations reach is that of its      *)
(* type.                                                                   *)
(***************************************************************************)
Reached(T, e) ==
  /\ e \in DOMAIN T /\ T[e].kind \in Expressions /\ ~Untied(T, e)
  /\ ~(T[e].kind = "arrexpr" /\ Early(T, e))

Right(T, l, e) == Find(l, NodeVar(e)) = Base(TypeOf(T, e)) /\ TypeOf(T, e) \in Values \cup {"void"}

LEMMA RightHere ==
  ASSUME NEW T, NEW l, NEW a, Ended(T, l, a), NEW e, Reached(T, e), ~IsArithmetic(T[e])
  PROVE  Right(T, l, e)
<1>1. IsProgram(T) /\ e \in DOMAIN T /\ T[e].kind \in Expressions /\ Syntax(T[e])
  BY DEF Ended, Reached, IsProgram
<1>2. OperatorLeft(T, l, e) /\ UseLeft(T, l, e) /\ CallLeft(T, l, e)
  BY <1>1 DEF Ended, LeaveFacts
<1>3. T[e].kind # "monop" /\ ~Forward(T, e)
  BY <1>1, UntiedFacts DEF Reached
<1>4. TypeOf(T, e) = OwnType(T, T[e])
  <2>1. ~Passes(T[e])
    BY <1>3 DEF Passes
  <2> QED BY <1>1, <2>1, TypeOfFacts
<1>5. CASE T[e].kind \in {"literal", "cast"}
  <2>1. Find(l, NodeVar(e)) = Base(T[e].type)
    BY <1>2, <1>5 DEF OperatorLeft
  <2>2. OwnType(T, T[e]) = T[e].type
    BY <1>5 DEF OwnType
  <2>3. T[e].type \in Values
    BY <1>1, <1>5 DEF Syntax
  <2> QED BY <1>4, <2>1, <2>2, <2>3 DEF Right
<1>6. CASE T[e].kind \in {"var", "arrexpr"}
  <2>1. TypeOf(T, e) = TypeOfId(T, T[e].id) /\ T[e].id \in VarNames(T)
    BY <1>1, <1>6, UseFacts
  <2>2. Tied(l, NodeVar(e), IdVar(T[e].id))
    BY <1>2, <1>6 DEF UseLeft, Reached
  <2>3. Find(l, IdVar(T[e].id)) = Base(TypeOfId(T, T[e].id)) /\ TypeOfId(T, T[e].id) \in Values
    BY <2>1, NameClass
  <2> QED BY <2>1, <2>2, <2>3 DEF Right, Tied
<1>7. CASE T[e].kind = "call"
  <2>1. T[HeaderAt(T, T[e].id)].type \in Values \cup {"void"} /\ TypeOf(T, e) = T[HeaderAt(T, T[e].id)].type
    BY <1>1, <1>7, CallFacts
  <2>2. Find(l, NodeVar(e)) = Base(T[HeaderAt(T, T[e].id)].type)
    BY <1>2, <1>3, <1>7 DEF CallLeft
  <2> QED BY <2>1, <2>2 DEF Right
<1>8. CASE T[e].kind = "binop"
  <2>1. BinopOf(T, e) /\ T[e].op \notin Arithmetic
    BY <1>1, <1>8, BinopFacts DEF IsArithmetic
  <2>2. CASE T[e].op = "mod"
    <3>1. Find(l, NodeVar(e)) = Base("int") /\ TypeOf(T, e) = "int"
      BY <1>2, <1>8, <2>1, <2>2 DEF OperatorLeft, BinopOf
    <3> QED BY <3>1 DEF Right, Values
  <2>3. CASE T[e].op \in Logical \cup Equality \cup Ordering
    <3>1. Find(l, NodeVar(e)) = Base("bool") /\ TypeOf(T, e) = "bool"
      BY <1>2, <1>8, <2>1, <2>3 DEF OperatorLeft, BinopOf
    <3> QED BY <3>1 DEF Right, Values
  <2> QED BY <2>1, <2>2, <2>3 DEF BinopOf
<1> QED BY <1>1, <1>3, <1>5, <1>6, <1>7, <1>8 DEF Expressions

LEMMA RightAbove ==
  ASSUME NEW T, NEW l, NEW a, Ended(T, l, a), NEW e, Reached(T, e), IsArithmetic(T[e]), NEW k, k = Append(e, 1)
  PROVE  Reached(T, k) /\ (Right(T, l, k) => Right(T, l, e))
<1>1. IsProgram(T) /\ IsTree(T) /\ e \in DOMAIN T /\ T[e].kind = "binop" /\ T[e].op \in Arithmetic
  BY DEF Ended, Reached, IsProgram, IsArithmetic
<1>2. BinopOf(T, e)
  BY <1>1, BinopFacts
<1>3. 1 \in DOMAIN T[e].kids /\ k \in DOMAIN T /\ T[k] = T[e].kids[1] /\ T[k].kind \in Expressions
  BY <1>1, <1>2, TreeFacts DEF BinopOf
<1>4. ~Early(T, k)
  BY <1>1, <1>3, NotEarlyKid
<1>5. ~Untied(T, k)
  BY <1>1, UntiedFacts DEF Reached
<1>6. Tied(l, NodeVar(k), NodeVar(e))
  BY <1>1 DEF Ended, LeaveFacts, OperatorLeft
<1>7. TypeOf(T, e) = TypeOf(T, k)
  BY <1>1, <1>2 DEF BinopOf
<1> QED BY <1>3, <1>4, <1>5, <1>6, <1>7 DEF Reached, Right, Tied

LEMMA ClassRight ==
  ASSUME NEW T, NEW l, NEW a, Ended(T, l, a), NEW e, Reached(T, e)
  PROVE  Right(T, l, e)
<1>1. IsTree(T)
  BY DEF Ended, IsProgram
<1>2. PICK depth \in Nat : \A at \in DOMAIN T : Len(at) <= depth
  <2>1. PICK depth \in 0 .. Cardinality(DOMAIN T) : \A at \in DOMAIN T : Len(at) <= depth
    BY <1>1 DEF IsTree
  <2> QED BY <2>1
<1>3. \A p \in DOMAIN T : p \in Seq(Nat) /\ Len(p) \in Nat
  BY <1>1, TreeFacts
<1> DEFINE S == {n \in Nat : \A p : Reached(T, p) /\ depth <= Len(p) + n => Right(T, l, p)}
<1>4. ASSUME NEW p, Reached(T, p),
             \A k : Reached(T, k) /\ Len(k) = Len(p) + 1 => Right(T, l, k)
      PROVE  Right(T, l, p)
  <2>1. CASE ~IsArithmetic(T[p])
    BY <1>4, <2>1, RightHere
  <2>2. CASE IsArithmetic(T[p])
    <3>1. PICK k : k = Append(p, 1)
      OBVIOUS
    <3>2. Reached(T, k) /\ (Right(T, l, k) => Right(T, l, p))
      BY <1>4, <2>2, <3>1, RightAbove
    <3>3. p \in Seq(Nat) /\ 1 \in Nat
      BY <1>3, <1>4 DEF Reached
    <3>4. Len(k) = Len(p) + 1
      BY <3>1, <3>3, ChildFacts
    <3> QED BY <1>4, <3>2, <3>4
  <2> QED BY <2>1, <2>2
<1>5. 0 \in S
  <2>1. SUFFICES ASSUME NEW p, Reached(T, p), depth <= Len(p) + 0 PROVE Right(T, l, p)
    OBVIOUS
  <2>2. \A k : Reached(T, k) => Len(k) # Len(p) + 1
    <3>1. p \in DOMAIN T
      BY <2>1 DEF Reached
    <3>2. \A k : Reached(T, k) => k \in DOMAIN T
      BY DEF Reached
    <3> QED BY <1>2, <1>3, <2>1, <3>1, <3>2
  <2>3. \A k : Reached(T, k) /\ Len(k) = Len(p) + 1 => Right(T, l, k)
    BY <2>2
  <2> QED BY <1>4, <2>1, <2>3
<1>6. ASSUME NEW n \in Nat, n \in S PROVE n + 1 \in S
  <2>1. SUFFICES ASSUME NEW p, Reached(T, p), depth <= Len(p) + (n + 1) PROVE Right(T, l, p)
    OBVIOUS
  <2>2. ASSUME NEW k, Reached(T, k), Len(k) = Len(p) + 1 PROVE Right(T, l, k)
    <3>1. Len(p) \in Nat /\ Len(k) \in Nat
      BY <1>3, <2>1, <2>2 DEF Reached
    <3>2. depth <= Len(k) + n
      BY <1>2, <2>1, <2>2, <3>1
    <3> QED BY <1>6, <2>2, <3>2
  <2> QED BY <1>4, <2>1, <2>2
<1> HIDE DEF S
<1>7. \A n \in Nat : n \in S
  BY <1>5, <1>6, AllNumbers
<1>8. depth \in S
  BY <1>7
<1>9. depth <= Len(e) + depth
  BY <1>2, <1>3 DEF Reached
<1> QED BY <1>8, <1>9 DEF S

-----------------------------------------------------------------------------
(***************************************************************************)
(* What is asked of a child of an accepted program, the child is, unless   *)
(* it is excused.                                                          *)
(***************************************************************************)
Met(T, at, c) == ~Excused(T, at, c.of) => TypeOf(T, c.of) \in c.types

LEMMA AskIs == \A at, i, types : Ask(at, i, types).of = Append(at, i) /\ Ask(at, i, types).types = types
BY DEF Ask

LEMMA KidRight ==
  ASSUME NEW T, NEW l, NEW a, Ended(T, l, a), NEW at \in DOMAIN T, NEW i \in DOMAIN T[at].kids,
         T[at].kids[i].kind \in Expressions, NEW k, k = Append(at, i), ~Untied(T, k),
         T[at].kind \in {"for", "return"} => T[k].kind # "arrexpr"
  PROVE  k \in DOMAIN T /\ T[k] = T[at].kids[i] /\ Right(T, l, k)
<1>1. IsTree(T)
  BY DEF Ended, IsProgram
<1>2. k \in DOMAIN T /\ T[k] = T[at].kids[i]
  BY <1>1, TreeFacts
<1>3. T[at].kind \notin {"for", "return"} => ~Early(T, k)
  BY <1>1, NotEarlyKid
<1>4. Reached(T, k)
  BY <1>2, <1>3 DEF Reached
<1> QED BY <1>2, <1>4, ClassRight

LEMMA RightIs ==
  ASSUME NEW T, NEW l, NEW k, Right(T, l, k), NEW b, Find(l, NodeVar(k)) = Base(b)
  PROVE  TypeOf(T, k) = b
BY Apart DEF Right

(* A kind of node that asks one thing of one child, the child's class.     *)
LEMMA MetByClass ==
  ASSUME NEW T, NEW l, NEW a, Ended(T, l, a), NEW at \in DOMAIN T, NEW i \in DOMAIN T[at].kids,
         T[at].kids[i].kind \in Expressions,
         NEW b, Find(l, NodeVar(Append(at, i))) = Base(b), NEW types, b \in types
  PROVE  Met(T, at, Ask(at, i, types))
<1>1. PICK k : k = Append(at, i)
  OBVIOUS
<1>2. k \in DOMAIN T /\ T[k] = T[at].kids[i]
  BY <1>1, TreeFacts DEF Ended, IsProgram
<1> DEFINE c == Ask(at, i, types)
<1>7. c.of = k /\ c.types = types
  BY <1>1, AskIs
<1> HIDE DEF c
<1>8. SUFFICES Met(T, at, c)
  BY DEF c
<1>3. SUFFICES ASSUME ~Excused(T, at, k) PROVE TypeOf(T, k) \in types
  BY <1>7 DEF Met
<1>4. ~Untied(T, k) /\ (T[at].kind \in {"for", "return"} => T[k].kind # "arrexpr")
  BY <1>3 DEF Excused
<1>5. Right(T, l, k)
  BY <1>1, <1>4, KidRight
<1>6. TypeOf(T, k) = b
  BY <1>1, <1>5, RightIs
<1> QED BY <1>6

LEMMA MetByStatement ==
  ASSUME NEW T, NEW l, NEW a, Ended(T, l, a), NEW at \in DOMAIN T,
         T[at].kind \in {"if", "while", "dowhile", "for"}, NEW c \in Asked(T, at)
  PROVE  Met(T, at, c)
<1>1. Syntax(T[at]) /\ AskedOf(T, at) /\ EnterFacts(T, l, at) /\ StatementLeft(T, l, at)
  BY AskedFacts DEF Ended, IsProgram, LeaveFacts
<1>2. CASE T[at].kind \in {"if", "while"}
  <2>1. c = Ask(at, 1, {"bool"}) /\ 1 \in DOMAIN T[at].kids /\ T[at].kids[1].kind \in Expressions
    BY <1>1, <1>2 DEF AskedOf, Syntax, Exprs
  <2>2. Find(l, NodeVar(Append(at, 1))) = Base("bool")
    BY <1>1, <1>2 DEF StatementLeft
  <2> QED BY <2>1, <2>2, MetByClass
<1>3. CASE T[at].kind = "dowhile"
  <2>1. PICK n : n = Len(T[at].kids)
    OBVIOUS
  <2>2. c = Ask(at, n, {"bool"}) /\ n \in DOMAIN T[at].kids /\ T[at].kids[n].kind \in Expressions
    BY <1>1, <1>3, <2>1 DEF AskedOf, Syntax, Exprs
  <2>3. Find(l, NodeVar(Append(at, n))) = Base("bool")
    BY <1>1, <1>3, <2>1 DEF StatementLeft
  <2> QED BY <2>2, <2>3, MetByClass
<1>4. CASE T[at].kind = "for"
  <2>1. PICK i \in 1 .. T[at].bounds : c = Ask(at, i, {"int"})
    BY <1>1, <1>4 DEF AskedOf
  <2>2. i \in DOMAIN T[at].kids /\ T[at].kids[i].kind \in Expressions
    BY <1>1, <1>4 DEF Syntax, Exprs
  <2>3. Find(l, NodeVar(Append(at, i))) = Base("int")
    BY <1>1, <1>4 DEF EnterFacts
  <2> QED BY <2>1, <2>2, <2>3, MetByClass
<1> QED BY <1>2, <1>3, <1>4

LEMMA MetByReturn ==
  ASSUME NEW T, NEW l, NEW a, Ended(T, l, a), NEW at \in DOMAIN T, T[at].kind = "return", NEW c \in Asked(T, at)
  PROVE  Met(T, at, c)
<1>1. IsProgram(T) /\ IsTree(T) /\ Syntax(T[at]) /\ AskedOf(T, at)
  BY AskedFacts DEF Ended, IsProgram
<1>2. PICK i \in DOMAIN T[at].kids : c = Ask(at, i, {ReturnType(T, at)} \ {"void"})
  BY <1>1 DEF AskedOf
<1>3. i = 1 /\ T[at].kids[i].kind \in Expressions
  <2>1. Len(T[at].kids) <= 1 /\ Exprs(T[at], DOMAIN T[at].kids)
    BY <1>1 DEF Syntax
  <2>2. i \in 1 .. Len(T[at].kids) /\ Len(T[at].kids) \in Nat
    BY <1>1, <1>2, TreeFacts
  <2>3. i = 1
    BY <2>1, <2>2
  <2> QED BY <2>1, <2>3 DEF Exprs
<1>4. CASE ~OfOuterList(T, at)
  BY <1>2, <1>4, AskIs DEF Met, Excused
<1>5. CASE OfOuterList(T, at)
  <2>1. at # <<>>
    <3>1. Front(<<>>) = <<>>
      BY DEF Front
    <3> QED BY <1>5, <3>1 DEF OfOuterList
  <2>2. PICK f, k : f = Front(at) /\ k = Last(at)
    OBVIOUS
  <2>3. at \in Seq(Nat)
    BY <1>1, TreeFacts
  <2>4. at = Append(f, k) /\ f \in DOMAIN T /\ k \in DOMAIN T[f].kids /\ T[f].kind = "fundef"
    BY <1>1, <1>5, <2>1, <2>2, <2>3, FrontFacts DEF IsTree, OfOuterList
  <2>5. T[f].kids[k] = T[at]
    BY <1>1, <2>4, TreeFacts
  <2>6. ReturnType(T, at) = T[f].kids[1].type
    BY <1>1, <2>4, <2>5, OuterReturn
  <2>7. k \in OuterReturns(T[f])
    BY <2>4, <2>5 DEF OuterReturns
  <2>8. T[f].kids[1].type # "void" /\ Find(l, NodeVar(Append(Append(f, k), 1))) = Base(T[f].kids[1].type)
    BY <2>4, <2>7 DEF Ended, EnterFacts
  <2>9. Find(l, NodeVar(Append(at, i))) = Base(ReturnType(T, at)) /\ ReturnType(T, at) \in {ReturnType(T, at)} \ {"void"}
    BY <1>3, <2>4, <2>6, <2>8
  <2> QED BY <1>2, <1>3, <2>9, MetByClass
<1> QED BY <1>4, <1>5

LEMMA Unmet ==
  ASSUME NEW T, NEW at, NEW i, NEW types
  PROVE  Met(T, at, Ask(at, i, types)) <=> Excused(T, at, Append(at, i)) \/ TypeOf(T, Append(at, i)) \in types
<1> DEFINE c == Ask(at, i, types)
<1>1. c.of = Append(at, i) /\ c.types = types
  BY AskIs
<1> HIDE DEF c
<1>2. Met(T, at, c) <=> Excused(T, at, Append(at, i)) \/ TypeOf(T, Append(at, i)) \in types
  BY <1>1 DEF Met
<1> QED BY <1>2 DEF c

LEMMA MetByAssign ==
  ASSUME NEW T, NEW l, NEW a, Ended(T, l, a), NEW at \in DOMAIN T, T[at].kind = "assign", NEW c \in Asked(T, at)
  PROVE  Met(T, at, c)
<1>1. IsProgram(T) /\ IsTree(T) /\ Names(T) /\ Syntax(T[at]) /\ AskedOf(T, at) /\ StatementLeft(T, l, at)
  BY AskedFacts DEF Ended, IsProgram, LeaveFacts
<1>2. PICK x : x = T[at].kids[1].id
  OBVIOUS
<1>3. c = Ask(at, 2, {TypeOfId(T, x)})
  BY <1>1, <1>2 DEF AskedOf
<1>4. Len(T[at].kids) = 2 /\ T[at].kids[1].kind = "varlet"
  BY <1>1 DEF Syntax
<1>5. 1 \in DOMAIN T[at].kids /\ 2 \in DOMAIN T[at].kids
  BY <1>1, <1>4, TreeFacts
<1>6. PICK k, v : k = Append(at, 1) /\ v = Append(at, 2)
  OBVIOUS
<1>7. k \in DOMAIN T /\ v \in DOMAIN T /\ T[k] = T[at].kids[1] /\ T[v] = T[at].kids[2]
  BY <1>1, <1>5, <1>6, TreeFacts
<1>8. CASE T[at].kids[2].kind = "arrinit"
  <2>1. T[v].type = TypeOfId(T, x)
    BY <1>1, <1>2, <1>7, <1>8 DEF Names
  <2>2. ~Passes(T[v]) /\ OwnType(T, T[v]) = T[v].type
    BY <1>7, <1>8 DEF Passes, IsArithmetic, OwnType
  <2>3. TypeOf(T, v) = TypeOfId(T, x)
    BY <1>1, <1>7, <2>1, <2>2, TypeOfFacts
  <2> QED BY <1>3, <1>6, <2>3, Unmet
<1>9. CASE T[at].kids[2].kind # "arrinit"
  <2>1. T[at].kids[2].kind \in Expressions
    BY <1>1, <1>9 DEF Syntax, Exprs
  <2>2. Tied(l, NodeVar(k), NodeVar(v))
    BY <1>1, <1>6 DEF StatementLeft
  <2>3. Tied(l, IdVar(x), NodeVar(k))
    BY <1>2, <1>4, <1>7 DEF Ended, LeaveFacts, StatementLeft
  <2>4. x \in VarNames(T)
    BY <1>1, <1>2, <1>4, <1>7 DEF Names
  <2>5. Find(l, IdVar(x)) = Base(TypeOfId(T, x))
    BY <2>4, NameClass
  <2>6. Find(l, NodeVar(Append(at, 2))) = Base(TypeOfId(T, x))
    BY <1>6, <2>2, <2>3, <2>5 DEF Tied
  <2> QED BY <1>3, <1>5, <2>1, <2>6, MetByClass
<1> QED BY <1>8, <1>9

LEMMA MetByUse ==
  ASSUME NEW T, NEW l, NEW a, Ended(T, l, a), NEW at \in DOMAIN T,
         T[at].kind \in {"varlet", "arrexpr", "vardec", "globaldef", "arrinit"}, NEW c \in Asked(T, at)
  PROVE  Met(T, at, c)
<1>1. IsProgram(T) /\ IsTree(T) /\ Names(T) /\ Syntax(T[at]) /\ AskedOf(T, at) /\ StatementLeft(T, l, at) /\ UseLeft(T, l, at)
  BY AskedFacts DEF Ended, IsProgram, LeaveFacts
<1>2. PICK i \in DOMAIN T[at].kids : c = Ask(at, i, {"int"})
  BY <1>1 DEF AskedOf
<1>3. CASE T[at].kind = "varlet"
  BY <1>2, <1>3, Unmet DEF Excused
<1>4. CASE T[at].kind \in {"vardec", "globaldef"}
  BY <1>1, <1>2, <1>4, DimensionsAreInts, Unmet
<1>5. CASE T[at].kind = "arrexpr"
  <2>1. CASE NotOfInts(T, T[at])
    BY <1>2, <1>5, <2>1, Unmet DEF Excused
  <2>2. CASE ~NotOfInts(T, T[at])
    <3>1. T[at].kids[i].kind \in Expressions /\ T[at].id \in VarNames(T)
      BY <1>1, <1>2, <1>5 DEF Syntax, Exprs, Names
    <3>2. Find(l, IdVar(T[at].id)) = Base("int")
      BY <2>2, <3>1, NameClass DEF NotOfInts
    <3>3. Find(l, NodeVar(Append(at, i))) = Base("int")
      BY <1>1, <1>2, <1>5, <3>2 DEF UseLeft, Tied
    <3> QED BY <1>2, <3>1, <3>3, MetByClass
  <2> QED BY <2>1, <2>2
<1>6. CASE T[at].kind = "arrinit"
  <2>1. Len(T[at].kids) = 1 /\ Exprs(T[at], {1})
    BY <1>1, <1>6 DEF Syntax
  <2>2. i = 1
    BY <1>1, <1>2, <2>1, TreeFacts
  <2>3. T[at].kids[1].kind \in Expressions
    BY <2>1 DEF Exprs
  <2>4. PICK k : k = Append(at, 1)
    OBVIOUS
  <2>5. k \in DOMAIN T /\ T[k] = T[at].kids[1]
    BY <1>1, <1>2, <2>2, <2>4, TreeFacts
  <2>6. CASE T[k].kind = "monop"
    <3>1. Untied(T, k)
      BY <1>1, <2>5, <2>6, UntiedFacts DEF IsArithmetic
    <3> QED BY <1>2, <2>2, <2>4, <3>1, Unmet DEF Excused
  <2>7. CASE T[k].kind # "monop"
    <3>1. Find(l, NodeVar(Append(at, 1))) = Base("int")
      BY <1>1, <1>6, <2>4, <2>7 DEF StatementLeft
    <3> QED BY <1>2, <2>2, <2>3, <3>1, MetByClass
  <2> QED BY <2>6, <2>7
<1> QED BY <1>3, <1>4, <1>5, <1>6

LEMMA MetByCall ==
  ASSUME NEW T, NEW l, NEW a, Ended(T, l, a), NEW at \in DOMAIN T, T[at].kind = "call", NEW c \in Asked(T, at)
  PROVE  Met(T, at, c)
<1>1. IsProgram(T) /\ Syntax(T[at]) /\ AskedOf(T, at) /\ CallLeft(T, l, at)
  BY AskedFacts DEF Ended, IsProgram, LeaveFacts
<1>2. PICK H : H = HeaderAt(T, T[at].id)
  OBVIOUS
<1>3. PICK i \in DOMAIN Params(T[H]) : c = Ask(at, i, {Params(T[H])[i].type})
  <2>1. Asked(T, at) = {Ask(at, i, {Params(T[HeaderAt(T, T[at].id)])[i].type}) :
                          i \in DOMAIN Params(T[HeaderAt(T, T[at].id)])}
    BY <1>1 DEF AskedOf
  <2>2. Asked(T, at) = {Ask(at, i, {Params(T[H])[i].type}) : i \in DOMAIN Params(T[H])}
    BY <1>2, <2>1
  <2> QED BY <2>2
<1>4. H \in DOMAIN T /\ T[H].kind = "header" /\ DOMAIN Params(T[H]) = DOMAIN T[at].kids
  BY <1>1, <1>2, CallFacts
<1>5. i \in DOMAIN T[at].kids /\ T[at].kids[i].kind \in Expressions
  BY <1>1, <1>3, <1>4 DEF Syntax, Exprs
<1>6. CASE Forward(T, at)
  BY <1>3, <1>6, Unmet DEF Excused
<1>7. CASE ~Forward(T, at)
  <2>1. Tied(l, NodeVar(Append(at, i)), IdVar(Params(T[H])[i].id))
    BY <1>1, <1>2, <1>3, <1>7 DEF CallLeft
  <2>2. Params(T[H])[i].id \in VarNames(T) /\ TypeOfId(T, Params(T[H])[i].id) = Params(T[H])[i].type
    BY <1>1, <1>3, <1>4, ParamType
  <2>3. Find(l, IdVar(Params(T[H])[i].id)) = Base(Params(T[H])[i].type)
    BY <2>2, NameClass
  <2>4. Find(l, NodeVar(Append(at, i))) = Base(Params(T[H])[i].type)
    BY <2>1, <2>3 DEF Tied
  <2> QED BY <1>3, <1>5, <2>4, MetByClass
<1> QED BY <1>6, <1>7

LEMMA OperandTypesAre ==
  /\ OperandTypes("not") = {"bool"} /\ OperandTypes("mod") = {"int"} /\ OperandTypes("neg") = {"int", "float"}
  /\ \A op \in {"add", "mul"} \cup Equality : OperandTypes(op) = Values
  /\ \A op \in {"sub", "div"} \cup Ordering : OperandTypes(op) = {"int", "float"}
  /\ \A op \in Logical : OperandTypes(op) = {"bool"}
BY DEF OperandTypes, Equality, Ordering, Logical, Values

(* Operands of operators that refuse bools.                                *)
LEMMA NotABool ==
  ASSUME NEW T, NEW l, NEW a, Ended(T, l, a), NEW at \in DOMAIN T,
         \/ T[at].kind = "monop" /\ T[at].op = "neg"
         \/ T[at].kind = "binop" /\ T[at].op \in Ordering \cup {"sub", "div"},
         NEW k, k = Append(at, 1), Right(T, l, k), ~Excused(T, at, k)
  PROVE  TypeOf(T, k) \in {"int", "float"}
<1>1. TypeOf(T, k) # "void"
  BY DEF Excused
<1>2. ASSUME TypeOf(T, k) = "bool" PROVE FALSE
  <2>1. ~BoolUnseen(T, at, k)
    BY DEF Excused
  <2>2. \E i \in DOMAIN T[at].kids : ~Unknown(T, Append(at, i))
    BY <1>2, <2>1 DEF BoolUnseen
  <2>3. NoBool(T, l, at)
    BY DEF Ended, LeaveFacts
  <2>4. PICK u : u # "bool" /\ Find(l, NodeVar(Append(at, 1))) = Base(u)
    BY <2>2, <2>3 DEF NoBool
  <2> QED BY <1>2, <2>4, RightIs
<1> QED BY <1>1, <1>2 DEF Right, Values

LEMMA MetByMonop ==
  ASSUME NEW T, NEW l, NEW a, Ended(T, l, a), NEW at \in DOMAIN T, T[at].kind \in {"monop", "cast"},
         NEW c \in Asked(T, at)
  PROVE  Met(T, at, c)
<1>1. IsProgram(T) /\ IsTree(T) /\ Syntax(T[at]) /\ AskedOf(T, at) /\ OperatorLeft(T, l, at)
  BY AskedFacts DEF Ended, IsProgram, LeaveFacts
<1>2. Len(T[at].kids) = 1 /\ T[at].kids[1].kind \in Expressions
  BY <1>1 DEF Syntax, Exprs
<1>3. 1 \in DOMAIN T[at].kids
  BY <1>1, <1>2, TreeFacts
<1>4. PICK k : k = Append(at, 1)
  OBVIOUS
<1>5. ~Excused(T, at, k) => Right(T, l, k)
  <2>1. SUFFICES ASSUME ~Excused(T, at, k) PROVE Right(T, l, k)
    OBVIOUS
  <2>2. ~Untied(T, k)
    BY <2>1 DEF Excused
  <2> QED BY <1>2, <1>3, <1>4, <2>2, KidRight
<1>6. ~Excused(T, at, k) => TypeOf(T, k) # "void"
  BY DEF Excused
<1>7. CASE T[at].kind = "cast"
  <2>1. c = Ask(at, 1, Values)
    BY <1>1, <1>7 DEF AskedOf
  <2>2. ~Excused(T, at, k) => TypeOf(T, k) \in Values
    BY <1>5, <1>6 DEF Right
  <2> QED BY <1>4, <2>1, <2>2, Unmet
<1>8. CASE T[at].kind = "monop" /\ T[at].op = "not"
  <2>1. c = Ask(at, 1, OperandTypes("not"))
    BY <1>1, <1>8 DEF AskedOf
  <2>2. "bool" \in OperandTypes("not")
    BY OperandTypesAre
  <2>3. Find(l, NodeVar(Append(at, 1))) = Base("bool")
    BY <1>1, <1>8 DEF OperatorLeft
  <2> QED BY <1>2, <1>3, <2>1, <2>2, <2>3, MetByClass
<1>9. CASE T[at].kind = "monop" /\ T[at].op = "neg"
  <2>1. c = Ask(at, 1, OperandTypes("neg"))
    BY <1>1, <1>9 DEF AskedOf
  <2>2. OperandTypes("neg") = {"int", "float"}
    BY OperandTypesAre
  <2>3. ~Excused(T, at, k) => TypeOf(T, k) \in {"int", "float"}
    BY <1>4, <1>5, <1>9, NotABool
  <2> QED BY <1>4, <2>1, <2>2, <2>3, Unmet
<1> QED BY <1>1, <1>7, <1>8, <1>9 DEF Syntax

LEMMA MetByBinop ==
  ASSUME NEW T, NEW l, NEW a, Ended(T, l, a), NEW at \in DOMAIN T, T[at].kind = "binop", NEW c \in Asked(T, at)
  PROVE  Met(T, at, c)
<1> DEFINE op == T[at].op
<1>1. IsProgram(T) /\ IsTree(T) /\ AskedOf(T, at) /\ OperatorLeft(T, l, at) /\ BinopOf(T, at)
  BY AskedFacts, BinopFacts DEF Ended, IsProgram, LeaveFacts
<1>2. PICK k, v : k = Append(at, 1) /\ v = Append(at, 2)
  OBVIOUS
<1>3. \A i \in {1, 2} : i \in DOMAIN T[at].kids /\ T[at].kids[i].kind \in Expressions
  BY <1>1 DEF BinopOf
<1>4. ~Untied(T, k) => Right(T, l, k)
  <2>1. 1 \in DOMAIN T[at].kids /\ T[at].kids[1].kind \in Expressions
    BY <1>3
  <2> QED BY <1>2, <2>1, KidRight
<1>5. ~Untied(T, v) => Right(T, l, v)
  <2>1. 2 \in DOMAIN T[at].kids /\ T[at].kids[2].kind \in Expressions
    BY <1>3
  <2> QED BY <1>2, <2>1, KidRight
<1>6. Tied(l, NodeVar(k), NodeVar(v))
  BY <1>1, <1>2 DEF OperatorLeft
<1>7. CASE c = Ask(at, 2, {TypeOf(T, k)})
  <2>1. SUFFICES ASSUME ~Excused(T, at, v) PROVE TypeOf(T, v) = TypeOf(T, k)
    BY <1>2, <1>7, Unmet
  <2>2. ~Untied(T, v) /\ ~Untied(T, k)
    BY <1>2, <2>1 DEF Excused
  <2>3. Find(l, NodeVar(v)) = Base(TypeOf(T, k))
    BY <1>4, <1>6, <2>2 DEF Tied, Right
  <2> QED BY <1>5, <2>2, <2>3, RightIs
<1>8. CASE c = Ask(at, 1, OperandTypes(op))
  <2>1. SUFFICES ASSUME ~Excused(T, at, k) PROVE TypeOf(T, k) \in OperandTypes(op)
    BY <1>2, <1>8, Unmet
  <2>2. Right(T, l, k)
    BY <1>4, <2>1 DEF Excused
  <2>3. TypeOf(T, k) # "void"
    BY <2>1 DEF Excused
  <2>4. CASE op \in {"add", "mul"} \cup Equality
    BY <2>2, <2>3, <2>4, OperandTypesAre DEF Right
  <2>5. CASE op \in Ordering \cup {"sub", "div"}
    <3>1. TypeOf(T, k) \in {"int", "float"}
      BY <1>2, <2>1, <2>2, <2>5, NotABool
    <3>2. OperandTypes(op) = {"int", "float"}
      BY <2>5, OperandTypesAre
    <3> QED BY <3>1, <3>2
  <2>6. CASE op = "mod"
    <3>1. Find(l, NodeVar(at)) = Base("int") /\ Tied(l, NodeVar(k), NodeVar(at))
      BY <1>1, <1>2, <2>6 DEF OperatorLeft
    <3>2. TypeOf(T, k) = "int"
      BY <2>2, <3>1, RightIs DEF Tied
    <3>3. OperandTypes(op) = {"int"}
      BY <2>6, OperandTypesAre
    <3> QED BY <3>2, <3>3
  <2>7. CASE op \in Logical
    <3>1. Find(l, NodeVar(at)) = Base("bool") /\ Tied(l, NodeVar(k), NodeVar(at))
      BY <1>1, <1>2, <2>7 DEF OperatorLeft
    <3>2. TypeOf(T, k) = "bool"
      BY <2>2, <3>1, RightIs DEF Tied
    <3>3. OperandTypes(op) = {"bool"}
      BY <2>7, OperandTypesAre
    <3> QED BY <3>2, <3>3
  <2> QED BY <1>1, <2>4, <2>5, <2>6, <2>7 DEF BinopOf, Arithmetic
<1> QED BY <1>1, <1>2, <1>7, <1>8 DEF AskedOf

LEMMA AllMet ==
  ASSUME NEW T, NEW l, NEW a, Ended(T, l, a), NEW at \in DOMAIN T, NEW c \in Asked(T, at)
  PROVE  Met(T, at, c)
<1>1. CASE T[at].kind \in {"if", "while", "dowhile", "for"}
  BY <1>1, MetByStatement
<1>2. CASE T[at].kind = "return"
  BY <1>2, MetByReturn
<1>3. CASE T[at].kind = "assign"
  BY <1>3, MetByAssign
<1>4. CASE T[at].kind \in {"varlet", "arrexpr", "vardec", "globaldef", "arrinit"}
  BY <1>4, MetByUse
<1>5. CASE T[at].kind = "call"
  BY <1>5, MetByCall
<1>6. CASE T[at].kind \in {"monop", "cast"}
  BY <1>6, MetByMonop
<1>7. CASE T[at].kind = "binop"
  BY <1>7, MetByBinop
<1>8. CASE T[at].kind \notin {"if", "while", "dowhile", "for", "return", "assign", "varlet", "arrexpr", "vardec",
                              "globaldef", "arrinit", "call", "monop", "cast", "binop"}
  BY <1>8 DEF Asked
<1> QED BY <1>1, <1>2, <1>3, <1>4, <1>5, <1>6, <1>7, <1>8

LEMMA AcceptsWellTyped == CheckInv => AcceptsOnlyWellTyped
<1>1. SUFFICES ASSUME CheckInv, phase = "accepted", NEW m \in Misfits(tree) PROVE Excused(tree, m[1], m[2])
  BY DEF AcceptsOnlyWellTyped
<1>2. Ended(tree, links, ann)
  BY <1>1, EndedIs
<1>3. PICK at \in DOMAIN tree : \E c \in Asked(tree, at) : TypeOf(tree, c.of) \notin c.types /\ m = <<at, c.of>>
  BY <1>1 DEF Misfits
<1>4. PICK c \in Asked(tree, at) : TypeOf(tree, c.of) \notin c.types /\ m = <<at, c.of>>
  BY <1>3
<1>5. m[1] = at /\ m[2] = c.of
  BY <1>4
<1>6. Met(tree, at, c)
  BY <1>2, AllMet
<1> QED BY <1>4, <1>5, <1>6 DEF Met

(* A program that the checker accepts is well typed, but for errors of the *)
(* kinds that it lets pass (TYPECHECK_fini after all handlers of           *)
(* trav_typecheck.c).                                                      *)
THEOREM TypeCheckAcceptsOnlyWellTyped == Spec => []AcceptsOnlyWellTyped
BY CheckerInvariant, AcceptsWellTyped, PTL

(* A program that the checker refuses is not well typed, but for the kinds *)
(* of programs that it mistakes, and only a return without a value ends it *)
(* early (typable and CTI in trav_typecheck.c).                            *)
THEOREM TypeCheckRejectsOnlyErrors == Spec => []RejectsOnlyErrors
BY CheckerInvariant, RejectsErrors, PTL

(* The types that the checker leaves in a well typed tree, for code        *)
(* generation, are the expressions' types (EXPR_TYPE, trav_typecheck.c).   *)
THEOREM TypeCheckAnnotationsRight == Spec => []AnnotationsRight
BY CheckerInvariant, AnnotationsAre, PTL

(* In the end every name has its declared type, and every function that of *)
(* its parameters and its result (handlers of declarations and headers,    *)
(* trav_typecheck.c).                                                      *)
THEOREM TypeCheckNamesHaveTheirTypes == Spec => []NamesHaveTheirTypes
BY CheckerInvariant, NamesTyped, PTL
=============================================================================
