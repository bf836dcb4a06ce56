---------------------------- MODULE FramesProofs ----------------------------
(***************************************************************************)
(* From symbol tables to frames, for all programs: slots, labels, lookups, *)
(* static links, and arrays that are passed on.                            *)
(***************************************************************************)
EXTENDS Frames, FiniteSetTheorems, SequenceTheorems, TLAPS

(* Induction, with the set of the numbers that a statement holds for.      *)
LEMMA Least ==
  ASSUME NEW T, T \subseteq Nat, T # {}
  PROVE  \E n \in T : \A m \in T : n <= m
<1>1. PICK n \in T : \A m \in T : ~ (<<m, n>> \in OpToRel(<, Nat))
  BY WFMin, NatLessThanWellFounded
<1>2. \A m \in T : ~ (m < n)
  BY <1>1 DEF OpToRel
<1> QED BY <1>2

LEMMA AllNumbers ==
  ASSUME NEW T, 0 \in T, \A n \in Nat : n \in T => n + 1 \in T
  PROVE  \A n \in Nat : n \in T
<1> DEFINE U == {n \in Nat : n \notin T}
<1> SUFFICES ASSUME U # {} PROVE FALSE
  OBVIOUS
<1>1. PICK n \in U : \A m \in U : n <= m
  BY Least
<1>2. n # 0 /\ n - 1 \in Nat /\ n - 1 \notin U /\ (n - 1) + 1 = n
  BY <1>1
<1> QED BY <1>1, <1>2

-----------------------------------------------------------------------------
(* What FlattenSeq has after its first n sequences.                        *)
Flattens(seqs, n, fl) ==
  fl = [i \in 1 .. n |-> IF i = 1 THEN seqs[i] ELSE fl[i - 1] \o seqs[i]]

LEMMA FlatExists ==
  ASSUME NEW seqs
  PROVE  \A n \in Nat : \E fl : Flattens(seqs, n, fl)
<1> DEFINE T == {n \in Nat : \E fl : Flattens(seqs, n, fl)}
<1>1. 0 \in T
  <2> DEFINE none == [i \in 1 .. 0 |-> 0]
  <2>1. Flattens(seqs, 0, none)
    BY DEF Flattens
  <2> QED BY <2>1
<1>2. ASSUME NEW n \in Nat, n \in T PROVE n + 1 \in T
  <2>1. PICK fl : Flattens(seqs, n, fl)
    BY <1>2
  <2> DEFINE more == [i \in 1 .. n + 1 |-> IF i = 1 THEN seqs[i] ELSE fl[i - 1] \o seqs[i]]
  <2>2. \A i \in 1 .. n : more[i] = fl[i]
    <3>1. fl = [i \in 1 .. n |-> IF i = 1 THEN seqs[i] ELSE fl[i - 1] \o seqs[i]]
      BY <2>1 DEF Flattens
    <3>2. \A i \in 1 .. n : fl[i] = IF i = 1 THEN seqs[i] ELSE fl[i - 1] \o seqs[i]
      BY ONLY <3>1, Zenon
    <3>3. \A i \in 1 .. n : i \in 1 .. n + 1
      OBVIOUS
    <3>4. \A i \in 1 .. n + 1 : more[i] = IF i = 1 THEN seqs[i] ELSE fl[i - 1] \o seqs[i]
      OBVIOUS
    <3> HIDE DEF more
    <3> QED BY <3>2, <3>3, <3>4, Zenon
  <2>3. \A i \in 1 .. n + 1 : i # 1 => i - 1 \in 1 .. n
    OBVIOUS
  <2>4. \A i \in 1 .. n + 1 : more[i] = IF i = 1 THEN seqs[i] ELSE more[i - 1] \o seqs[i]
    BY <2>2, <2>3
  <2>5. more = [i \in 1 .. n + 1 |-> IF i = 1 THEN seqs[i] ELSE more[i - 1] \o seqs[i]]
    <3>1. more = [i \in 1 .. n + 1 |-> more[i]]
      OBVIOUS
    <3> HIDE DEF more
    <3> QED BY <2>4, <3>1
  <2>6. Flattens(seqs, n + 1, more)
    BY <2>5 DEF Flattens
  <2> QED BY <2>6
<1> HIDE DEF T
<1>3. \A n \in Nat : n \in T
  BY <1>1, <1>2, AllNumbers
<1> QED BY <1>3 DEF T

LEMMA FlattenFacts ==
  ASSUME NEW seqs, Len(seqs) \in Nat \ {0}
  PROVE  \E fl : Flattens(seqs, Len(seqs), fl) /\ FlattenSeq(seqs) = fl[Len(seqs)]
<1> DEFINE fl == CHOOSE g : Flattens(seqs, Len(seqs), g)
<1>1. Flattens(seqs, Len(seqs), fl)
  BY FlatExists
<1>2. FlattenSeq(seqs) = fl[Len(seqs)]
  BY DEF FlattenSeq, Flattens
<1> QED BY <1>1, <1>2

(* w is made of the first n sequences, and at says where they begin.       *)
Spread(seqs, n, at, w, V) ==
  /\ at \in [0 .. n -> Nat] /\ at[0] = 0
  /\ w \in Seq(V) /\ Len(w) = at[n]
  /\ \A i \in 1 .. n : at[i] = at[i - 1] + Len(seqs[i]) /\ at[i] <= at[n]
  /\ \A i \in 1 .. n : \A k \in 1 .. Len(seqs[i]) : w[at[i - 1] + k] = seqs[i][k]

LEMMA SpreadNext ==
  ASSUME NEW V, NEW seqs, NEW n \in Nat, NEW at, NEW w, Spread(seqs, n, at, w, V),
         \A i \in 1 .. n + 1 : seqs[i] \in Seq(V)
  PROVE  \E b : Spread(seqs, n + 1, b, w \o seqs[n + 1], V)
<1> DEFINE v == seqs[n + 1]
           u == w \o v
           b == [i \in 0 .. n + 1 |-> IF i = n + 1 THEN at[n] + Len(v) ELSE at[i]]
<1>1. /\ at \in [0 .. n -> Nat] /\ at[0] = 0 /\ w \in Seq(V) /\ Len(w) = at[n]
      /\ \A i \in 1 .. n : at[i] = at[i - 1] + Len(seqs[i]) /\ at[i] <= at[n]
      /\ \A i \in 1 .. n : \A k \in 1 .. Len(seqs[i]) : w[at[i - 1] + k] = seqs[i][k]
  BY DEF Spread
<1>2. v \in Seq(V) /\ Len(v) \in Nat /\ at[n] \in Nat /\ Len(w) \in Nat
  BY <1>1
<1>3. b[n + 1] = at[n] + Len(v) /\ b[n + 1] \in Nat /\ at[n] <= b[n + 1]
  BY <1>2
<1>4. \A i \in 0 .. n : b[i] = at[i] /\ b[i] \in Nat
  BY <1>1
<1>5. b \in [0 .. n + 1 -> Nat] /\ b[0] = 0
  BY <1>1, <1>2
<1> HIDE DEF b, v
<1>6. /\ u \in Seq(V) /\ Len(u) = at[n] + Len(v)
      /\ \A k \in 1 .. at[n] : u[k] = w[k]
      /\ \A k \in 1 .. Len(v) : u[at[n] + k] = v[k]
  <2>1. /\ u \in Seq(V) /\ Len(u) = Len(w) + Len(v)
        /\ \A k \in 1 .. Len(w) + Len(v) : u[k] = IF k <= Len(w) THEN w[k] ELSE v[k - Len(w)]
    BY <1>1, <1>2, ConcatProperties
  <2> HIDE DEF u
  <2>2. \A k \in 1 .. at[n] : k \in 1 .. Len(w) + Len(v) /\ k <= Len(w)
    BY <1>1, <1>2
  <2>3. \A k \in 1 .. Len(v) : /\ at[n] + k \in 1 .. Len(w) + Len(v) /\ ~ (at[n] + k <= Len(w))
                               /\ (at[n] + k) - Len(w) = k
    BY <1>1, <1>2
  <2> QED BY <1>1, <2>1, <2>2, <2>3
<1> HIDE DEF u
<1>7. ASSUME NEW i \in 1 .. n + 1, i # n + 1
      PROVE  i \in 1 .. n /\ b[i] = at[i] /\ b[i - 1] = at[i - 1] /\ at[i - 1] \in Nat
  <2>1. i \in 1 .. n /\ i \in 0 .. n /\ i - 1 \in 0 .. n
    BY <1>7
  <2> QED BY <1>1, <1>4, <2>1
<1>8. (n + 1) - 1 = n /\ b[n] = at[n] /\ n \in 0 .. n
  BY <1>4
<1>9. ASSUME NEW i \in 1 .. n + 1
      PROVE  b[i] = b[i - 1] + Len(seqs[i]) /\ b[i] <= b[n + 1]
  <2>1. CASE i = n + 1
    BY <1>3, <1>8, <2>1 DEF v
  <2>2. CASE i # n + 1
    <3>1. at[i] = at[i - 1] + Len(seqs[i]) /\ at[i] <= at[n] /\ b[i] = at[i] /\ b[i - 1] = at[i - 1]
      BY <1>1, <1>7, <2>2
    <3>2. at[i] \in Nat
      BY <1>1, <1>7, <2>2
    <3> QED BY <1>2, <1>3, <3>1, <3>2
  <2> QED BY <2>1, <2>2
<1>10. ASSUME NEW i \in 1 .. n + 1, NEW k \in 1 .. Len(seqs[i])
       PROVE  u[b[i - 1] + k] = seqs[i][k]
  <2>1. CASE i = n + 1
    BY <1>6, <1>8, <2>1 DEF v
  <2>2. CASE i # n + 1
    <3>1. /\ i \in 1 .. n /\ b[i - 1] = at[i - 1] /\ at[i - 1] \in Nat
          /\ at[i] = at[i - 1] + Len(seqs[i]) /\ at[i] <= at[n]
          /\ w[at[i - 1] + k] = seqs[i][k]
      BY <1>1, <1>7, <2>2
    <3> DEFINE p == at[i - 1]
               m == Len(seqs[i])
               t == at[n]
    <3>2. m \in Nat /\ t \in Nat /\ p \in Nat /\ p + m <= t /\ k \in 1 .. m
      BY <1>1, <1>2, <3>1
    <3> HIDE DEF p, m, t
    <3>3. p + k \in 1 .. t
      BY <3>2
    <3>4. u[p + k] = w[p + k]
      BY <1>6, <3>3 DEF t
    <3>5. w[p + k] = seqs[i][k] /\ b[i - 1] = p
      BY <3>1 DEF p
    <3> QED BY <3>4, <3>5
  <2> QED BY <2>1, <2>2
<1>11. Spread(seqs, n + 1, b, u, V)
  BY <1>3, <1>5, <1>6, <1>9, <1>10 DEF Spread
<1> QED BY <1>11 DEF u, v

LEMMA SpreadUnique ==
  ASSUME NEW n \in Nat, NEW s, NEW t, NEW a, NEW b, NEW v, NEW w, NEW V, NEW W,
         Spread(s, n, a, v, V), Spread(t, n, b, w, W),
         \A i \in 1 .. n : Len(s[i]) = Len(t[i])
  PROVE  a = b
<1> DEFINE T == {i \in Nat : i <= n => a[i] = b[i]}
<1>1. /\ a \in [0 .. n -> Nat] /\ b \in [0 .. n -> Nat] /\ a[0] = 0 /\ b[0] = 0
      /\ \A i \in 1 .. n : a[i] = a[i - 1] + Len(s[i]) /\ b[i] = b[i - 1] + Len(s[i])
  BY DEF Spread
<1>2. 0 \in T
  BY <1>1
<1>3. ASSUME NEW i \in Nat, i \in T PROVE i + 1 \in T
  <2> SUFFICES ASSUME i + 1 <= n PROVE a[i + 1] = b[i + 1]
    OBVIOUS
  <2>1. i + 1 \in 1 .. n /\ (i + 1) - 1 = i /\ i <= n
    OBVIOUS
  <2> QED BY <1>1, <1>3, <2>1
<1> HIDE DEF T
<1>4. \A i \in Nat : i \in T
  BY <1>2, <1>3, AllNumbers
<1>5. \A i \in 0 .. n : a[i] = b[i]
  BY <1>4 DEF T
<1> QED BY <1>1, <1>5

LEMMA FlattenSpread ==
  ASSUME NEW V, NEW seqs \in Seq(Seq(V))
  PROVE  \E at : Spread(seqs, Len(seqs), at, FlattenSeq(seqs), V)
<1> DEFINE n == Len(seqs)
           none == << >>
           zero == [i \in 0 .. 0 |-> 0]
<1>1. n \in Nat /\ \A i \in 1 .. n : seqs[i] \in Seq(V)
  OBVIOUS
<1>2. Spread(seqs, 0, zero, none, V)
  <2>1. zero \in [0 .. 0 -> Nat] /\ zero[0] = 0 /\ none \in Seq(V) /\ Len(none) = 0 /\ 1 .. 0 = {}
    OBVIOUS
  <2> HIDE DEF zero, none
  <2> QED BY <2>1 DEF Spread
<1>3. CASE n = 0
  <2>1. FlattenSeq(seqs) = none
    BY <1>3 DEF FlattenSeq
  <2> HIDE DEF zero, none
  <2> QED BY <1>2, <1>3, <2>1
<1>4. CASE n # 0
  <2>1. PICK fl : Flattens(seqs, n, fl) /\ FlattenSeq(seqs) = fl[n]
    BY <1>1, <1>4, FlattenFacts
  <2>2. \A i \in 1 .. n : fl[i] = IF i = 1 THEN seqs[i] ELSE fl[i - 1] \o seqs[i]
    <3>1. fl = [i \in 1 .. n |-> IF i = 1 THEN seqs[i] ELSE fl[i - 1] \o seqs[i]]
      BY <2>1 DEF Flattens
    <3> QED BY ONLY <3>1, Zenon
  <2> HIDE DEF n
  <2> DEFINE T == {i \in Nat : i \in 1 .. n => \E at : Spread(seqs, i, at, fl[i], V)}
  <2>3. 0 \in T
    OBVIOUS
  <2>4. ASSUME NEW i \in Nat, i \in T PROVE i + 1 \in T
    <3> SUFFICES ASSUME i + 1 \in 1 .. n PROVE \E at : Spread(seqs, i + 1, at, fl[i + 1], V)
      OBVIOUS
    <3>1. \A j \in 1 .. i + 1 : seqs[j] \in Seq(V)
      BY <1>1
    <3>2. CASE i = 0
      <4>1. \E at : Spread(seqs, 0 + 1, at, none \o seqs[0 + 1], V)
        <5> HIDE DEF none, zero
        <5> QED BY <1>2, <3>1, <3>2, SpreadNext
      <4>2. none \o seqs[1] = seqs[1] /\ 0 + 1 = 1
        BY <3>1, <3>2, ConcatEmptySeq
      <4>3. fl[1] = seqs[1]
        BY <2>2, <3>2
      <4> HIDE DEF none
      <4> QED BY <3>2, <4>1, <4>2, <4>3
    <3>3. CASE i # 0
      <4>1. i \in 1 .. n /\ (i + 1) - 1 = i /\ i + 1 # 1
        BY <1>1, <3>3
      <4>2. PICK at : Spread(seqs, i, at, fl[i], V)
        BY <2>4, <4>1
      <4>3. \E b : Spread(seqs, i + 1, b, fl[i] \o seqs[i + 1], V)
        BY <3>1, <4>2, SpreadNext
      <4>4. fl[i + 1] = fl[i] \o seqs[i + 1]
        BY <2>2, <4>1
      <4> QED BY <4>3, <4>4
    <3> QED BY <3>2, <3>3
  <2> HIDE DEF T
  <2>5. n \in T
    BY <1>1, <2>3, <2>4, AllNumbers
  <2>6. n \in 1 .. n
    BY <1>1, <1>4
  <2>7. \E at : Spread(seqs, n, at, fl[n], V)
    BY <2>5, <2>6 DEF T
  <2> QED BY <2>1, <2>7 DEF n
<1> QED BY <1>3, <1>4

-----------------------------------------------------------------------------
(* Steps is what its definition says.                                      *)
Walks(step, x, n, at) == at = [i \in 0 .. n |-> IF i = 0 THEN x ELSE step[at[i - 1]]]

LEMMA WalkExists ==
  ASSUME NEW D, NEW step \in [D -> D], NEW x \in D
  PROVE  \A n \in Nat : \E at \in [0 .. n -> D] : Walks(step, x, n, at)
<1> DEFINE T == {n \in Nat : \E at \in [0 .. n -> D] : Walks(step, x, n, at)}
<1>1. 0 \in T
  <2> DEFINE at == [i \in 0 .. 0 |-> x]
  <2>1. at \in [0 .. 0 -> D] /\ Walks(step, x, 0, at)
    BY DEF Walks
  <2> QED BY <2>1
<1>2. ASSUME NEW n \in Nat, n \in T PROVE n + 1 \in T
  <2>1. PICK at \in [0 .. n -> D] : Walks(step, x, n, at)
    BY <1>2
  <2> DEFINE more == [i \in 0 .. n + 1 |-> IF i = 0 THEN x ELSE step[at[i - 1]]]
  <2>2. \A i \in 0 .. n : more[i] = at[i]
    BY <2>1 DEF Walks
  <2>3. \A i \in 0 .. n + 1 : i # 0 => i - 1 \in 0 .. n
    OBVIOUS
  <2>4. more \in [0 .. n + 1 -> D]
    BY <2>3
  <2>5. Walks(step, x, n + 1, more)
    BY <2>2, <2>3 DEF Walks
  <2> QED BY <2>4, <2>5
<1> HIDE DEF T
<1>3. \A n \in Nat : n \in T
  BY <1>1, <1>2, AllNumbers
<1> QED BY <1>3 DEF T

LEMMA WalkUnique ==
  ASSUME NEW step, NEW x, NEW n \in Nat, NEW m \in Nat, NEW at, NEW to,
         Walks(step, x, n, at), Walks(step, x, m, to)
  PROVE  \A i \in Nat : i <= n /\ i <= m => at[i] = to[i]
<1> DEFINE T == {i \in Nat : i <= n /\ i <= m => at[i] = to[i]}
<1>1. 0 \in T
  BY DEF Walks
<1>2. ASSUME NEW i \in Nat, i \in T PROVE i + 1 \in T
  BY <1>2 DEF Walks
<1> HIDE DEF T
<1>3. \A i \in Nat : i \in T
  BY <1>1, <1>2, AllNumbers
<1> QED BY <1>3 DEF T

LEMMA StepsProperties ==
  ASSUME NEW D, NEW step \in [D -> D], NEW x \in D, NEW n \in Nat
  PROVE  /\ Steps(step, x, 0) = x
         /\ Steps(step, x, n) \in D
         /\ Steps(step, x, n + 1) = step[Steps(step, x, n)]
<1> DEFINE at(m) == CHOOSE a : Walks(step, x, m, a)
<1>1. \A m \in Nat : Steps(step, x, m) = at(m)[m]
  BY DEF Steps, Walks
<1>2. \A m \in Nat : Walks(step, x, m, at(m)) /\ at(m) \in [0 .. m -> D]
  <2> SUFFICES ASSUME NEW m \in Nat PROVE Walks(step, x, m, at(m)) /\ at(m) \in [0 .. m -> D]
    OBVIOUS
  <2>1. PICK a \in [0 .. m -> D] : Walks(step, x, m, a)
    BY WalkExists
  <2>2. Walks(step, x, m, at(m))
    BY <2>1
  <2> HIDE DEF at
  <2>3. \A i \in 0 .. m : at(m)[i] = a[i]
    BY <2>1, <2>2, WalkUnique
  <2>4. at(m) = [i \in 0 .. m |-> at(m)[i]]
    BY <2>2 DEF Walks
  <2> QED BY <2>2, <2>3, <2>4
<1> HIDE DEF at
<1>3. at(0)[0] = x /\ at(n)[n] \in D
  BY <1>2 DEF Walks
<1>4. at(n + 1)[n + 1] = step[at(n)[n]]
  <2>1. at(n + 1)[n + 1] = step[at(n + 1)[n]]
    BY <1>2 DEF Walks
  <2>2. at(n + 1)[n] = at(n)[n]
    BY <1>2, WalkUnique
  <2> QED BY <2>1, <2>2
<1> QED BY <1>1, <1>3, <1>4

-----------------------------------------------------------------------------
(* The tree of functions.                                                  *)
Tree == prog \in Programs

LEMMA TreeFacts ==
  ASSUME Tree
  PROVE  /\ Funs \subseteq Nat \ {0}
         /\ \A f \in Funs : /\ 1 .. f \subseteq Funs
                            /\ prog.parent[f] \in Funs \cup {0} /\ prog.parent[f] < f
                            /\ f \in ToSet(Children(prog.parent[f]))
                            /\ prog.temps[f] \in Nat
         /\ \A f \in Funs \cup {0} : /\ Children(f) \in Seq(Funs)
                                     /\ \A g \in ToSet(Children(f)) : g \in Funs /\ prog.parent[g] = f
<1>1. /\ prog.parent \in Seq(Nat)
      /\ \A f \in DOMAIN prog.parent : prog.parent[f] < f
      /\ DOMAIN prog.children = DOMAIN prog.parent \cup {0}
      /\ \A f \in DOMAIN prog.children :
           /\ prog.children[f] \in Seq(DOMAIN prog.parent)
           /\ ToSet(prog.children[f]) = {g \in DOMAIN prog.parent : prog.parent[g] = f}
      /\ \A f \in DOMAIN prog.parent : prog.temps[f] \in Nat
  BY ProgramsAssumption DEF Tree
<1>2. Funs = 1 .. Len(prog.parent) /\ Len(prog.parent) \in Nat
  BY <1>1 DEF Funs
<1>3. \A f \in Funs : prog.parent[f] \in Nat
  BY <1>1 DEF Funs
<1>4. \A f \in Funs : prog.parent[f] \in Funs \cup {0} /\ 1 .. f \subseteq Funs
  BY <1>1, <1>2, <1>3 DEF Funs
<1>5. \A f \in Funs \cup {0} : /\ Children(f) \in Seq(Funs)
                               /\ ToSet(Children(f)) = {g \in Funs : prog.parent[g] = f}
  BY <1>1 DEF Funs, Children
<1>6. \A f \in Funs : f \in ToSet(Children(prog.parent[f]))
  BY <1>4, <1>5
<1>7. \A f \in Funs : prog.parent[f] < f /\ prog.temps[f] \in Nat
  BY <1>1 DEF Funs
<1> HIDE DEF Funs
<1> QED BY <1>2, <1>4, <1>5, <1>6, <1>7

LEMMA OutwardFacts ==
  ASSUME Tree, NEW f \in Funs \cup {0}, NEW n \in Nat
  PROVE  /\ Outward(f, 0) = f
         /\ Outward(f, n) \in Funs \cup {0}
         /\ Outward(f, n + 1) = IF Outward(f, n) = 0 THEN 0 ELSE prog.parent[Outward(f, n)]
<1>1. Up \in [Funs \cup {0} -> Funs \cup {0}]
  BY TreeFacts DEF Up
<1>2. /\ Steps(Up, f, 0) = f
      /\ Steps(Up, f, n) \in Funs \cup {0}
      /\ Steps(Up, f, n + 1) = Up[Steps(Up, f, n)]
  BY <1>1, StepsProperties
<1>3. \A g \in Funs \cup {0} : Up[g] = IF g = 0 THEN 0 ELSE prog.parent[g]
  BY DEF Up
<1> QED BY <1>2, <1>3 DEF Outward

(* A step outward leads to a smaller number.                               *)
LEMMA OutwardBound ==
  ASSUME Tree, NEW f \in Funs \cup {0}
  PROVE  \A n \in Nat : Outward(f, n) # 0 => Outward(f, n) + n <= f
<1> DEFINE T == {n \in Nat : Outward(f, n) # 0 => Outward(f, n) + n <= f}
<1>1. f \in Nat /\ \A n \in Nat : Outward(f, n) \in Nat
  <2>1. Funs \cup {0} \subseteq Nat
    BY TreeFacts
  <2>2. \A n \in Nat : Outward(f, n) \in Funs \cup {0}
    BY OutwardFacts
  <2> QED BY <2>1, <2>2
<1>2. 0 \in T
  BY <1>1, OutwardFacts
<1>3. ASSUME NEW n \in Nat, n \in T PROVE n + 1 \in T
  <2>1. CASE Outward(f, n) = 0
    BY <2>1, OutwardFacts
  <2>2. CASE Outward(f, n) # 0
    <3>1. Outward(f, n) \in Funs
      BY <2>2, OutwardFacts
    <3>2. Outward(f, n + 1) = prog.parent[Outward(f, n)]
      BY <2>2, OutwardFacts
    <3>3. Outward(f, n + 1) < Outward(f, n)
      BY <3>1, <3>2, TreeFacts
    <3>4. Outward(f, n) + n <= f
      BY <1>3, <2>2
    <3> QED BY <1>1, <3>3, <3>4
  <2> QED BY <2>1, <2>2
<1> HIDE DEF T
<1>4. \A n \in Nat : n \in T
  BY <1>2, <1>3, AllNumbers
<1> QED BY <1>4 DEF T

LEMMA OutwardAdds ==
  ASSUME Tree, NEW f \in Funs \cup {0}, NEW m \in Nat
  PROVE  \A n \in Nat : Outward(Outward(f, m), n) = Outward(f, m + n)
<1> DEFINE g == Outward(f, m)
           T == {n \in Nat : Outward(g, n) = Outward(f, m + n)}
<1>1. g \in Funs \cup {0}
  BY OutwardFacts
<1> HIDE DEF g
<1>2. 0 \in T
  BY <1>1, OutwardFacts DEF g
<1>3. ASSUME NEW n \in Nat, n \in T PROVE n + 1 \in T
  <2>1. Outward(g, n + 1) = IF Outward(g, n) = 0 THEN 0 ELSE prog.parent[Outward(g, n)]
    BY <1>1, OutwardFacts
  <2>2. Outward(f, (m + n) + 1) = IF Outward(f, m + n) = 0 THEN 0 ELSE prog.parent[Outward(f, m + n)]
    BY OutwardFacts
  <2>3. (m + n) + 1 = m + (n + 1)
    OBVIOUS
  <2> QED BY <1>3, <2>1, <2>2, <2>3
<1> HIDE DEF T
<1>4. \A n \in Nat : n \in T
  BY <1>2, <1>3, AllNumbers
<1> QED BY <1>4 DEF T, g

(* g is f or nested in it.                                                 *)
Within(g, f) == \E n \in Nat : Outward(g, n) = f

LEMMA WithinFacts ==
  ASSUME Tree, NEW f \in Funs, NEW g \in Funs \cup {0}
  PROVE  /\ Within(f, f)
         /\ Within(g, f) => g \in Funs /\ f <= g
         /\ \A h \in Funs \cup {0} : Within(h, g) /\ Within(g, f) => Within(h, f)
         /\ g # 0 => (Within(g, f) <=> g = f \/ Within(prog.parent[g], f))
<1>1. Within(f, f)
  BY OutwardFacts DEF Within
<1>2. ASSUME Within(g, f) PROVE g \in Funs /\ f <= g
  <2>1. PICK n \in Nat : Outward(g, n) = f
    BY <1>2 DEF Within
  <2>2. f # 0 /\ f \in Nat /\ g \in Nat
    BY TreeFacts
  <2>3. f + n <= g
    BY <2>1, <2>2, OutwardBound
  <2> QED BY <2>2, <2>3
<1>3. ASSUME NEW h \in Funs \cup {0}, Within(h, g), Within(g, f) PROVE Within(h, f)
  <2>1. PICK n \in Nat : Outward(h, n) = g
    BY <1>3 DEF Within
  <2>2. PICK m \in Nat : Outward(g, m) = f
    BY <1>3 DEF Within
  <2>3. Outward(Outward(h, n), m) = Outward(h, n + m) /\ n + m \in Nat
    BY <1>3, OutwardAdds, SMTT(30)
  <2>4. Outward(h, n + m) = f
    BY <2>1, <2>2, <2>3
  <2> QED BY <2>3, <2>4 DEF Within
<1>4. ASSUME g # 0 PROVE Within(g, f) <=> g = f \/ Within(prog.parent[g], f)
  <2>1. Outward(g, 0) = g /\ Outward(g, 1) = prog.parent[g]
    <3>1. Outward(g, 0 + 1) = prog.parent[g] /\ Outward(g, 0) = g
      BY <1>4, OutwardFacts
    <3>2. 0 + 1 = 1
      OBVIOUS
    <3> QED BY <3>1, <3>2
  <2>2. \A n \in Nat : Outward(prog.parent[g], n) = Outward(g, 1 + n)
    BY <2>1, OutwardAdds
  <2>3. ASSUME NEW n \in Nat, Outward(g, n) = f, g # f PROVE Within(prog.parent[g], f)
    <3>1. n # 0 /\ n - 1 \in Nat /\ 1 + (n - 1) = n
      BY <2>1, <2>3
    <3> QED BY <2>2, <2>3, <3>1 DEF Within
  <2>4. ASSUME NEW n \in Nat, Outward(prog.parent[g], n) = f PROVE Within(g, f)
    <3>1. Outward(g, 1 + n) = f /\ 1 + n \in Nat
      BY <2>2, <2>4
    <3> QED BY <3>1 DEF Within
  <2>5. Within(f, f)
    BY <1>1
  <2> QED BY <2>3, <2>4, <2>5 DEF Within
<1> QED BY <1>1, <1>2, <1>3, <1>4

-----------------------------------------------------------------------------
(* Nothing changes the program, and so nothing that is read off from it.   *)
LEMMA SameProgram == [Next]_vars => prog' = prog
BY DEF Next, vars, For2WhileFundef, For2WhileStmts, NextPass, IndexLocals, CodegenFundef,
       nextFunction, CodegenStmts, CodegenCrash, CodegenDone, Start, Call, Return

LEMMA SameTree ==
  ASSUME prog' = prog
  PROVE  /\ Tree' <=> Tree
         /\ Funs' = Funs
         /\ \A f : Children(f)' = Children(f) /\ Params(f)' = Params(f)
         /\ \A f : Declared(f)' = Declared(f)
         /\ \A f, n : Outward(f, n)' = Outward(f, n)
         /\ \A g, f : Within(g, f)' <=> Within(g, f)
<1>1. Funs' = Funs /\ (Tree' <=> Tree)
  BY DEF Funs, Tree
<1>2. \A f : Children(f)' = Children(f) /\ Params(f)' = Params(f)
  BY DEF Children, Params, Names
<1>3. \A f : Declared(f)' = Declared(f)
  BY <1>2 DEF Declared
<1>4. \A f, n : Outward(f, n)' = Outward(f, n)
  BY <1>1 DEF Outward, Up
<1>5. \A g, f : Within(g, f)' <=> Within(g, f)
  BY <1>4 DEF Within
<1> QED BY <1>1, <1>2, <1>3, <1>4, <1>5

-----------------------------------------------------------------------------
(* A pass visits the head of todo and puts other visits in its place.      *)
LEMMA Replaced ==
  ASSUME NEW S, NEW a \in Seq(S), NEW t \in Seq(S), t # <<>>, NEW r, r = a \o Tail(t)
  PROVE  /\ r \in Seq(S)
         /\ Len(r) = Len(a) + (Len(t) - 1)
         /\ \A i \in DOMAIN a : i \in DOMAIN r /\ r[i] = a[i]
         /\ \A i \in DOMAIN t \ {1} : Len(a) + (i - 1) \in DOMAIN r /\ r[Len(a) + (i - 1)] = t[i]
         /\ \A i \in DOMAIN r : i \in DOMAIN a \/ (i - Len(a)) + 1 \in DOMAIN t \ {1}
<1>1. /\ Tail(t) \in Seq(S) /\ Len(Tail(t)) = Len(t) - 1
      /\ \A i \in 1 .. Len(t) - 1 : Tail(t)[i] = t[i + 1]
      /\ Len(t) \in Nat \ {0} /\ DOMAIN t = 1 .. Len(t)
      /\ Len(a) \in Nat /\ DOMAIN a = 1 .. Len(a)
  OBVIOUS
<1>2. r \in Seq(S) /\ Len(r) = Len(a) + (Len(t) - 1) /\ DOMAIN r = 1 .. Len(r)
  BY <1>1
<1>3. ASSUME NEW i \in DOMAIN a PROVE i \in DOMAIN r /\ r[i] = a[i]
  BY <1>1, <1>2
<1>4. ASSUME NEW i \in DOMAIN t \ {1}
      PROVE  Len(a) + (i - 1) \in DOMAIN r /\ r[Len(a) + (i - 1)] = t[i]
  <2>1. i - 1 \in 1 .. Len(t) - 1 /\ (i - 1) + 1 = i
    BY <1>1
  <2>2. Tail(t)[i - 1] = t[i]
    BY <1>1, <2>1
  <2>3. Len(a) + (i - 1) \in DOMAIN r
    BY <1>1, <1>2, <2>1
  <2>4. r[Len(a) + (i - 1)] = Tail(t)[i - 1]
    BY <1>1, <1>2, <2>1, <2>3
  <2> QED BY <2>2, <2>3, <2>4
<1>5. ASSUME NEW i \in DOMAIN r PROVE i \in DOMAIN a \/ (i - Len(a)) + 1 \in DOMAIN t \ {1}
  BY <1>1, <1>2
<1> QED BY <1>2, <1>3, <1>4, <1>5

LEMMA Skipped ==
  ASSUME NEW S, NEW t \in Seq(S), t # <<>>
  PROVE  /\ Tail(t) \in Seq(S)
         /\ Len(Tail(t)) = Len(t) - 1 /\ 1 \in DOMAIN t /\ Head(t) = t[1]
         /\ \A i \in DOMAIN Tail(t) : i + 1 \in DOMAIN t \ {1} /\ Tail(t)[i] = t[i + 1]
         /\ \A i \in DOMAIN t \ {1} : i - 1 \in DOMAIN Tail(t) /\ Tail(t)[i - 1] = t[i]
OBVIOUS

Visits == {"fundef", "stmts", "header"} \X Funs

(* The visits of local functions.                                          *)
LEMMA ChildVisits ==
  ASSUME Tree, NEW f \in Funs \cup {0}
  PROVE  /\ Visit("fundef", Children(f)) \in Seq(Visits)
         /\ Len(Visit("fundef", Children(f))) = Len(Children(f))
         /\ \A i \in 1 .. Len(Children(f)) :
              \E g \in ToSet(Children(f)) : Visit("fundef", Children(f))[i] = <<"fundef", g>>
         /\ \A g \in ToSet(Children(f)) :
              \E i \in 1 .. Len(Children(f)) : Visit("fundef", Children(f))[i] = <<"fundef", g>>
<1> DEFINE v == Visit("fundef", Children(f))
           n == Len(Children(f))
           F(i) == <<"fundef", Children(f)[i]>>
<1>1. Children(f) \in Seq(Funs) /\ n \in Nat /\ DOMAIN Children(f) = 1 .. n
  BY TreeFacts
<1>2. \A i \in 1 .. n : Children(f)[i] \in Funs /\ Children(f)[i] \in ToSet(Children(f))
  BY <1>1 DEF ToSet
<1>3. v = [i \in 1 .. n |-> F(i)]
  BY <1>1 DEF Visit
<1>4. \A i \in 1 .. n : F(i) \in Visits
  BY <1>2 DEF Visits
<1> HIDE DEF v
<1>5. v \in Seq(Visits) /\ Len(v) = n
  <2> HIDE DEF F
  <2> QED BY <1>1, <1>3, <1>4
<1>6. \A i \in 1 .. n : v[i] = <<"fundef", Children(f)[i]>>
  BY <1>3
<1>7. \A g \in ToSet(Children(f)) : \E i \in 1 .. n : v[i] = <<"fundef", g>>
  BY <1>1, <1>6 DEF ToSet
<1> QED BY <1>2, <1>5, <1>6, <1>7 DEF v

(* A visit of fundef f gives way to its local functions and to b.          *)
Entering(f, b) == Visit("fundef", Children(f)) \o b \o Tail(todo)

LEMMA Entered ==
  ASSUME Tree, todo \in Seq(Visits), todo # <<>>, NEW f \in Funs, NEW b \in Seq(Visits)
  PROVE  /\ Entering(f, b) \in Seq(Visits)
         /\ Len(Children(f)) \in Nat
         /\ \A i \in DOMAIN Entering(f, b) :
              \/ i \in 1 .. Len(Children(f)) /\ \E g \in ToSet(Children(f)) : Entering(f, b)[i] = <<"fundef", g>>
              \/ i - Len(Children(f)) \in 1 .. Len(b) /\ Entering(f, b)[i] = b[i - Len(Children(f))]
              \/ /\ (i - (Len(Children(f)) + Len(b))) + 1 \in DOMAIN todo \ {1}
                 /\ Entering(f, b)[i] = todo[(i - (Len(Children(f)) + Len(b))) + 1]
         /\ \A i \in 1 .. Len(b) : /\ Len(Children(f)) + i \in DOMAIN Entering(f, b)
                                  /\ Entering(f, b)[Len(Children(f)) + i] = b[i]
         /\ \A i \in DOMAIN todo \ {1} :
              /\ (Len(Children(f)) + Len(b)) + (i - 1) \in DOMAIN Entering(f, b)
              /\ Entering(f, b)[(Len(Children(f)) + Len(b)) + (i - 1)] = todo[i]
         /\ \A g \in ToSet(Children(f)) : \E i \in DOMAIN Entering(f, b) : Entering(f, b)[i] = <<"fundef", g>>
<1> DEFINE n == Len(Children(f))
           k == Len(b)
           r == Entering(f, b)
           v == Visit("fundef", Children(f))
           a == v \o b
<1>1. r = a \o Tail(todo) /\ k \in Nat
  BY DEF Entering
<1>2. v \in Seq(Visits) /\ Len(v) = n /\ n \in Nat
  BY ChildVisits
<1>3. /\ \A i \in 1 .. n : \E g \in ToSet(Children(f)) : v[i] = <<"fundef", g>>
      /\ \A g \in ToSet(Children(f)) : \E i \in 1 .. n : v[i] = <<"fundef", g>>
  BY ChildVisits
<1> HIDE DEF v
<1>4. a \in Seq(Visits) /\ Len(a) = n + k
  BY <1>2, ConcatProperties
<1>5. \A i \in 1 .. n + k : a[i] = IF i <= n THEN v[i] ELSE b[i - n]
  BY <1>2, ConcatProperties
<1>6. \A i \in 1 .. n : a[i] = v[i]
  BY <1>1, <1>2, <1>5
<1>7. \A i \in 1 .. k : n + i \in 1 .. n + k /\ a[n + i] = b[i]
  BY <1>1, <1>2, <1>5
<1>8. DOMAIN a = 1 .. n + k
  BY <1>4
<1> HIDE DEF a, r, n, k
<1>9. /\ r \in Seq(Visits)
      /\ \A i \in DOMAIN a : i \in DOMAIN r /\ r[i] = a[i]
      /\ \A i \in DOMAIN todo \ {1} : (n + k) + (i - 1) \in DOMAIN r /\ r[(n + k) + (i - 1)] = todo[i]
      /\ \A i \in DOMAIN r : i \in DOMAIN a \/ (i - (n + k)) + 1 \in DOMAIN todo \ {1}
  BY <1>1, <1>4, Replaced, SMTT(30)
<1>10. ASSUME NEW i \in DOMAIN r
       PROVE  \/ i \in 1 .. n /\ \E g \in ToSet(Children(f)) : r[i] = <<"fundef", g>>
              \/ i - n \in 1 .. k /\ r[i] = b[i - n]
              \/ (i - (n + k)) + 1 \in DOMAIN todo \ {1} /\ r[i] = todo[(i - (n + k)) + 1]
  <2>1. CASE i \in 1 .. n
    <3>1. i \in DOMAIN a
      BY <1>1, <1>2, <1>8, <2>1
    <3>2. r[i] = v[i]
      BY <1>6, <1>9, <2>1, <3>1
    <3> QED BY <1>3, <2>1, <3>2
  <2>2. CASE i \in 1 .. n + k /\ i \notin 1 .. n
    <3>1. i - n \in 1 .. k /\ n + (i - n) = i
      BY <1>1, <1>2, <2>2
    <3>2. r[i] = a[i] /\ a[n + (i - n)] = b[i - n]
      BY <1>7, <1>8, <1>9, <2>2, <3>1
    <3> QED BY <3>1, <3>2
  <2>3. CASE (i - (n + k)) + 1 \in DOMAIN todo \ {1}
    <3>1. DOMAIN r = 1 .. Len(r) /\ Len(r) \in Nat
      BY <1>9
    <3>2. (n + k) + (((i - (n + k)) + 1) - 1) = i
      BY <1>1, <1>2, <3>1
    <3> QED BY <1>9, <2>3, <3>2
  <2> QED BY <1>8, <1>9, <2>1, <2>2, <2>3
<1>11. ASSUME NEW i \in 1 .. k PROVE n + i \in DOMAIN r /\ r[n + i] = b[i]
  BY <1>7, <1>8, <1>9
<1>12. ASSUME NEW g \in ToSet(Children(f)) PROVE \E i \in DOMAIN r : r[i] = <<"fundef", g>>
  <2>1. PICK i \in 1 .. n : v[i] = <<"fundef", g>>
    BY <1>3
  <2>2. i \in DOMAIN a
    BY <1>1, <1>2, <1>8
  <2> QED BY <1>6, <1>9, <2>1, <2>2
<1> QED BY <1>2, <1>9, <1>10, <1>11, <1>12 DEF r, n, k

-----------------------------------------------------------------------------
(* What is of its type; the lists of functions and frames come later.      *)
Typed ==
  /\ Tree
  /\ todo \in Seq(Visits)
  /\ cur \in Funs \cup {0}
  /\ tables = [f \in Funs \cup {0} |-> tables[f]]
  /\ index = [f \in Funs |-> index[f]]
  /\ phase \in {"for2while", "index", "codegen", "run", "crashed"}

LEMMA FirstVisits ==
  ASSUME Tree
  PROVE  /\ Visit("fundef", Children(0)) \in Seq(Visits)
         /\ \A i \in DOMAIN Visit("fundef", Children(0)) :
              \E g \in ToSet(Children(0)) : Visit("fundef", Children(0))[i] = <<"fundef", g>>
         /\ \A g \in ToSet(Children(0)) :
              \E i \in DOMAIN Visit("fundef", Children(0)) : Visit("fundef", Children(0))[i] = <<"fundef", g>>
<1> DEFINE v == Visit("fundef", Children(0))
<1>1. /\ v \in Seq(Visits) /\ Len(v) = Len(Children(0))
      /\ \A i \in 1 .. Len(v) : \E g \in ToSet(Children(0)) : v[i] = <<"fundef", g>>
      /\ \A g \in ToSet(Children(0)) : \E i \in 1 .. Len(v) : v[i] = <<"fundef", g>>
  BY ChildVisits
<1>2. DOMAIN v = 1 .. Len(v)
  BY <1>1
<1> HIDE DEF v
<1> QED BY <1>1, <1>2 DEF v

LEMMA InitTyped == Init => Typed
<1> SUFFICES ASSUME Init PROVE Typed
  OBVIOUS
<1>1. Tree
  BY DEF Init, Tree
<1>2. todo \in Seq(Visits)
  BY <1>1, FirstVisits DEF Init
<1> QED BY <1>1, <1>2 DEF Init, Typed

(* The head of todo.                                                       *)
LEMMA AtHead ==
  ASSUME Typed, NEW pass, NEW part, At(pass, part)
  PROVE  /\ todo # <<>> /\ 1 \in DOMAIN todo /\ todo[1] = <<part, Visited>>
         /\ Visited \in Funs /\ phase = pass
<1>1. todo # <<>> /\ phase = pass /\ Head(todo)[1] = part
  BY DEF At
<1>2. todo \in Seq(Visits)
  BY DEF Typed
<1>3. 1 \in DOMAIN todo /\ Head(todo) = todo[1] /\ todo[1] \in Visits
  BY <1>1, <1>2
<1> QED BY <1>1, <1>3 DEF Visits, Visited

LEMMA TypedStep == Typed /\ [Next]_vars => Typed'
<1> SUFFICES ASSUME Typed, [Next]_vars PROVE Typed'
  OBVIOUS
<1>1. Tree' /\ Funs' = Funs /\ Visits' = Visits
  <2>1. prog' = prog
    BY SameProgram
  <2> QED BY <2>1, SameTree DEF Typed, Visits
<1> SUFFICES /\ todo' \in Seq(Visits)
             /\ cur' \in Funs \cup {0}
             /\ tables' = [f \in Funs \cup {0} |-> tables'[f]]
             /\ index' = [f \in Funs |-> index'[f]]
             /\ phase' \in {"for2while", "index", "codegen", "run", "crashed"}
  BY <1>1 DEF Typed
<1> USE DEF Typed
<1>2. CASE For2WhileFundef
  <2>1. Visited \in Funs /\ todo # <<>>
    BY <1>2, AtHead DEF For2WhileFundef
  <2>2. <<<<"stmts", Visited>>>> \in Seq(Visits)
    BY <2>1 DEF Visits
  <2>3. todo' \in Seq(Visits)
    BY <1>2, <2>1, <2>2, Entered DEF For2WhileFundef, Entering
  <2> QED BY <1>2, <2>1, <2>3 DEF For2WhileFundef
<1>3. CASE For2WhileStmts
  <2>1. todo' \in Seq(Visits)
    BY <1>3 DEF For2WhileStmts, At
  <2>2. tables' = [f \in Funs \cup {0} |-> tables'[f]]
    BY <1>3 DEF For2WhileStmts
  <2> QED BY <1>3, <2>1, <2>2 DEF For2WhileStmts
<1>4. CASE NextPass("for2while", "index")
  BY <1>4, FirstVisits DEF NextPass
<1>5. CASE IndexLocals
  <2>1. Visited \in Funs /\ todo # <<>>
    BY <1>5, AtHead DEF IndexLocals
  <2>2. <<>> \in Seq(Visits) /\ Visit("fundef", Children(Visited)) \o <<>> = Visit("fundef", Children(Visited))
    BY <2>1, ChildVisits, ConcatEmptySeq
  <2>3. todo' = Entering(Visited, <<>>)
    BY <1>5, <2>2 DEF IndexLocals, Entering
  <2>4. todo' \in Seq(Visits)
    BY <2>1, <2>2, <2>3, Entered
  <2> QED BY <1>5, <2>4 DEF IndexLocals
<1>6. CASE NextPass("index", "codegen")
  BY <1>6, FirstVisits DEF NextPass
<1>7. CASE CodegenFundef
  <2>1. Visited \in Funs /\ todo # <<>>
    BY <1>7, AtHead DEF CodegenFundef
  <2>2. <<<<"header", Visited>>, <<"stmts", Visited>>>> \in Seq(Visits)
    BY <2>1 DEF Visits
  <2>3. todo' \in Seq(Visits)
    BY <1>7, <2>1, <2>2, Entered DEF CodegenFundef, Entering
  <2> QED BY <1>7, <2>3 DEF CodegenFundef
<1>8. CASE nextFunction
  BY <1>8 DEF nextFunction, At
<1>9. CASE CodegenStmts
  <2>1. todo # <<>> /\ todo' = Tail(todo)
    BY <1>9 DEF CodegenStmts, At
  <2>2. UNCHANGED <<phase, cur, tables, index>>
    BY <1>9 DEF CodegenStmts
  <2> QED BY <2>1, <2>2
<1>10. CASE CodegenCrash \/ CodegenDone \/ Start \/ Call \/ Return
  <2>1. UNCHANGED <<todo, cur, tables, index>> /\ phase' \in {phase, "crashed", "run"}
    BY <1>10 DEF CodegenCrash, CodegenDone, Start, Call, Return
  <2> QED BY <2>1
<1>11. CASE UNCHANGED vars
  BY <1>11 DEF vars
<1> QED BY <1>2, <1>3, <1>4, <1>5, <1>6, <1>7, <1>8, <1>9, <1>10, <1>11 DEF Next

LEMMA AlwaysTyped == Spec => []Typed
<1> QED BY InitTyped, TypedStep, PTL DEF Spec

-----------------------------------------------------------------------------
(* Finite sets, and the tables before loops are lowered.                   *)
LEMMA FiniteImage ==
  ASSUME NEW S, IsFiniteSet(S), NEW map, DOMAIN map = S, NEW T, T = {map[x] : x \in S}
  PROVE  IsFiniteSet(T) /\ Cardinality(T) <= Cardinality(S)
<1> DEFINE to == [x \in S |-> map[x]]
<1>1. to \in Surjection(S, T)
  BY DEF Surjection
<1> QED BY <1>1, FS_Surjection

LEMMA FiniteRange ==
  ASSUME NEW S, NEW s \in Seq(S)
  PROVE  IsFiniteSet(ToSet(s))
<1>1. DOMAIN s = 1 .. Len(s) /\ Len(s) \in Nat
  OBVIOUS
<1>2. IsFiniteSet(1 .. Len(s))
  BY <1>1, FS_Interval
<1> QED BY <1>1, <1>2, FiniteImage DEF ToSet

(* The names of a function's parameters, one array or scalar after the     *)
(* other.                                                                  *)
Dims(f, x) == DimsOf(prog, f, x)
NameBlocks(f) == [i \in DOMAIN prog.params[f] |-> Append(Dims(f, prog.params[f][i]), prog.params[f][i])]

LEMMA DimsFacts ==
  ASSUME Tree, NEW f \in Funs, NEW x
  PROVE  /\ Dims(f, x) \in Seq(ToSet(Dims(f, x))) /\ Len(Dims(f, x)) \in Nat
         /\ DOMAIN Dims(f, x) = 1 .. Len(Dims(f, x))
<1>1. Dims(f, x) \in Seq(ToSet(Dims(f, x)))
  <2>1. CASE x \in DOMAIN prog.dims[f]
    BY <2>1, ProgramsAssumption DEF Tree, Funs, Dims, DimsOf
  <2>2. CASE x \notin DOMAIN prog.dims[f]
    BY <2>2 DEF Dims, DimsOf
  <2> QED BY <2>1, <2>2
<1> QED BY <1>1

LEMMA BlockFacts ==
  ASSUME NEW S, NEW d \in Seq(S), NEW x
  PROVE  /\ Append(d, x) \in Seq(S \cup {x}) /\ Len(Append(d, x)) = Len(d) + 1
         /\ Append(d, x)[Len(d) + 1] = x
         /\ \A k \in 1 .. Len(d) : Append(d, x)[k] = d[k]
<1>1. d \in Seq(S \cup {x}) /\ x \in S \cup {x}
  OBVIOUS
<1> QED BY <1>1, AppendProperties

LEMMA NamesSpread ==
  ASSUME Tree, NEW f \in Funs
  PROVE  /\ \E V, at : Spread(NameBlocks(f), Len(prog.params[f]), at, Names(f), V)
         /\ Names(f) \in Seq(ToSet(Names(f)))
<1> DEFINE p == prog.params[f]
           B == NameBlocks(f)
           V == UNION {ToSet(Append(Dims(f, x), x)) : x \in ToSet(p)}
<1>1. p \in Seq(ToSet(p))
  BY ProgramsAssumption DEF Tree, Funs
<1>2. ASSUME NEW x \in ToSet(p) PROVE Append(Dims(f, x), x) \in Seq(V)
  <2> DEFINE w == Append(Dims(f, x), x)
  <2>1. w \in Seq(ToSet(Dims(f, x)) \cup {x})
    BY DimsFacts, BlockFacts
  <2> HIDE DEF w
  <2>2. w \in Seq(ToSet(w))
    BY <2>1 DEF ToSet
  <2>3. ToSet(w) \subseteq V
    BY DEF w
  <2> HIDE DEF V
  <2>4. w \in Seq(V)
    BY <2>2, <2>3
  <2> QED BY <2>4 DEF w
<1>3. B \in Seq(Seq(V)) /\ Len(B) = Len(p)
  <2> DEFINE F(i) == Append(Dims(f, p[i]), p[i])
  <2>1. B = [i \in 1 .. Len(p) |-> F(i)] /\ Len(p) \in Nat
    BY <1>1 DEF NameBlocks
  <2>2. \A i \in 1 .. Len(p) : F(i) \in Seq(V)
    <3> HIDE DEF V
    <3> QED BY <1>1, <1>2 DEF ToSet
  <2> HIDE DEF F, B, V
  <2> QED BY <2>1, <2>2
<1>4. Names(f) = FlattenSeq(B)
  BY DEF Names, dimreduce_params, NameBlocks, Dims
<1> HIDE DEF B, V
<1>5. PICK at : Spread(B, Len(p), at, Names(f), V)
  BY <1>3, <1>4, FlattenSpread
<1>6. Names(f) \in Seq(V)
  BY <1>5 DEF Spread
<1>7. Names(f) \in Seq(ToSet(Names(f)))
  BY <1>6 DEF ToSet
<1> QED BY <1>5, <1>7 DEF B

LEMMA ParamFacts ==
  ASSUME Tree, NEW f \in Funs
  PROVE  /\ Params(f) \in Seq(ToSet(Params(f))) /\ Len(Params(f)) \in Nat
         /\ Len(Params(f)) = Len(Names(f))
         /\ DOMAIN Params(f) = 1 .. Len(Params(f))
         /\ \A i, j \in DOMAIN Params(f) : Params(f)[i] = Params(f)[j] => i = j
         /\ \A key \in ToSet(Params(f)) :
              \E x \in ToSet(Names(f)) : key = Var(x, f) /\ x \notin {"gen", "function"}
         /\ \A x \in ToSet(Names(f)) : Var(x, f) \in ToSet(Params(f))
         /\ \A x \in prog.locals[f] : x \notin {"gen", "function"}
         /\ IsFiniteSet(prog.locals[f])
<1> DEFINE p == Names(f)
           P == Params(f)
<1>1. /\ p \in Seq(ToSet(p)) /\ IsInjective(p) /\ IsFiniteSet(prog.locals[f])
      /\ {"gen", "function"} \cap (ToSet(p) \cup prog.locals[f]) = {}
  BY ProgramsAssumption, NamesSpread DEF Tree, Funs, Names
<1>2. DOMAIN p = 1 .. Len(p) /\ Len(p) \in Nat
  BY <1>1
<1>3. P = [i \in 1 .. Len(p) |-> Var(p[i], f)]
  BY <1>2 DEF Params
<1>4. \A i \in 1 .. Len(p) : P[i] = Var(p[i], f) /\ p[i] \in ToSet(p) /\ P[i] \in ToSet(P)
  BY <1>2, <1>3 DEF ToSet
<1>5. P \in Seq(ToSet(P)) /\ Len(P) = Len(p)
  <2> DEFINE F(i) == Var(p[i], f)
  <2>1. P = [i \in 1 .. Len(p) |-> F(i)] /\ \A i \in 1 .. Len(p) : F(i) \in ToSet(P)
    BY <1>3, <1>4
  <2> HIDE DEF F, P
  <2> QED BY <1>2, <2>1
<1>6. ASSUME NEW i \in DOMAIN P, NEW j \in DOMAIN P, P[i] = P[j] PROVE i = j
  <2>1. p[i] = p[j] /\ i \in DOMAIN p /\ j \in DOMAIN p
    BY <1>2, <1>3, <1>4, <1>6 DEF Var
  <2> QED BY <1>1, <2>1 DEF IsInjective
<1>7. \A key \in ToSet(P) : \E x \in ToSet(p) : key = Var(x, f)
  BY <1>3, <1>4 DEF ToSet
<1>8. \A x \in ToSet(p) : Var(x, f) \in ToSet(P)
  BY <1>2, <1>4 DEF ToSet
<1> HIDE DEF P
<1>9. DOMAIN P = 1 .. Len(P)
  BY <1>5
<1> QED BY <1>1, <1>2, <1>5, <1>6, <1>7, <1>8, <1>9 DEF P

LEMMA FunIdsFinite ==
  ASSUME Tree, NEW f \in Funs \cup {0}
  PROVE  IsFiniteSet({FunId(g) : g \in ToSet(Children(f))})
<1> DEFINE C == ToSet(Children(f))
           map == [g \in C |-> FunId(g)]
<1>1. Children(f) \in Seq(Funs)
  BY TreeFacts
<1>2. IsFiniteSet(C) /\ {FunId(g) : g \in C} = {map[g] : g \in C}
  BY <1>1, FiniteRange
<1>3. DOMAIN map = C
  OBVIOUS
<1> HIDE DEF map
<1> QED BY <1>2, <1>3, FiniteImage

LEMMA DeclaredFinite ==
  ASSUME Tree, NEW f \in Funs
  PROVE  IsFiniteSet(Declared(f))
<1>1. IsFiniteSet(ToSet(Params(f)))
  BY ParamFacts, FiniteRange
<1>2. IsFiniteSet({Var(x, f) : x \in prog.locals[f]})
  <2> DEFINE map == [x \in prog.locals[f] |-> Var(x, f)]
  <2>1. IsFiniteSet(prog.locals[f]) /\ {Var(x, f) : x \in prog.locals[f]} = {map[x] : x \in prog.locals[f]}
    BY ParamFacts, ZenonT(30)
  <2>2. DOMAIN map = prog.locals[f]
    OBVIOUS
  <2> HIDE DEF map
  <2> QED BY <2>1, <2>2, FiniteImage
<1>3. IsFiniteSet({FunId(g) : g \in ToSet(Children(f))})
  BY FunIdsFinite
<1> QED BY <1>1, <1>2, <1>3, FS_Union DEF Declared

(* What a table can hold: the temporaries of a function end up in its own  *)
(* table or in that of a function nested in it.                            *)
Known(g, key) ==
  \/ \E f \in ToSet(Children(g)) : key = FunId(f)
  \/ g \in Funs /\ key \in ToSet(Params(g)) \cup {Var(x, g) : x \in prog.locals[g]}
  \/ \E f \in Funs, k \in Nat \ {0} : key = Temp(f, k) /\ Within(g, f)

TablesOK ==
  \A g \in Funs \cup {0} :
    /\ IsFiniteSet(tables[g])
    /\ \A key \in tables[g] : Known(g, key)
    /\ g \in Funs => Declared(g) \subseteq tables[g]
    /\ \A f \in ToSet(Children(g)) : FunId(f) \in tables[g]

(* While statements of f wait, what is visited before them is nested in f, *)
(* and so is the current function; it is f itself when f has no local ones.*)
StmtsInside(i, f) ==
  /\ cur \in Funs /\ Within(cur, f)
  /\ \A j \in 1 .. i - 1 : Within(todo[j][2], f)
  /\ Children(f) # <<>> \/ (i = 1 /\ cur = f)

Lowering ==
  /\ TablesOK
  /\ phase = "for2while" =>
       \A i \in DOMAIN todo : todo[i][1] = "stmts" => StmtsInside(i, todo[i][2])

LEMMA InitLowering == Init => Lowering
<1> SUFFICES ASSUME Init PROVE Lowering
  OBVIOUS
<1>1. Tree
  BY DEF Init, Tree
<1>2. TablesOK
  <2> SUFFICES ASSUME NEW g \in Funs \cup {0}
               PROVE  /\ IsFiniteSet(tables[g])
                      /\ \A key \in tables[g] : Known(g, key)
                      /\ g \in Funs => Declared(g) \subseteq tables[g]
                      /\ \A f \in ToSet(Children(g)) : FunId(f) \in tables[g]
    BY DEF TablesOK
  <2>1. CASE g = 0
    <3>1. tables[g] = {FunId(f) : f \in ToSet(Children(g))} /\ g \notin Funs
      BY <1>1, <2>1, TreeFacts DEF Init
    <3> QED BY <1>1, <3>1, FunIdsFinite DEF Known
  <2>2. CASE g \in Funs
    <3>1. tables[g] = Declared(g)
      BY <1>1, <2>2, TreeFacts DEF Init
    <3>2. IsFiniteSet(tables[g])
      BY <1>1, <2>2, <3>1, DeclaredFinite
    <3> QED BY <2>2, <3>1, <3>2 DEF Declared, Known
  <2> QED BY <2>1, <2>2
<1>3. \A i \in DOMAIN todo : todo[i][1] = "fundef"
  BY <1>1, FirstVisits DEF Init
<1> QED BY <1>2, <1>3 DEF Lowering

LEMMA SameKnown ==
  ASSUME prog' = prog
  PROVE  \A g, key : Known(g, key)' <=> Known(g, key)
<1>1. Funs' = Funs /\ \A f : Children(f)' = Children(f) /\ Params(f)' = Params(f)
  BY SameTree
<1>2. \A g, f : Within(g, f)' <=> Within(g, f)
  BY SameTree
<1> QED BY <1>1, <1>2 DEF Known

LEMMA SameTables ==
  ASSUME prog' = prog, tables' = tables, TablesOK
  PROVE  TablesOK'
<1>1. Funs' = Funs /\ \A f : Children(f)' = Children(f) /\ Declared(f)' = Declared(f)
  BY SameTree
<1>2. \A g, key : Known(g, key)' <=> Known(g, key)
  BY SameKnown
<1> QED BY <1>1, <1>2 DEF TablesOK

LEMMA LowerFundef ==
  ASSUME Typed, Lowering, For2WhileFundef
  PROVE  \A i \in DOMAIN todo' : todo'[i][1] = "stmts" => StmtsInside(i, todo[i][2])'
<1> DEFINE f == Visited
           n == Len(Children(f))
           b == <<<<"stmts", f>>>>
<1>1. /\ todo # <<>> /\ todo \in Seq(Visits) /\ f \in Funs /\ 1 \in DOMAIN todo
      /\ todo[1] = <<"fundef", f>> /\ phase = "for2while"
  BY AtHead DEF For2WhileFundef, Typed
<1>2. b \in Seq(Visits) /\ Len(b) = 1 /\ b[1] = <<"stmts", f>>
  BY <1>1 DEF Visits
<1>3. todo' = Entering(f, b) /\ cur' = f /\ prog' = prog
  BY DEF For2WhileFundef, Entering
<1>4. Tree /\ Funs' = Funs /\ \A g : Children(g)' = Children(g)
  BY <1>3, SameTree DEF Typed
<1>5. \A g, h : Within(g, h)' <=> Within(g, h)
  BY <1>3, SameTree
<1> HIDE DEF b, f
<1>6. /\ n \in Nat /\ todo' \in Seq(Visits)
      /\ \A i \in DOMAIN todo' :
           \/ i \in 1 .. n /\ \E g \in ToSet(Children(f)) : todo'[i] = <<"fundef", g>>
           \/ i = n + 1 /\ todo'[i] = <<"stmts", f>>
           \/ i - n \in DOMAIN todo \ {1} /\ todo'[i] = todo[i - n]
  <2>1. /\ n \in Nat /\ todo' \in Seq(Visits)
        /\ \A i \in DOMAIN todo' :
             \/ i \in 1 .. n /\ \E g \in ToSet(Children(f)) : todo'[i] = <<"fundef", g>>
             \/ i - n \in 1 .. 1 /\ todo'[i] = b[i - n]
             \/ (i - (n + 1)) + 1 \in DOMAIN todo \ {1} /\ todo'[i] = todo[(i - (n + 1)) + 1]
    <3>1. /\ Entering(f, b) \in Seq(Visits) /\ n \in Nat
          /\ \A i \in DOMAIN Entering(f, b) :
               \/ i \in 1 .. n /\ \E g \in ToSet(Children(f)) : Entering(f, b)[i] = <<"fundef", g>>
               \/ i - n \in 1 .. Len(b) /\ Entering(f, b)[i] = b[i - n]
               \/ /\ (i - (n + Len(b))) + 1 \in DOMAIN todo \ {1}
                  /\ Entering(f, b)[i] = todo[(i - (n + Len(b))) + 1]
      BY <1>1, <1>2, <1>4, Entered
    <3> QED BY <1>2, <1>3, <3>1
  <2>2. DOMAIN todo' \subseteq Nat
    BY <2>1
  <2>3. \A i \in Nat : (i - (n + 1)) + 1 = i - n /\ (i - n \in 1 .. 1 => i - n = 1 /\ i = n + 1)
    BY <2>1
  <2> QED BY <1>2, <2>1, <2>2, <2>3
<1>7. n # 0 => Children(f) # <<>>
  BY <1>4, TreeFacts
<1>8. \A i \in DOMAIN todo : i \in Nat \ {0} /\ 1 .. i - 1 \subseteq DOMAIN todo /\ todo[i] \in Visits
  BY <1>1
<1>9. \A i \in DOMAIN todo' : i \in Nat \ {0} /\ 1 .. i - 1 \subseteq DOMAIN todo' /\ todo'[i] \in Visits
  BY <1>6
<1>10. \A g \in ToSet(Children(f)) : g \in Funs /\ Within(g, f)
  BY <1>1, <1>4, TreeFacts, WithinFacts
<1>11. Within(f, f)
  BY <1>1, <1>4, WithinFacts
<1> SUFFICES ASSUME NEW i \in DOMAIN todo', todo'[i][1] = "stmts"
             PROVE  StmtsInside(i, todo[i][2])'
  OBVIOUS
<1>12. CASE i = n + 1 /\ todo'[i] = <<"stmts", f>>
  <2>1. ASSUME NEW j \in 1 .. i - 1 PROVE Within(todo'[j][2], f)
    <3>1. j \in DOMAIN todo' /\ j \in 1 .. n
      BY <1>6, <1>9, <1>12
    <3>2. PICK g \in ToSet(Children(f)) : todo'[j] = <<"fundef", g>>
      BY <1>6, <1>8, <1>12, <3>1
    <3> QED BY <1>10, <3>2
  <2>2. Children(f) # <<>> \/ (i = 1 /\ cur' = f)
    BY <1>3, <1>6, <1>7, <1>12
  <2> QED BY <1>1, <1>3, <1>4, <1>5, <1>11, <1>12, <2>1, <2>2 DEF StmtsInside
<1>13. CASE i - n \in DOMAIN todo \ {1} /\ todo'[i] = todo[i - n]
  <2> DEFINE k == i - n
             h == todo[k][2]
  <2>1. k \in DOMAIN todo /\ k # 1 /\ StmtsInside(k, h) /\ h \in Funs
    BY <1>1, <1>8, <1>13 DEF Lowering, Visits
  <2>2. 1 \in 1 .. k - 1
    BY <1>8, <2>1
  <2>3. Within(f, h)
    BY <1>1, <2>1, <2>2 DEF StmtsInside
  <2>4. Children(h) # <<>>
    BY <2>1 DEF StmtsInside
  <2>5. ASSUME NEW j \in 1 .. i - 1 PROVE Within(todo'[j][2], h)
    <3>1. j \in DOMAIN todo' /\ j \in Nat
      BY <1>9
    <3>2. CASE \E g \in ToSet(Children(f)) : todo'[j] = <<"fundef", g>>
      <4>1. PICK g \in ToSet(Children(f)) : todo'[j] = <<"fundef", g>>
        BY <3>2
      <4>2. g \in Funs /\ Within(g, f)
        BY <1>10
      <4>3. Within(g, h)
        BY <1>1, <1>4, <2>1, <2>3, <4>2, WithinFacts
      <4> QED BY <4>1, <4>3
    <3>3. CASE todo'[j] = <<"stmts", f>>
      BY <2>3, <3>3
    <3>4. CASE j - n \in DOMAIN todo \ {1} /\ todo'[j] = todo[j - n]
      <4>1. j - n \in 1 .. k - 1
        BY <1>6, <1>8, <1>9, <2>1, <3>1, <3>4, SMTT(30)
      <4> QED BY <2>1, <3>4, <4>1 DEF StmtsInside
    <3> QED BY <1>6, <3>1, <3>2, <3>3, <3>4
  <2> QED BY <1>1, <1>3, <1>4, <1>5, <1>13, <2>3, <2>4, <2>5 DEF StmtsInside
<1> QED BY <1>6, <1>12, <1>13

LEMMA LowerStmts ==
  ASSUME Typed, Lowering, For2WhileStmts
  PROVE  /\ \A i \in DOMAIN todo' : todo'[i][1] = "stmts" => StmtsInside(i, todo[i][2])'
         /\ TablesOK'
<1> DEFINE f == Visited
<1>1. /\ todo # <<>> /\ todo \in Seq(Visits) /\ f \in Funs /\ 1 \in DOMAIN todo
      /\ todo[1] = <<"stmts", f>> /\ phase = "for2while" /\ Tree
  BY AtHead DEF For2WhileStmts, Typed
<1>2. todo' = Tail(todo) /\ cur' = cur /\ prog' = prog
  BY DEF For2WhileStmts
<1>3. Funs' = Funs /\ \A g : Children(g)' = Children(g) /\ Declared(g)' = Declared(g)
  BY <1>2, SameTree
<1>4. \A g, h : Within(g, h)' <=> Within(g, h)
  BY <1>2, SameTree
<1>5. /\ todo' \in Seq(Visits)
      /\ \A i \in DOMAIN todo' : i + 1 \in DOMAIN todo \ {1} /\ todo'[i] = todo[i + 1]
  BY <1>1, <1>2, Skipped
<1>6. \A i \in DOMAIN todo' : i \in Nat /\ 1 .. i - 1 \subseteq DOMAIN todo'
  BY <1>5
<1>7. StmtsInside(1, f)
  BY <1>1 DEF Lowering
<1>8. ASSUME NEW i \in DOMAIN todo', todo'[i][1] = "stmts"
      PROVE  StmtsInside(i, todo[i][2])'
  <2> DEFINE h == todo[i + 1][2]
  <2>1. StmtsInside(i + 1, h) /\ todo'[i][2] = h
    BY <1>1, <1>5, <1>8 DEF Lowering
  <2>2. ASSUME NEW j \in 1 .. i - 1 PROVE Within(todo'[j][2], h)
    <3>1. j \in DOMAIN todo' /\ j + 1 \in 1 .. (i + 1) - 1
      BY <1>6
    <3> QED BY <1>5, <2>1, <3>1 DEF StmtsInside
  <2>3. Children(h) # <<>>
    BY <1>6, <2>1 DEF StmtsInside
  <2> QED BY <1>2, <1>3, <1>4, <2>1, <2>2, <2>3 DEF StmtsInside
<1>9. TablesOK'
  <2> DEFINE Temps == {Temp(f, k) : k \in 1 .. prog.temps[f]}
  <2>1. cur \in Funs /\ Within(cur, f)
    BY <1>7 DEF StmtsInside
  <2>2. \A g \in Funs \cup {0} : tables'[g] = IF g = cur THEN tables[g] \cup Temps ELSE tables[g]
    BY <2>1 DEF For2WhileStmts, Typed
  <2>3. prog.temps[f] \in Nat
    BY <1>1, TreeFacts
  <2>4. IsFiniteSet(Temps)
    <3> DEFINE map == [k \in 1 .. prog.temps[f] |-> Temp(f, k)]
    <3>1. IsFiniteSet(1 .. prog.temps[f])
      BY <2>3, FS_Interval
    <3>2. DOMAIN map = 1 .. prog.temps[f] /\ Temps = {map[k] : k \in 1 .. prog.temps[f]}
      OBVIOUS
    <3> HIDE DEF map, Temps
    <3> QED BY <3>1, <3>2, FiniteImage
  <2>5. \A key \in Temps : Known(cur, key)
    BY <1>1, <2>1, <2>3 DEF Known
  <2> HIDE DEF Temps
  <2>6. IsFiniteSet(tables[cur]) => IsFiniteSet(tables[cur] \cup Temps)
    BY <2>4, FS_Union
  <2>7. TablesOK
    BY DEF Lowering
  <2>8. \A g, key : Known(g, key)' <=> Known(g, key)
    BY <1>2, SameKnown
  <2> SUFFICES ASSUME NEW g \in Funs \cup {0}
               PROVE  /\ IsFiniteSet(tables'[g])
                      /\ \A key \in tables'[g] : Known(g, key)
                      /\ g \in Funs => Declared(g) \subseteq tables'[g]
                      /\ \A h \in ToSet(Children(g)) : FunId(h) \in tables'[g]
    BY <1>3, <2>8 DEF TablesOK
  <2>9. CASE g = cur
    BY <2>2, <2>5, <2>6, <2>7, <2>9 DEF TablesOK
  <2>10. CASE g # cur
    BY <2>2, <2>7, <2>10 DEF TablesOK
  <2> QED BY <2>9, <2>10
<1> QED BY <1>8, <1>9

LEMMA LoweringStep == Typed /\ Lowering /\ [Next]_vars => Lowering'
<1> SUFFICES ASSUME Typed, Lowering, [Next]_vars PROVE Lowering'
  OBVIOUS
<1>1. prog' = prog
  BY SameProgram
<1>2. CASE For2WhileFundef
  <2>1. TablesOK'
    BY <1>1, <1>2, SameTables DEF For2WhileFundef, Lowering
  <2> QED BY <1>2, <2>1, LowerFundef DEF Lowering
<1>3. CASE For2WhileStmts
  BY <1>3, LowerStmts DEF Lowering
<1>4. CASE UNCHANGED vars
  <2>1. TablesOK'
    BY <1>1, <1>4, SameTables DEF vars, Lowering
  <2>2. UNCHANGED <<phase, todo, cur>>
    BY <1>4 DEF vars
  <2>3. \A g, h : Within(g, h)' <=> Within(g, h)
    BY <1>1, SameTree
  <2>4. Funs' = Funs /\ \A g : Children(g)' = Children(g)
    BY <1>1, SameTree
  <2>5. \A i, f : StmtsInside(i, f)' <=> StmtsInside(i, f)
    BY <2>2, <2>3, <2>4 DEF StmtsInside
  <2> QED BY <2>1, <2>2, <2>5 DEF Lowering
<1>5. CASE NextPass("for2while", "index") \/ IndexLocals \/ NextPass("index", "codegen") \/ CodegenFundef
           \/ nextFunction \/ CodegenStmts \/ CodegenCrash \/ CodegenDone \/ Start \/ Call \/ Return
  <2>1. tables' = tables /\ phase' # "for2while"
    BY <1>5 DEF NextPass, IndexLocals, CodegenFundef, nextFunction, CodegenStmts, CodegenCrash,
                CodegenDone, Start, Call, Return, At
  <2> QED BY <1>1, <2>1, SameTables DEF Lowering
<1> QED BY <1>2, <1>3, <1>4, <1>5 DEF Next

LEMMA AlwaysLowering == Spec => [](Typed /\ Lowering)
<1> QED BY AlwaysTyped, InitLowering, LoweringStep, PTL DEF Spec

-----------------------------------------------------------------------------
(* Every function is visited: as long as f was not, a function that it is  *)
(* nested in waits.                                                        *)
Waits(part, f) == \E i \in DOMAIN todo : todo[i] = <<part, f>>
Coming(f) == \E n \in Nat : Waits("fundef", Outward(f, n))

LEMMA Kept ==
  ASSUME Typed, todo # <<>>, NEW h \in Funs, NEW b \in Seq(Visits), todo' = Entering(h, b)
  PROVE  /\ \A k \in DOMAIN todo \ {1} : \E j \in DOMAIN todo' : todo'[j] = todo[k]
         /\ \A g \in ToSet(Children(h)) : \E j \in DOMAIN todo' : todo'[j] = <<"fundef", g>>
         /\ \A k \in 1 .. Len(b) : \E j \in DOMAIN todo' : todo'[j] = b[k]
<1>1. Tree /\ todo \in Seq(Visits)
  BY DEF Typed
<1>2. \A k \in DOMAIN todo \ {1} :
        /\ (Len(Children(h)) + Len(b)) + (k - 1) \in DOMAIN Entering(h, b)
        /\ Entering(h, b)[(Len(Children(h)) + Len(b)) + (k - 1)] = todo[k]
  BY <1>1, Entered
<1>3. \A k \in 1 .. Len(b) : /\ Len(Children(h)) + k \in DOMAIN Entering(h, b)
                            /\ Entering(h, b)[Len(Children(h)) + k] = b[k]
  BY <1>1, Entered
<1>4. \A g \in ToSet(Children(h)) : \E j \in DOMAIN Entering(h, b) : Entering(h, b)[j] = <<"fundef", g>>
  BY <1>1, Entered
<1> QED BY <1>2, <1>3, <1>4

LEMMA Outermost ==
  ASSUME Tree, NEW f \in Funs
  PROVE  \E n \in Nat : Outward(f, n) \in ToSet(Children(0))
<1> DEFINE T == {n \in Nat : Outward(f, n) = 0}
<1>1. f \in Nat \ {0} /\ \A g \in Funs : g # 0
  BY TreeFacts
<1>2. f + 1 \in T
  <2>1. Outward(f, f + 1) \in Funs \cup {0} /\ f + 1 \in Nat
    BY <1>1, OutwardFacts
  <2>2. Outward(f, f + 1) # 0 => Outward(f, f + 1) + (f + 1) <= f
    BY <2>1, OutwardBound
  <2>3. Outward(f, f + 1) \in Nat
    BY <2>1, TreeFacts
  <2> QED BY <1>1, <2>1, <2>2, <2>3
<1>3. PICK m \in T : \A k \in T : m <= k
  BY <1>2, Least
<1>4. m # 0
  BY <1>1, OutwardFacts
<1>5. m - 1 \in Nat /\ m - 1 \notin T /\ (m - 1) + 1 = m
  BY <1>3, <1>4
<1>6. Outward(f, m - 1) \in Funs
  BY <1>5, OutwardFacts
<1>7. prog.parent[Outward(f, m - 1)] = 0
  <2>1. Outward(f, (m - 1) + 1) = prog.parent[Outward(f, m - 1)]
    BY <1>1, <1>5, <1>6, OutwardFacts
  <2> QED BY <1>5, <2>1
<1> QED BY <1>5, <1>6, <1>7, TreeFacts

LEMMA ComingFirst ==
  ASSUME Tree, prog' = prog, todo' = Visit("fundef", Children(0)), NEW f \in Funs
  PROVE  Coming(f)'
<1>1. PICK n \in Nat : Outward(f, n) \in ToSet(Children(0))
  BY Outermost
<1>2. PICK i \in DOMAIN todo' : todo'[i] = <<"fundef", Outward(f, n)>>
  BY <1>1, FirstVisits
<1>3. Outward(f, n)' = Outward(f, n)
  BY SameTree
<1> QED BY <1>2, <1>3 DEF Coming, Waits

LEMMA ComingNearer ==
  ASSUME Typed, prog' = prog, NEW h \in Funs, todo # <<>>, todo[1] = <<"fundef", h>>,
         NEW b \in Seq(Visits), todo' = Entering(h, b), NEW f \in Funs, Coming(f)
  PROVE  f = h \/ Coming(f)'
<1>1. PICK n \in Nat : Waits("fundef", Outward(f, n))
  BY DEF Coming
<1>2. PICK i \in DOMAIN todo : todo[i] = <<"fundef", Outward(f, n)>>
  BY <1>1 DEF Waits
<1>3. Tree /\ todo \in Seq(Visits)
  BY DEF Typed
<1>4. /\ \A k \in DOMAIN todo \ {1} : \E j \in DOMAIN todo' : todo'[j] = todo[k]
      /\ \A g \in ToSet(Children(h)) : \E j \in DOMAIN todo' : todo'[j] = <<"fundef", g>>
  BY Kept
<1>5. \A k \in Nat : Outward(f, k)' = Outward(f, k)
  BY SameTree
<1>6. CASE i # 1
  BY <1>2, <1>4, <1>5, <1>6 DEF Coming, Waits
<1>7. CASE i = 1 /\ n = 0
  BY <1>2, <1>3, <1>7, OutwardFacts
<1>8. CASE i = 1 /\ n # 0
  <2>1. n - 1 \in Nat /\ (n - 1) + 1 = n /\ Outward(f, n) = h
    BY <1>2, <1>8
  <2>2. h # 0
    BY <1>3, TreeFacts
  <2>3. /\ Outward(f, n - 1) \in Funs \cup {0}
        /\ Outward(f, n) = IF Outward(f, n - 1) = 0 THEN 0 ELSE prog.parent[Outward(f, n - 1)]
    <3>1. /\ Outward(f, n - 1) \in Funs \cup {0}
          /\ Outward(f, (n - 1) + 1) = IF Outward(f, n - 1) = 0 THEN 0 ELSE prog.parent[Outward(f, n - 1)]
      BY <1>3, <2>1, OutwardFacts
    <3> QED BY <2>1, <3>1
  <2>4. Outward(f, n - 1) \in ToSet(Children(h))
    BY <1>3, <2>1, <2>2, <2>3, TreeFacts
  <2> QED BY <1>4, <1>5, <2>1, <2>4 DEF Coming, Waits
<1> QED BY <1>6, <1>7, <1>8

LEMMA ComingStill ==
  ASSUME Typed, prog' = prog, todo # <<>>, todo[1][1] # "fundef", todo' = Tail(todo),
         NEW f, Coming(f)
  PROVE  Coming(f)'
<1>1. PICK n \in Nat, i \in DOMAIN todo : todo[i] = <<"fundef", Outward(f, n)>>
  BY DEF Coming, Waits
<1>2. i \in DOMAIN todo \ {1}
  BY <1>1
<1>3. \E j \in DOMAIN todo' : todo'[j] = todo[i]
  BY <1>2, Skipped, ZenonT(30) DEF Typed
<1>4. Outward(f, n)' = Outward(f, n)
  BY SameTree
<1> QED BY <1>1, <1>3, <1>4 DEF Coming, Waits

LEMMA NoneComing == todo = <<>> => \A part, f : ~Waits(part, f) /\ ~Coming(f)
BY DEF Coming, Waits

-----------------------------------------------------------------------------
(* A function without local functions gets its temporaries.                *)
TempsIn(f) == \A k \in 1 .. prog.temps[f] : Temp(f, k) \in tables[f]

Lowered ==
  \A f \in Funs : Children(f) = <<>> =>
    TempsIn(f) \/ (phase = "for2while" /\ (Coming(f) \/ Waits("stmts", f)))

LEMMA InitLowered == Init => Lowered
<1> SUFFICES ASSUME Init, NEW f \in Funs PROVE Coming(f)
  BY DEF Lowered, Init
<1>1. Tree
  BY DEF Init, Tree
<1>2. PICK n \in Nat : Outward(f, n) \in ToSet(Children(0))
  BY <1>1, Outermost
<1> QED BY <1>1, <1>2, FirstVisits DEF Coming, Waits, Init

LEMMA LoweredStep == Typed /\ Lowering /\ Lowered /\ [Next]_vars => Lowered'
<1> SUFFICES ASSUME Typed, Lowering, Lowered, [Next]_vars PROVE Lowered'
  OBVIOUS
<1>1. prog' = prog /\ Tree
  BY SameProgram DEF Typed
<1>2. Funs' = Funs /\ \A g : Children(g)' = Children(g)
  BY <1>1, SameTree
<1> SUFFICES ASSUME NEW f \in Funs, Children(f) = <<>>
             PROVE  TempsIn(f)' \/ (phase' = "for2while" /\ (Coming(f)' \/ Waits("stmts", f)'))
  BY <1>2 DEF Lowered
<1>3. TempsIn(f) \/ (phase = "for2while" /\ (Coming(f) \/ Waits("stmts", f)))
  BY DEF Lowered
<1>4. CASE For2WhileFundef
  <2>1. PICK h \in Funs : /\ todo # <<>> /\ todo[1] = <<"fundef", h>> /\ phase = "for2while"
                          /\ h = Visited
    BY <1>4, AtHead DEF For2WhileFundef
  <2> DEFINE b == <<<<"stmts", h>>>>
  <2>2. b \in Seq(Visits) /\ Len(b) = 1 /\ b[1] = <<"stmts", h>>
    BY <2>1 DEF Visits
  <2>3. todo' = Entering(h, b) /\ phase' = phase /\ tables' = tables
    BY <1>4, <2>1 DEF For2WhileFundef, Entering
  <2> HIDE DEF b
  <2>4. Waits("stmts", h)'
    <3>1. \A k \in 1 .. Len(b) : \E j \in DOMAIN todo' : todo'[j] = b[k]
      BY <2>1, <2>2, <2>3, Kept
    <3>2. 1 \in 1 .. Len(b)
      BY <2>2
    <3>3. PICK j \in DOMAIN todo' : todo'[j] = b[1]
      BY <3>1, <3>2
    <3> QED BY <2>2, <3>3 DEF Waits
  <2>5. CASE TempsIn(f)
    BY <1>1, <2>3, <2>5 DEF TempsIn
  <2>6. CASE Coming(f)
    <3>1. f = h \/ Coming(f)'
      BY <1>1, <2>1, <2>2, <2>3, <2>6, ComingNearer
    <3> QED BY <2>1, <2>3, <2>4, <3>1 DEF Waits
  <2>7. CASE Waits("stmts", f)
    <3>1. PICK i \in DOMAIN todo : todo[i] = <<"stmts", f>>
      BY <2>7 DEF Waits
    <3>2. i \in DOMAIN todo \ {1}
      BY <2>1, <3>1
    <3>3. \E j \in DOMAIN todo' : todo'[j] = todo[i]
      BY <2>1, <2>2, <2>3, <3>2, Kept
    <3> QED BY <2>1, <2>3, <3>1, <3>3 DEF Waits
  <2> QED BY <1>3, <2>1, <2>3, <2>5, <2>6, <2>7
<1>5. CASE For2WhileStmts
  <2> DEFINE h == Visited
  <2>1. /\ h \in Funs /\ todo # <<>> /\ todo[1] = <<"stmts", h>> /\ phase = "for2while"
        /\ 1 \in DOMAIN todo
    BY <1>5, AtHead DEF For2WhileStmts
  <2>2. todo' = Tail(todo) /\ phase' = phase
    BY <1>5 DEF For2WhileStmts
  <2>3. StmtsInside(1, h)
    BY <2>1 DEF Lowering
  <2>4. tables' = [tables EXCEPT ![cur] = @ \cup {Temp(h, k) : k \in 1 .. prog.temps[h]}]
    BY <1>5 DEF For2WhileStmts
  <2>5. \A g \in Funs \cup {0} : tables[g] \subseteq tables'[g]
    BY <2>4 DEF Typed
  <2>6. CASE TempsIn(f)
    BY <1>1, <2>5, <2>6 DEF TempsIn
  <2>7. CASE Coming(f)
    BY <1>1, <2>1, <2>2, <2>7, ComingStill
  <2>8. CASE f = h
    <3>1. cur = f
      BY <2>3, <2>8 DEF StmtsInside
    <3>2. tables'[f] = tables[f] \cup {Temp(f, k) : k \in 1 .. prog.temps[f]}
      BY <2>4, <2>8, <3>1 DEF Typed
    <3> QED BY <1>1, <3>2 DEF TempsIn
  <2>9. CASE Waits("stmts", f) /\ f # h
    <3>1. PICK i \in DOMAIN todo : todo[i] = <<"stmts", f>>
      BY <2>9 DEF Waits
    <3>2. i \in DOMAIN todo \ {1}
      BY <2>1, <2>9, <3>1
    <3>3. \E j \in DOMAIN todo' : todo'[j] = todo[i]
      BY <2>1, <2>2, <3>2, Skipped DEF Typed
    <3> QED BY <2>1, <2>2, <3>1, <3>3 DEF Waits
  <2> QED BY <1>3, <2>1, <2>2, <2>6, <2>7, <2>8, <2>9
<1>6. CASE NextPass("for2while", "index")
  <2>1. TempsIn(f)
    BY <1>3, <1>6, NoneComing DEF NextPass
  <2> QED BY <1>1, <1>6, <2>1 DEF NextPass, TempsIn
<1>7. CASE UNCHANGED vars
  <2>1. UNCHANGED <<phase, todo, tables>>
    BY <1>7 DEF vars
  <2>2. \A n : Outward(f, n)' = Outward(f, n)
    BY <1>1, SameTree
  <2> QED BY <1>1, <1>3, <2>1, <2>2 DEF TempsIn, Coming, Waits
<1>8. CASE IndexLocals \/ NextPass("index", "codegen") \/ CodegenFundef
           \/ nextFunction \/ CodegenStmts \/ CodegenCrash \/ CodegenDone \/ Start \/ Call \/ Return
  <2>1. tables' = tables /\ phase # "for2while"
    BY <1>8 DEF NextPass, IndexLocals, CodegenFundef, nextFunction, CodegenStmts, CodegenCrash,
                CodegenDone, Start, Call, Return, At
  <2> QED BY <1>1, <1>3, <2>1 DEF TempsIn
<1> QED BY <1>4, <1>5, <1>6, <1>7, <1>8 DEF Next

LEMMA AlwaysLowered == Spec => [](Typed /\ Lowering /\ Lowered)
<1> QED BY AlwaysLowering, InitLowered, LoweredStep, PTL DEF Spec

-----------------------------------------------------------------------------
(* Which lookups of code generation find their entry.                      *)
LEMMA SeenVariables ==
  ASSUME Tree, NEW f \in Funs, NEW v \in Seen(f)
  PROVE  \E n \in 0 .. f : /\ Outward(f, n) \in Funs
                           /\ v \in Declared(Outward(f, n))
                           /\ \E x : v = Var(x, Outward(f, n)) /\ x \notin {"gen", "function"}
<1>1. PICK n \in 0 .. f : Outward(f, n) # 0 /\ v \in SeenFrom(f, n)
  BY DEF Seen
<1> DEFINE g == Outward(f, n)
<1>2. g \in Funs
  <2>1. n \in Nat
    BY TreeFacts
  <2> QED BY <1>1, <2>1, OutwardFacts
<1>3. PICK x \in ToSet(Names(g)) \cup prog.locals[g] : v = Var(x, g)
  BY <1>1 DEF SeenFrom
<1> HIDE DEF g
<1>4. CASE x \in ToSet(Names(g))
  <2>1. v \in ToSet(Params(g))
    BY <1>2, <1>3, <1>4, ParamFacts
  <2>2. PICK y \in ToSet(Names(g)) : v = Var(y, g) /\ y \notin {"gen", "function"}
    BY <1>2, <2>1, ParamFacts
  <2> QED BY <1>2, <2>1, <2>2 DEF Declared, g
<1>5. CASE x \in prog.locals[g]
  <2>1. x \notin {"gen", "function"}
    BY <1>2, <1>5, ParamFacts
  <2> QED BY <1>2, <1>3, <1>5, <2>1 DEF Declared, g
<1> QED BY <1>3, <1>4, <1>5

LEMMA FailingLookups ==
  ASSUME Typed, Lowering, Lowered, phase # "for2while", NEW f \in Funs, LookupFails(f)
  PROVE  prog.temps[f] > 0 /\ Children(f) # <<>>
<1>1. Tree /\ TablesOK
  BY DEF Typed, Lowering
<1>2. PICK v \in Used(f) : LookupUps(f, v) = {}
  BY DEF LookupFails
<1>3. v \notin Seen(f)
  <2> SUFFICES ASSUME v \in Seen(f) PROVE FALSE
    OBVIOUS
  <2>1. PICK n \in 0 .. f : Outward(f, n) \in Funs /\ v \in Declared(Outward(f, n))
    BY <1>1, SeenVariables
  <2>2. v \in tables[Outward(f, n)]
    BY <1>1, <2>1 DEF TablesOK
  <2> QED BY <1>2, <2>2 DEF LookupUps
<1>4. PICK k \in 1 .. prog.temps[f] : v = Temp(f, k)
  BY <1>3 DEF Used
<1>5. prog.temps[f] > 0
  BY <1>1, <1>4, TreeFacts
<1>6. ASSUME Children(f) = <<>> PROVE FALSE
  <2>1. v \in tables[f]
    BY <1>4, <1>6 DEF Lowered, TempsIn
  <2>2. Outward(f, 0) = f /\ f \in Nat
    BY <1>1, OutwardFacts, TreeFacts
  <2>3. 0 \in LookupUps(f, v)
    BY <2>1, <2>2 DEF LookupUps
  <2> QED BY <1>2, <2>3
<1> QED BY <1>5, <1>6

(* For every program: code generation stumbles over no other function than *)
(* one that has local functions and a loop that needs a temporary.         *)
THEOREM OnlyOuterLoopsStumble == Spec => []OnlyOuterLoopsFail
<1>1. Init => OnlyOuterLoopsFail
  BY DEF Init, OnlyOuterLoopsFail
<1>2. Typed /\ Lowering /\ Lowered /\ OnlyOuterLoopsFail /\ [Next]_vars => OnlyOuterLoopsFail'
  <2> SUFFICES ASSUME Typed, Lowering, Lowered, OnlyOuterLoopsFail, [Next]_vars
               PROVE  OnlyOuterLoopsFail'
    OBVIOUS
  <2>3. prog' = prog
    BY SameProgram
  <2>4. Funs' = Funs /\ \A f : Children(f)' = Children(f)
    BY <2>3, SameTree
  <2> SUFFICES ASSUME phase' = "crashed"
               PROVE  \E f \in Funs : prog.temps[f] > 0 /\ Children(f) # <<>>
    BY <2>3, <2>4 DEF OnlyOuterLoopsFail
  <2>1. CASE CodegenCrash
    <3>1. Visited \in Funs /\ phase = "codegen" /\ LookupFails(Visited)
      BY <2>1, AtHead DEF CodegenCrash
    <3> QED BY <3>1, FailingLookups
  <2>2. CASE ~CodegenCrash
    <3>1. phase = "crashed"
      BY <2>2 DEF Next, vars, For2WhileFundef, For2WhileStmts, NextPass, IndexLocals, CodegenFundef,
                  nextFunction, CodegenStmts, CodegenDone, Start, Call, Return, At
    <3> QED BY <3>1 DEF OnlyOuterLoopsFail
  <2> QED BY <2>1, <2>2
<1> QED BY <1>1, <1>2, AlwaysLowered, PTL DEF Spec

-----------------------------------------------------------------------------
(* Slots.                                                                  *)
Variables(f) == {key \in tables[f] : ~IsFun(key)}

Indexed(f) ==
  /\ DOMAIN index[f] = Variables(f)
  /\ \A v, w \in Variables(f) : index[f][v] = index[f][w] => v = w
  /\ \A v \in Variables(f) : index[f][v] \in Nat /\ index[f][v] < Cardinality(tables[f])
  /\ \A i \in DOMAIN Params(f) : index[f][Params(f)[i]] = i - 1

LEMMA SlotsFacts ==
  ASSUME Typed, TablesOK, NEW f \in Funs,
         NEW order \in Bijection(Others(f), Len(Params(f)) ..
                                   Len(Params(f)) + Cardinality(Others(f)) - 1),
         index' = [index EXCEPT ![f] = Slots(f, order)],
         prog' = prog, tables' = tables
  PROVE  Indexed(f)'
<1> DEFINE P == ToSet(Params(f))
           O == Others(f)
           lo == Len(Params(f))
           n == Cardinality(tables[f])
           s == Slots(f, order)
<1>1. /\ Params(f) \in Seq(P) /\ lo \in Nat /\ DOMAIN Params(f) = 1 .. lo
      /\ \A i, j \in DOMAIN Params(f) : Params(f)[i] = Params(f)[j] => i = j
      /\ \A key \in P : \E x : key = Var(x, f) /\ x \notin {"gen", "function"}
  BY ParamFacts DEF Typed
<1>2. IsFiniteSet(tables[f]) /\ P \subseteq tables[f]
  BY DEF TablesOK, Declared
<1>3. Variables(f) = P \cup O /\ P \cap O = {}
  BY <1>1, <1>2 DEF Variables, Others, IsFun, Var
<1>4. lo + Cardinality(O) <= n /\ Cardinality(O) \in Nat /\ n \in Nat
  <2>1. IsFiniteSet(P) /\ IsFiniteSet(O) /\ P \cup O \subseteq tables[f]
    BY <1>2, FS_Subset DEF Others
  <2>2. Cardinality(P) = lo
    <3> DEFINE at == [i \in 1 .. lo |-> Params(f)[i]]
    <3>1. at \in Surjection(1 .. lo, P) /\ at \in Injection(1 .. lo, P)
      BY <1>1 DEF Surjection, Injection, ToSet, IsInjective
    <3>2. at \in Bijection(1 .. lo, P)
      BY <3>1 DEF Bijection
    <3>3. IsFiniteSet(1 .. lo) /\ Cardinality(1 .. lo) = lo
      <4>1. Cardinality(1 .. lo) = IF 1 > lo THEN 0 ELSE lo - 1 + 1
        BY <1>1, FS_Interval
      <4> QED BY <1>1, <4>1, FS_Interval, SMTT(30)
    <3> QED BY <3>2, <3>3, FS_Bijection DEF ExistsBijection
  <2>3. Cardinality(P \cup O) = Cardinality(P) + Cardinality(O) - Cardinality(P \cap O)
    BY <2>1, FS_Union
  <2>4. Cardinality(P \cap O) = 0
    BY <1>3, FS_EmptySet
  <2>5. Cardinality(P \cup O) <= n /\ Cardinality(O) \in Nat /\ n \in Nat
    BY <1>2, <2>1, FS_Subset, FS_CardinalityType
  <2> QED BY <1>1, <2>2, <2>3, <2>4, <2>5
<1>5. /\ order \in [O -> lo .. lo + Cardinality(O) - 1]
      /\ \A v, w \in O : order[v] = order[w] => v = w
  BY DEF Bijection, Injection, IsInjective
<1>6. /\ DOMAIN s = Variables(f)
      /\ \A v \in O : s[v] = order[v] /\ s[v] \in Nat /\ lo <= s[v] /\ s[v] < n
  BY <1>1, <1>3, <1>4, <1>5 DEF Slots
<1>7. ASSUME NEW i \in 1 .. lo PROVE Params(f)[i] \in P /\ s[Params(f)[i]] = i - 1
  <2> DEFINE key == Params(f)[i]
             slot == CHOOSE j \in 0 .. lo - 1 : Params(f)[j + 1] = key
  <2>1. key \in P /\ key \notin O
    BY <1>1, <1>3 DEF ToSet
  <2>2. i - 1 \in 0 .. lo - 1 /\ (i - 1) + 1 = i
    BY <1>1
  <2>3. slot \in 0 .. lo - 1 /\ Params(f)[slot + 1] = key
    BY <2>2
  <2>4. slot + 1 \in DOMAIN Params(f) /\ i \in DOMAIN Params(f)
    BY <1>1, <2>3
  <2>5. slot + 1 = i
    BY <1>1, <2>3, <2>4
  <2>6. s[key] = slot
    BY <1>3, <2>1 DEF Slots
  <2> QED BY <1>1, <2>1, <2>3, <2>5, <2>6
<1>8. \A v \in P : \E i \in 1 .. lo : v = Params(f)[i]
  BY <1>1 DEF ToSet
<1> HIDE DEF s, P, O, n
<1>9. \A v \in P : s[v] \in Nat /\ s[v] < lo
  BY <1>1, <1>7, <1>8
<1>10. ASSUME NEW v \in Variables(f), NEW w \in Variables(f), s[v] = s[w] PROVE v = w
  <2>1. CASE v \in P /\ w \in P
    <3>1. PICK i \in 1 .. lo : v = Params(f)[i]
      BY <1>8, <2>1
    <3>2. PICK j \in 1 .. lo : w = Params(f)[j]
      BY <1>8, <2>1
    <3>3. i - 1 = j - 1
      BY <1>7, <1>10, <3>1, <3>2
    <3> QED BY <1>1, <3>1, <3>2, <3>3
  <2>2. CASE v \in O /\ w \in O
    BY <1>5, <1>6, <1>10, <2>2
  <2>3. CASE (v \in P /\ w \in O) \/ (v \in O /\ w \in P)
    BY <1>1, <1>6, <1>9, <1>10, <2>3
  <2> QED BY <1>3, <2>1, <2>2, <2>3
<1>11. \A v \in Variables(f) : s[v] \in Nat /\ s[v] < n
  BY <1>1, <1>3, <1>4, <1>6, <1>9
<1>12. index'[f] = s
  BY DEF Typed, s
<1>13. Variables(f)' = Variables(f) /\ Params(f)' = Params(f)
  BY SameTree DEF Variables
<1>14. \A i \in DOMAIN Params(f) : s[Params(f)[i]] = i - 1
  BY <1>1, <1>7
<1>15. Cardinality(tables[f])' = n
  BY DEF n
<1> HIDE DEF lo
<1> QED BY <1>6, <1>10, <1>11, <1>12, <1>13, <1>14, <1>15 DEF Indexed

Indexing ==
  \A f \in Funs : phase # "for2while" => Indexed(f) \/ (phase = "index" /\ Coming(f))

LEMMA SameIndexed ==
  ASSUME prog' = prog, NEW f, index'[f] = index[f], tables' = tables, Indexed(f)
  PROVE  Indexed(f)'
<1>1. Params(f)' = Params(f) /\ Variables(f)' = Variables(f)
  BY SameTree DEF Variables
<1>2. index[f]' = index[f] /\ tables[f]' = tables[f]
  OBVIOUS
<1> QED BY <1>1, <1>2 DEF Indexed

LEMMA IndexingStep == Typed /\ Lowering /\ Indexing /\ [Next]_vars => Indexing'
<1> SUFFICES ASSUME Typed, Lowering, Indexing, [Next]_vars PROVE Indexing'
  OBVIOUS
<1>1. prog' = prog /\ Tree /\ TablesOK
  BY SameProgram DEF Typed, Lowering
<1>2. Funs' = Funs
  BY <1>1, SameTree
<1> SUFFICES ASSUME NEW f \in Funs, phase' # "for2while"
             PROVE  Indexed(f)' \/ (phase' = "index" /\ Coming(f)')
  BY <1>2 DEF Indexing
<1>3. CASE NextPass("for2while", "index")
  BY <1>1, <1>3, ComingFirst DEF NextPass
<1>4. CASE IndexLocals
  <2>1. PICK h \in Funs : /\ todo # <<>> /\ todo[1] = <<"fundef", h>> /\ phase = "index"
                          /\ h = Visited
    BY <1>4, AtHead DEF IndexLocals
  <2>2. PICK order \in Bijection(Others(h), Len(Params(h)) ..
                                   Len(Params(h)) + Cardinality(Others(h)) - 1) :
          index' = [index EXCEPT ![h] = Slots(h, order)]
    BY <1>4, <2>1 DEF IndexLocals
  <2>3. todo' = Entering(h, <<>>) /\ phase' = phase /\ tables' = tables
    <3>1. Visit("fundef", Children(h)) \o <<>> = Visit("fundef", Children(h))
      BY <1>1, ChildVisits, ConcatEmptySeq
    <3> QED BY <1>4, <2>1, <3>1 DEF IndexLocals, Entering
  <2>4. <<>> \in Seq(Visits)
    OBVIOUS
  <2>5. CASE f = h
    <3>1. Indexed(h)'
      BY <1>1, <2>1, <2>2, <2>3, SlotsFacts
    <3> QED BY <2>5, <3>1
  <2>6. CASE f # h /\ Indexed(f)
    <3>1. index'[f] = index[f]
      BY <2>2, <2>6 DEF Typed
    <3> QED BY <1>1, <2>3, <2>6, <3>1, SameIndexed
  <2>7. CASE f # h /\ Coming(f)
    <3>1. f = h \/ Coming(f)'
      BY <1>1, <2>1, <2>3, <2>4, <2>7, ComingNearer
    <3> QED BY <2>1, <2>3, <2>7, <3>1
  <2> QED BY <2>1, <2>5, <2>6, <2>7 DEF Indexing
<1>5. CASE NextPass("index", "codegen")
  <2>1. Indexed(f)
    BY <1>5, NoneComing DEF NextPass, Indexing
  <2>2. index' = index /\ tables' = tables
    BY <1>5 DEF NextPass
  <2> QED BY <1>1, <2>1, <2>2, SameIndexed
<1>6. CASE UNCHANGED vars
  <2>1. UNCHANGED <<phase, todo, tables, index>>
    BY <1>6 DEF vars
  <2>2. CASE Indexed(f)
    BY <1>1, <2>1, <2>2, SameIndexed
  <2>3. CASE phase = "index" /\ Coming(f)
    <3>1. \A n : Outward(f, n)' = Outward(f, n)
      BY <1>1, SameTree
    <3> QED BY <2>1, <2>3, <3>1 DEF Coming, Waits
  <2> QED BY <2>1, <2>2, <2>3 DEF Indexing
<1>7. CASE For2WhileFundef \/ For2WhileStmts
  BY <1>7 DEF For2WhileFundef, For2WhileStmts, At
<1>8. CASE CodegenFundef \/ nextFunction \/ CodegenStmts \/ CodegenCrash \/ CodegenDone
           \/ Start \/ Call \/ Return
  <2>1. tables' = tables /\ index' = index /\ phase \in {"codegen", "run"}
    BY <1>8 DEF CodegenFundef, nextFunction, CodegenStmts, CodegenCrash, CodegenDone, Start, Call,
                Return, At
  <2>2. Indexed(f)
    BY <2>1 DEF Indexing
  <2> QED BY <1>1, <2>1, <2>2, SameIndexed
<1> QED BY <1>3, <1>4, <1>5, <1>6, <1>7, <1>8 DEF Next

LEMMA AlwaysIndexing == Spec => [](Typed /\ Lowering /\ Lowered /\ Indexing)
<1>1. Init => Indexing
  BY DEF Init, Indexing
<1> QED BY <1>1, AlwaysLowered, IndexingStep, PTL DEF Spec

-----------------------------------------------------------------------------
(* What is emitted.                                                        *)
Emission(e) == e = [fun |-> e.fun, code |-> e.code, locals |-> e.locals]

Emissions ==
  /\ \E S : functions \in Seq(S)
  /\ phase \in {"for2while", "index"} => functions = <<>>
  /\ \A k \in DOMAIN functions :
       /\ Emission(functions[k])
       /\ functions[k].fun \in Funs
       /\ functions[k].locals = Cardinality(tables[functions[k].fun]) - Len(Params(functions[k].fun))

LEMMA EmissionsStep == Typed /\ Emissions /\ [Next]_vars => Emissions'
<1> SUFFICES ASSUME Typed, Emissions, [Next]_vars PROVE Emissions'
  OBVIOUS
<1>1. prog' = prog
  BY SameProgram
<1>2. Funs' = Funs /\ \A f : Params(f)' = Params(f)
  BY <1>1, SameTree
<1>3. CASE functions = <<>> /\ functions' = <<>>
  BY <1>3 DEF Emissions
<1>4. CASE functions' = functions /\ tables' = tables /\ phase' \notin {"for2while", "index"}
  BY <1>2, <1>4 DEF Emissions
<1>5. CASE nextFunction
  <2>1. PICK f \in Funs : f = Visited /\ phase = "codegen"
    BY <1>5, AtHead DEF nextFunction
  <2> DEFINE e == [fun |-> f, code |-> <<>>, locals |-> Cardinality(tables[f]) - Len(Params(f))]
  <2>2. functions' = <<e>> \o functions /\ tables' = tables /\ phase' = phase
    BY <1>5, <2>1 DEF nextFunction
  <2>3. PICK S : functions \in Seq(S)
    BY DEF Emissions
  <2>4. /\ Emission(e) /\ e.fun \in Funs
        /\ e.locals = Cardinality(tables[e.fun]) - Len(Params(e.fun))
    BY DEF Emission
  <2> HIDE DEF e
  <2>5. functions \in Seq(S \cup {e}) /\ <<e>> \in Seq(S \cup {e})
    BY <2>3
  <2>6. functions' \in Seq(S \cup {e})
    BY <2>2, <2>5
  <2>7. \A k \in DOMAIN functions' : functions'[k] = e \/ \E j \in DOMAIN functions : functions'[k] = functions[j]
    BY <2>2, <2>5
  <2>8. \A k \in DOMAIN functions' :
          /\ Emission(functions'[k])
          /\ functions'[k].fun \in Funs
          /\ functions'[k].locals = Cardinality(tables[functions'[k].fun]) - Len(Params(functions'[k].fun))
    BY <2>4, <2>7 DEF Emissions
  <2> QED BY <1>2, <2>1, <2>2, <2>6, <2>8 DEF Emissions, Emission
<1>6. CASE CodegenStmts
  <2> DEFINE c == Append(functions[1].code, StmtsCode(Visited))
  <2>1. /\ functions' = [functions EXCEPT ![1] = [@ EXCEPT !.code = c]]
        /\ tables' = tables /\ phase' = phase /\ phase = "codegen"
    BY <1>6 DEF CodegenStmts, At
  <2> HIDE DEF c
  <2>2. PICK S : functions \in Seq(S)
    BY DEF Emissions
  <2>3. functions' \in Seq(S \cup {functions'[1]})
    <3>1. DOMAIN functions = 1 .. Len(functions) /\ Len(functions) \in Nat
      BY <2>2
    <3>2. \A k \in 1 .. Len(functions) : functions'[k] \in S \cup {functions'[1]}
      BY <2>1, <2>2, <3>1
    <3>3. functions' = [k \in 1 .. Len(functions) |-> functions'[k]]
      BY <2>1, <3>1
    <3> QED BY <3>1, <3>2, <3>3
  <2>4. DOMAIN functions' = DOMAIN functions /\ \A k \in DOMAIN functions : k # 1 => functions'[k] = functions[k]
    BY <2>1
  <2>5. ASSUME 1 \in DOMAIN functions
        PROVE  /\ Emission(functions'[1]) /\ functions'[1].fun = functions[1].fun
               /\ functions'[1].locals = functions[1].locals
    <3>1. Emission(functions[1])
      BY <2>5 DEF Emissions
    <3>2. functions'[1] = [fun |-> functions[1].fun, code |-> c, locals |-> functions[1].locals]
      BY <2>1, <2>5, <3>1 DEF Emission
    <3> QED BY <3>2 DEF Emission
  <2> QED BY <1>2, <2>1, <2>3, <2>4, <2>5 DEF Emissions, Emission
<1>7. CASE For2WhileFundef \/ For2WhileStmts \/ IndexLocals
  BY <1>3, <1>7 DEF For2WhileFundef, For2WhileStmts, IndexLocals, At, Emissions
<1>8. CASE NextPass("for2while", "index") \/ NextPass("index", "codegen") 
  BY <1>3, <1>8 DEF NextPass, Emissions
<1>9. CASE CodegenFundef \/ CodegenCrash \/ CodegenDone \/ Start \/ Call \/ Return
  BY <1>4, <1>9 DEF CodegenFundef, CodegenCrash, CodegenDone, Start, Call, Return, At
<1>10. CASE UNCHANGED vars
  BY <1>1, <1>2, <1>10 DEF vars, Emissions, Emission
<1> QED BY <1>5, <1>6, <1>7, <1>8, <1>9, <1>10 DEF Next

LEMMA AlwaysEmissions == Spec => []Emissions
<1>1. Init => Emissions
  <2>1. <<>> \in Seq({})
    OBVIOUS
  <2> QED BY <2>1 DEF Init, Emissions
<1> QED BY <1>1, AlwaysTyped, EmissionsStep, PTL DEF Spec

(* For every program and every order of the hash table, the variables of   *)
(* an emitted function have slots of their own, all within its frame.      *)
THEOREM SlotsNeverShared == Spec => []SlotsApart
<1>1. Typed /\ Lowering /\ Indexing /\ Emissions => SlotsApart
  <2> SUFFICES ASSUME Typed, Lowering, Indexing, Emissions, NEW k \in DOMAIN functions
               PROVE  LET e == functions[k] IN
                      /\ \A v, w \in DOMAIN index[e.fun] : index[e.fun][v] = index[e.fun][w] => v = w
                      /\ \A v \in DOMAIN index[e.fun] : index[e.fun][v] < Len(Params(e.fun)) + e.locals
    BY DEF SlotsApart, ToSet
  <2> DEFINE f == functions[k].fun
  <2>1. f \in Funs /\ functions[k].locals = Cardinality(tables[f]) - Len(Params(f))
    BY DEF Emissions
  <2>2. phase \notin {"for2while", "index"}
    BY DEF Emissions
  <2>3. Indexed(f)
    BY <2>1, <2>2 DEF Indexing
  <2>4. Len(Params(f)) \in Nat /\ Cardinality(tables[f]) \in Nat
    BY <2>1, ParamFacts, FS_CardinalityType DEF Typed, Lowering, TablesOK
  <2>5. Len(Params(f)) + functions[k].locals = Cardinality(tables[f])
    BY <2>1, <2>4
  <2> QED BY <2>3, <2>5 DEF Indexed
<1> QED BY <1>1, AlwaysIndexing, AlwaysEmissions, PTL

(* The assertion of nextFunction: when a function is begun,                *)
(* its parameters have the first slots of its table, in their order.       *)
ParametersFirst ==
  At("codegen", "header") =>
    \A i \in DOMAIN Params(Visited) : index[Visited][Params(Visited)[i]] = i - 1

(* For every program, that assertion never fails.                          *)
THEOREM ParametersComeFirst == Spec => []ParametersFirst
<1>1. Typed /\ Indexing => ParametersFirst
  BY AtHead DEF ParametersFirst, Indexing, Indexed
<1> QED BY <1>1, AlwaysIndexing, PTL

-----------------------------------------------------------------------------
CallsTo(f, g) == {CallCode(f, g, args) : args \in Arguments(f, g)}
CallRows(f) == {CallsTo(f, g) : g \in Callable(f)}

(* The code of a function stays what it is once variables have slots.      *)
LEMMA SameCode ==
  ASSUME prog' = prog, tables' = tables, index' = index
  PROVE  \A f : /\ StmtsCode(f)' = StmtsCode(f)
                /\ LookupFails(f)' <=> LookupFails(f)
<1>1. /\ Funs' = Funs
      /\ \A f, n : Outward(f, n)' = Outward(f, n)
      /\ \A f : Params(f)' = Params(f)
  BY SameTree
<1>2. \A f, key : LookupUps(f, key)' = LookupUps(f, key)
  BY <1>1 DEF LookupUps
<1>3. \A f, key : symtable_lookup(f, key)' = symtable_lookup(f, key)
  BY <1>2 DEF symtable_lookup
<1>4. \A f, n : SeenFrom(f, n)' = SeenFrom(f, n)
  BY <1>1 DEF SeenFrom, Names
<1>5. \A f : Seen(f)' = Seen(f)
  BY <1>1, <1>4 DEF Seen
<1>6. \A f : Used(f)' = Used(f)
  BY <1>5 DEF Used
<1>7. \A f : LookupFails(f)' <=> LookupFails(f)
  BY <1>2, <1>6 DEF LookupFails
<1>8. \A f, v : Address(f, v)' = Address(f, v)
  BY <1>1, <1>3 DEF Address
<1>9. \A v : IdxExprs(v)' = IdxExprs(v)
  BY DEF IdxExprs
<1>10. \A f, g : Arguments(f, g)' = Arguments(f, g)
  BY <1>5, <1>9 DEF Arguments
<1>11. \A args : Pushed(args)' = Pushed(args)
  BY <1>9 DEF Pushed
<1>12. \A f, g, args : CallCode(f, g, args)' = CallCode(f, g, args)
  BY <1>3, <1>8, <1>11 DEF CallCode
<1>13. \A f : Callable(f)' = Callable(f)
  BY <1>1 DEF Callable
<1>14. \A f : StmtsCode(f)' = StmtsCode(f)
  <2> SUFFICES ASSUME NEW f PROVE StmtsCode(f)' = StmtsCode(f)
    OBVIOUS
  <2>1. {Address(f, v) : v \in Used(f)}' = {Address(f, v) : v \in Used(f)}
    BY <1>6, <1>8
  <2>2. \A g : CallsTo(f, g)' = CallsTo(f, g)
    BY <1>10, <1>12 DEF CallsTo
  <2>3. CallRows(f)' = CallRows(f)
    BY <1>13, <2>2 DEF CallRows
  <2>4. StmtsCode(f) = [loads |-> {Address(f, v) : v \in Used(f)}, calls |-> UNION CallRows(f)]
    BY DEF StmtsCode, CallRows, CallsTo
  <2>5. StmtsCode(f)' = [loads |-> {Address(f, v) : v \in Used(f)}', calls |-> UNION CallRows(f)']
    BY DEF StmtsCode, CallRows, CallsTo
  <2> QED BY <2>1, <2>3, <2>4, <2>5
<1> QED BY <1>7, <1>14

-----------------------------------------------------------------------------
(* Labels: a header is followed by the statements of its function, and     *)
(* what is emitted last lacks its statements exactly when they come next.  *)
InOrder ==
  \A i \in DOMAIN todo :
    /\ todo[i][1] = "header" => i + 1 \in DOMAIN todo /\ todo[i + 1] = <<"stmts", todo[i][2]>>
    /\ todo[i][1] = "stmts" /\ i # 1 => todo[i - 1] = <<"header", todo[i][2]>>

Next1(f) == todo # <<>> /\ todo[1] = <<"stmts", f>>

Filled(k) ==
  \E f \in Funs : functions[k].fun = f /\ functions[k].code = <<StmtsCode(f)>> /\ ~LookupFails(f)

Empty(k) == k = 1 /\ Next1(functions[k].fun) /\ functions[k].code = <<>>

Labelled(f) == \E k \in DOMAIN functions : functions[k].fun = f

Labels ==
  /\ phase = "codegen" =>
       /\ InOrder
       /\ \A f \in Funs : Next1(f) => 1 \in DOMAIN functions /\ functions[1].fun = f /\ functions[1].code = <<>>
       /\ \A k \in DOMAIN functions : Filled(k) \/ Empty(k)
       /\ \A f \in Funs : Coming(f) \/ Waits("header", f) \/ Labelled(f)
  /\ phase = "run" =>
       /\ \A k \in DOMAIN functions : Filled(k)
       /\ \A f \in Funs : Labelled(f)

LEMMA LabelsFirst ==
  ASSUME Typed, Emissions, NextPass("index", "codegen")
  PROVE  Labels'
<1>1. /\ Tree /\ prog' = prog /\ todo' = Visit("fundef", Children(0)) /\ phase' = "codegen"
      /\ functions = <<>> /\ functions' = functions
  BY DEF NextPass, Typed, Emissions
<1>2. \A i \in DOMAIN todo' : todo'[i][1] = "fundef"
  BY <1>1, FirstVisits
<1>3. InOrder'
  BY <1>2 DEF InOrder
<1>4. \A f : ~Next1(f)'
  <2>1. todo' \in Seq(Visits)
    BY <1>1, FirstVisits
  <2>2. todo' # <<>> => 1 \in DOMAIN todo'
    BY <2>1
  <2> QED BY <1>2, <2>2 DEF Next1
<1>5. DOMAIN functions' = {}
  BY <1>1
<1>6. \A f \in Funs : Coming(f)'
  BY <1>1, ComingFirst
<1>7. Funs' = Funs
  BY <1>1, SameTree
<1> QED BY <1>1, <1>3, <1>4, <1>5, <1>6, <1>7 DEF Labels

LEMMA LabelsFundef ==
  ASSUME Typed, Labels, CodegenFundef
  PROVE  Labels'
<1>1. PICK h \in Funs : /\ todo # <<>> /\ todo[1] = <<"fundef", h>> /\ phase = "codegen"
                        /\ h = Visited
  BY AtHead DEF CodegenFundef
<1> DEFINE b == <<<<"header", h>>, <<"stmts", h>>>>
           n == Len(Children(h))
<1>2. /\ b \in Seq(Visits) /\ Len(b) = 2 /\ b[1] = <<"header", h>> /\ b[2] = <<"stmts", h>>
      /\ 1 \in 1 .. Len(b)
  BY <1>1 DEF Visits
<1>3. /\ todo' = Entering(h, b) /\ phase' = phase /\ prog' = prog
      /\ UNCHANGED <<tables, index, functions>>
  BY <1>1 DEF CodegenFundef, Entering
<1> HIDE DEF b
<1>4. Tree /\ todo \in Seq(Visits) /\ Funs' = Funs
  BY <1>3, SameTree DEF Typed
<1>5. /\ n \in Nat /\ todo' \in Seq(Visits)
      /\ \A i \in DOMAIN todo' :
           \/ i \in 1 .. n /\ \E g \in ToSet(Children(h)) : todo'[i] = <<"fundef", g>>
           \/ i - n \in 1 .. 2 /\ todo'[i] = b[i - n]
           \/ (i - (n + 2)) + 1 \in DOMAIN todo \ {1} /\ todo'[i] = todo[(i - (n + 2)) + 1]
      /\ \A i \in 1 .. 2 : n + i \in DOMAIN todo' /\ todo'[n + i] = b[i]
      /\ \A i \in DOMAIN todo \ {1} : (n + 2) + (i - 1) \in DOMAIN todo' /\ todo'[(n + 2) + (i - 1)] = todo[i]
  <2>1. /\ n \in Nat /\ Entering(h, b) \in Seq(Visits)
        /\ \A i \in DOMAIN Entering(h, b) :
             \/ i \in 1 .. n /\ \E g \in ToSet(Children(h)) : Entering(h, b)[i] = <<"fundef", g>>
             \/ i - n \in 1 .. Len(b) /\ Entering(h, b)[i] = b[i - n]
             \/ /\ (i - (n + Len(b))) + 1 \in DOMAIN todo \ {1}
                /\ Entering(h, b)[i] = todo[(i - (n + Len(b))) + 1]
    BY <1>1, <1>2, <1>4, Entered
  <2>2. \A i \in 1 .. Len(b) : n + i \in DOMAIN Entering(h, b) /\ Entering(h, b)[n + i] = b[i]
    BY <1>1, <1>2, <1>4, Entered
  <2>3. \A i \in DOMAIN todo \ {1} : /\ (n + Len(b)) + (i - 1) \in DOMAIN Entering(h, b)
                                     /\ Entering(h, b)[(n + Len(b)) + (i - 1)] = todo[i]
    BY <1>1, <1>2, <1>4, Entered
  <2> QED BY <1>2, <1>3, <2>1, <2>2, <2>3
<1>6. \A i \in DOMAIN todo' : i \in Nat
  BY <1>5
<1>7. InOrder'
  <2> SUFFICES ASSUME NEW i \in DOMAIN todo'
               PROVE  /\ todo'[i][1] = "header" => i + 1 \in DOMAIN todo' /\ todo'[i + 1] = <<"stmts", todo'[i][2]>>
                      /\ todo'[i][1] = "stmts" /\ i # 1 => todo'[i - 1] = <<"header", todo'[i][2]>>
    BY DEF InOrder
  <2>1. CASE \E g \in ToSet(Children(h)) : todo'[i] = <<"fundef", g>>
    BY <2>1
  <2>2. CASE i - n \in 1 .. 2 /\ todo'[i] = b[i - n]
    <3>1. (i = n + 1 /\ todo'[i] = b[1]) \/ (i = n + 2 /\ todo'[i] = b[2])
      BY <1>5, <1>6, <2>2
    <3>2. /\ n + 1 \in DOMAIN todo' /\ todo'[n + 1] = b[1]
          /\ n + 2 \in DOMAIN todo' /\ todo'[n + 2] = b[2]
      BY <1>5
    <3>3. (n + 1) + 1 = n + 2 /\ (n + 2) - 1 = n + 1
      BY <1>5
    <3> QED BY <1>2, <3>1, <3>2, <3>3
  <2>3. CASE (i - (n + 2)) + 1 \in DOMAIN todo \ {1} /\ todo'[i] = todo[(i - (n + 2)) + 1]
    <3>6. PICK k \in DOMAIN todo \ {1} : k = (i - (n + 2)) + 1 /\ todo'[i] = todo[k]
      BY <2>3
    <3>1. (n + 2) + (k - 1) = i /\ k \in Nat /\ k \in DOMAIN todo /\ k # 1 /\ todo'[i] = todo[k]
      <4>1. k \in Nat /\ i \in Nat /\ n \in Nat
        BY <1>4, <1>5, <1>6
      <4> QED BY <3>6, <4>1
    <3>2. (n + 2) + ((k + 1) - 1) = i + 1 /\ (n + 2) + ((k - 1) - 1) = i - 1
      <4> HIDE DEF n
      <4> QED BY <1>5, <3>1
    <3>3. InOrder
      BY <1>1 DEF Labels
    <3>4. ASSUME todo[k][1] = "header"
          PROVE  i + 1 \in DOMAIN todo' /\ todo'[i + 1] = <<"stmts", todo[k][2]>>
      <4>1. k + 1 \in DOMAIN todo \ {1} /\ todo[k + 1] = <<"stmts", todo[k][2]>>
        BY <1>4, <3>1, <3>3, <3>4 DEF InOrder
      <4>2. (n + 2) + ((k + 1) - 1) \in DOMAIN todo' /\ todo'[(n + 2) + ((k + 1) - 1)] = todo[k + 1]
        BY <1>5, <4>1
      <4> QED BY <3>2, <4>1, <4>2
    <3>5. ASSUME todo[k][1] = "stmts" PROVE todo'[i - 1] = <<"header", todo[k][2]>>
      <4>1. todo[k - 1] = <<"header", todo[k][2]>>
        BY <3>1, <3>3, <3>5 DEF InOrder
      <4>2. k - 1 # 1
        BY <1>1, <4>1
      <4>3. k - 1 \in DOMAIN todo \ {1}
        BY <1>4, <3>1, <4>2
      <4>4. todo'[(n + 2) + ((k - 1) - 1)] = todo[k - 1]
        BY <1>5, <4>3
      <4> QED BY <3>2, <4>1, <4>4
    <3> QED BY <3>1, <3>4, <3>5
  <2> QED BY <1>5, <2>1, <2>2, <2>3
<1>8. \A f : ~Next1(f)' /\ ~Next1(f)
  <2>1. ~Next1(h)' /\ todo'[1][1] # "stmts"
    <3>1. CASE n = 0
      <4>1. todo'[0 + 1] = b[1]
        BY <1>5, <3>1
      <4> QED BY <1>2, <4>1 DEF Next1
    <3>2. CASE n # 0
      <4>1. 1 \in 1 .. n /\ 1 - n \notin 1 .. 2 /\ (1 - (n + 2)) + 1 \notin Nat
        BY <1>5, <3>2
      <4>2. n + 1 \in DOMAIN todo'
        BY <1>5
      <4>3. 1 \in DOMAIN todo' /\ DOMAIN todo \subseteq Nat
        BY <1>4, <1>5, <4>2
      <4>4. \E g \in ToSet(Children(h)) : todo'[1] = <<"fundef", g>>
        BY <1>5, <4>1, <4>3
      <4> QED BY <4>4 DEF Next1
    <3> QED BY <3>1, <3>2
  <2> QED BY <1>1, <2>1 DEF Next1
<1>9. \A k : Filled(k) => Filled(k)'
  BY <1>3, <1>4, SameCode DEF Filled
<1>10. \A k \in DOMAIN functions : Filled(k)
  BY <1>1, <1>8 DEF Labels, Empty
<1>11. \A f \in Funs : Coming(f)' \/ Waits("header", f)' \/ Labelled(f)'
  <2> TAKE f \in Funs
  <2>1. CASE Labelled(f)
    BY <1>3, <2>1 DEF Labelled
  <2>2. CASE Waits("header", f)
    <3>1. PICK i \in DOMAIN todo : todo[i] = <<"header", f>>
      BY <2>2 DEF Waits
    <3>2. i \in DOMAIN todo \ {1}
      BY <1>1, <3>1
    <3>3. \E j \in DOMAIN todo' : todo'[j] = todo[i]
      BY <1>1, <1>2, <1>3, <3>2, Kept
    <3> QED BY <3>1, <3>3 DEF Waits
  <2>3. CASE Coming(f)
    <3>1. f = h \/ Coming(f)'
      BY <1>1, <1>2, <1>3, <2>3, ComingNearer
    <3>2. Waits("header", h)'
      BY <1>2, <1>5 DEF Waits
    <3> QED BY <3>1, <3>2 DEF Waits
  <2> QED BY <1>1, <2>1, <2>2, <2>3 DEF Labels
<1> QED BY <1>1, <1>3, <1>4, <1>7, <1>8, <1>9, <1>10, <1>11 DEF Labels

(* What is the same after the head of todo was left out.                   *)
LEMMA LabelsTail ==
  ASSUME Typed, InOrder, todo # <<>>, todo' = Tail(todo), prog' = prog, todo[1][1] # "fundef"
  PROVE  /\ InOrder'
         /\ \A f : Coming(f) => Coming(f)'
         /\ \A part, f : Waits(part, f) => todo[1] = <<part, f>> \/ Waits(part, f)'
         /\ \A f : Next1(f)' => todo[1] = <<"header", f>>
         /\ \A f : todo[1] = <<"header", f>> => Next1(f)'
<1>1. todo \in Seq(Visits)
  BY DEF Typed
<1>2. /\ todo' \in Seq(Visits) /\ 1 \in DOMAIN todo
      /\ \A i \in DOMAIN todo' : i + 1 \in DOMAIN todo \ {1} /\ todo'[i] = todo[i + 1]
      /\ \A i \in DOMAIN todo \ {1} : i - 1 \in DOMAIN todo' /\ todo'[i - 1] = todo[i]
  BY <1>1, Skipped
<1>3. /\ \A i \in DOMAIN todo : i \in Nat \ {0}
      /\ \A i \in DOMAIN todo' : i \in Nat \ {0}
      /\ todo' # <<>> => 1 \in DOMAIN todo'
      /\ 1 \in DOMAIN todo' => todo' # <<>>
  <2> DEFINE t == todo'
  <2>1. t \in Seq(Visits) /\ todo \in Seq(Visits)
    BY <1>1, <1>2
  <2> HIDE DEF t
  <2>2. /\ \A i \in DOMAIN todo : i \in Nat \ {0}
        /\ \A i \in DOMAIN t : i \in Nat \ {0}
    BY <2>1
  <2>3. t # <<>> => 1 \in DOMAIN t
    BY <2>1
  <2>4. 1 \in DOMAIN t => t # <<>>
    BY <2>1
  <2> QED BY <2>2, <2>3, <2>4 DEF t
<1>4. InOrder'
  <2> SUFFICES ASSUME NEW i \in DOMAIN todo'
               PROVE  /\ todo'[i][1] = "header" => i + 1 \in DOMAIN todo' /\ todo'[i + 1] = <<"stmts", todo'[i][2]>>
                      /\ todo'[i][1] = "stmts" /\ i # 1 => todo'[i - 1] = <<"header", todo'[i][2]>>
    BY DEF InOrder
  <2>1. i + 1 \in DOMAIN todo /\ i + 1 # 1 /\ todo'[i] = todo[i + 1]
    BY <1>2
  <2>2. ASSUME todo'[i][1] = "header"
        PROVE  i + 1 \in DOMAIN todo' /\ todo'[i + 1] = <<"stmts", todo'[i][2]>>
    <3>1. (i + 1) + 1 \in DOMAIN todo /\ todo[(i + 1) + 1] = <<"stmts", todo'[i][2]>>
      BY <2>1, <2>2 DEF InOrder
    <3>2. ((i + 1) + 1) - 1 = i + 1 /\ (i + 1) + 1 # 1
      BY <1>3
    <3>3. ((i + 1) + 1) - 1 \in DOMAIN todo' /\ todo'[((i + 1) + 1) - 1] = todo[(i + 1) + 1]
      BY <1>2, <3>1, <3>2
    <3> QED BY <3>1, <3>2, <3>3
  <2>3. ASSUME todo'[i][1] = "stmts", i # 1 PROVE todo'[i - 1] = <<"header", todo'[i][2]>>
    <3>1. todo[(i + 1) - 1] = <<"header", todo'[i][2]>>
      BY <2>1, <2>3 DEF InOrder
    <3>2. (i + 1) - 1 = i /\ i \in DOMAIN todo \ {1}
      BY <1>1, <1>3, <2>1, <2>3
    <3>3. todo'[i - 1] = todo[i]
      BY <1>2, <3>2
    <3> QED BY <3>1, <3>2, <3>3
  <2> QED BY <2>2, <2>3
<1>5. \A f : Coming(f) => Coming(f)'
  BY ComingStill
<1>6. \A part, f : Waits(part, f) => todo[1] = <<part, f>> \/ Waits(part, f)'
  BY <1>2, ZenonT(30) DEF Waits
<1>7. ASSUME NEW f, Next1(f)' PROVE todo[1] = <<"header", f>>
  <2>1. 1 \in DOMAIN todo' /\ todo'[1] = <<"stmts", f>>
    BY <1>3, <1>7 DEF Next1
  <2>2. 1 + 1 \in DOMAIN todo /\ todo[1 + 1] = <<"stmts", f>> /\ 1 + 1 # 1 /\ (1 + 1) - 1 = 1
    BY <1>2, <2>1
  <2>3. todo[(1 + 1) - 1] = <<"header", f>>
    BY <2>2 DEF InOrder
  <2> QED BY <2>2, <2>3
<1>8. ASSUME NEW f, todo[1] = <<"header", f>> PROVE Next1(f)'
  <2>1. 1 + 1 \in DOMAIN todo /\ todo[1 + 1] = <<"stmts", f>>
    BY <1>2, <1>8 DEF InOrder
  <2>2. (1 + 1) - 1 = 1 /\ 1 + 1 # 1
    OBVIOUS
  <2>3. 1 \in DOMAIN todo' /\ todo'[1] = <<"stmts", f>>
    BY <1>2, <2>1, <2>2
  <2> QED BY <1>3, <2>3 DEF Next1
<1> QED BY <1>4, <1>5, <1>6, <1>7, <1>8

LEMMA LabelsHeader ==
  ASSUME Typed, Emissions, Labels, nextFunction
  PROVE  Labels'
<1>1. PICK h \in Funs : /\ todo # <<>> /\ todo[1] = <<"header", h>> /\ phase = "codegen"
                        /\ h = Visited
  BY AtHead DEF nextFunction
<1> DEFINE e == [fun |-> h, code |-> <<>>, locals |-> Cardinality(tables[h]) - Len(Params(h))]
<1>2. /\ functions' = <<e>> \o functions /\ todo' = Tail(todo) /\ prog' = prog /\ phase' = phase
      /\ UNCHANGED <<tables, index>>
  BY <1>1 DEF nextFunction
<1>3. e.fun = h /\ e.code = <<>>
  OBVIOUS
<1> HIDE DEF e
<1>4. Funs' = Funs
  BY <1>2, SameTree
<1>5. InOrder
  BY <1>1 DEF Labels
<1>6. /\ InOrder'
      /\ \A f : Coming(f) => Coming(f)'
      /\ \A part, f : Waits(part, f) => todo[1] = <<part, f>> \/ Waits(part, f)'
      /\ \A f : Next1(f)' => todo[1] = <<"header", f>>
      /\ \A f : todo[1] = <<"header", f>> => Next1(f)'
  BY <1>1, <1>2, <1>5, LabelsTail
<1>7. PICK S : functions \in Seq(S)
  BY DEF Emissions
<1>8. functions \in Seq(S \cup {e}) /\ <<e>> \in Seq(S \cup {e})
  BY <1>7
<1>9. /\ 1 \in DOMAIN functions' /\ functions'[1] = e
      /\ \A k \in DOMAIN functions : k + 1 \in DOMAIN functions' /\ functions'[k + 1] = functions[k]
      /\ \A k \in DOMAIN functions' : k # 1 => k - 1 \in DOMAIN functions /\ functions'[k] = functions[k - 1]
  BY <1>2, <1>8
<1>10. \A f \in Funs : Next1(f)' => 1 \in DOMAIN functions' /\ functions'[1].fun = f /\ functions'[1].code = <<>>
  BY <1>1, <1>3, <1>6, <1>9
<1>11. \A k \in DOMAIN functions : Filled(k)
  BY <1>1 DEF Labels, Empty, Next1
<1>12. \A k \in DOMAIN functions' : k # 1 => Filled(k)'
  <2> SUFFICES ASSUME NEW k \in DOMAIN functions', k # 1 PROVE Filled(k)'
    OBVIOUS
  <2>1. Filled(k - 1) /\ functions'[k] = functions[k - 1]
    BY <1>9, <1>11
  <2> QED BY <1>2, <1>4, <2>1, SameCode DEF Filled
<1>13. Empty(1)'
  <2>1. Next1(h)'
    BY <1>1, <1>6
  <2>2. functions'[1].fun = h /\ functions'[1].code = <<>>
    BY <1>3, <1>9
  <2> QED BY <2>1, <2>2 DEF Empty, Next1
<1>14. \A f \in Funs : Coming(f)' \/ Waits("header", f)' \/ Labelled(f)'
  <2> TAKE f \in Funs
  <2>1. CASE Labelled(f)
    BY <1>9, <2>1 DEF Labelled
  <2>2. CASE f = h
    BY <1>3, <1>9, <2>2 DEF Labelled
  <2>3. CASE Waits("header", f) /\ f # h
    BY <1>1, <1>6, <2>3
  <2> QED BY <1>1, <1>6, <2>1, <2>2, <2>3 DEF Labels
<1> QED BY <1>1, <1>2, <1>4, <1>6, <1>10, <1>12, <1>13, <1>14 DEF Labels

LEMMA LabelsStmts ==
  ASSUME Typed, Emissions, Labels, CodegenStmts
  PROVE  Labels'
<1>1. PICK h \in Funs : /\ todo # <<>> /\ todo[1] = <<"stmts", h>> /\ phase = "codegen"
                        /\ h = Visited /\ ~LookupFails(h)
  BY AtHead DEF CodegenStmts
<1> DEFINE c == StmtsCode(h)
<1>2. /\ functions' = [functions EXCEPT ![1] = [@ EXCEPT !.code = Append(functions[1].code, c)]]
      /\ todo' = Tail(todo) /\ prog' = prog /\ phase' = phase /\ UNCHANGED <<tables, index>>
  BY <1>1 DEF CodegenStmts
<1>3. Funs' = Funs /\ InOrder
  BY <1>1, <1>2, SameTree DEF Labels
<1>4. /\ InOrder'
      /\ \A f : Coming(f) => Coming(f)'
      /\ \A part, f : Waits(part, f) => todo[1] = <<part, f>> \/ Waits(part, f)'
      /\ \A f : ~Next1(f)'
  <2>1. /\ InOrder'
        /\ \A f : Coming(f) => Coming(f)'
        /\ \A part, f : Waits(part, f) => todo[1] = <<part, f>> \/ Waits(part, f)'
        /\ \A f : Next1(f)' => todo[1] = <<"header", f>>
    BY <1>1, <1>2, <1>3, LabelsTail
  <2> QED BY <1>1, <2>1
<1>5. 1 \in DOMAIN functions /\ functions[1].fun = h /\ functions[1].code = <<>> /\ Emission(functions[1])
  BY <1>1 DEF Labels, Next1, Emissions
<1> HIDE DEF c
<1>6. functions'[1].fun = h /\ functions'[1].code = <<c>>
  <2>1. functions'[1] = [fun |-> h, code |-> Append(functions[1].code, c), locals |-> functions[1].locals]
    BY <1>2, <1>5 DEF Emission
  <2>2. Append(functions[1].code, c) = <<c>>
    BY <1>5
  <2> QED BY <2>1, <2>2
<1>7. DOMAIN functions' = DOMAIN functions /\ \A k \in DOMAIN functions : k # 1 => functions'[k] = functions[k]
  BY <1>2
<1>8. \A k \in DOMAIN functions : k # 1 => Filled(k)
  BY <1>1 DEF Labels, Empty
<1>9. \A f : StmtsCode(f)' = StmtsCode(f) /\ (LookupFails(f)' <=> LookupFails(f))
  BY <1>2, SameCode
<1>10. \A k \in DOMAIN functions : Filled(k)'
  <2> SUFFICES ASSUME NEW k \in DOMAIN functions PROVE Filled(k)'
    OBVIOUS
  <2>1. CASE k = 1
    BY <1>1, <1>3, <1>6, <1>9, <2>1 DEF Filled, c
  <2>2. CASE k # 1
    BY <1>3, <1>7, <1>8, <1>9, <2>2 DEF Filled
  <2> QED BY <2>1, <2>2
<1>11. \A f \in Funs : Coming(f)' \/ Waits("header", f)' \/ Labelled(f)'
  <2> TAKE f \in Funs
  <2>1. CASE Labelled(f)
    <3>1. PICK k \in DOMAIN functions : functions[k].fun = f
      BY <2>1 DEF Labelled
    <3>2. functions'[k].fun = f
      BY <1>5, <1>6, <1>7, <3>1
    <3> QED BY <1>7, <3>1, <3>2 DEF Labelled
  <2>2. CASE Waits("header", f)
    BY <1>1, <1>4, <2>2
  <2> QED BY <1>1, <1>4, <2>1, <2>2 DEF Labels
<1> QED BY <1>1, <1>2, <1>3, <1>4, <1>7, <1>10, <1>11 DEF Labels

LEMMA LabelsStep == Typed /\ Emissions /\ Labels /\ [Next]_vars => Labels'
<1> SUFFICES ASSUME Typed, Emissions, Labels, [Next]_vars PROVE Labels'
  OBVIOUS
<1>1. prog' = prog
  BY SameProgram
<1>2. Funs' = Funs
  BY <1>1, SameTree
<1>3. CASE phase' = "run" /\ phase \in {"codegen", "run"} /\ (phase = "codegen" => todo = <<>>)
           /\ UNCHANGED <<tables, index, functions>>
  <2>1. \A k \in DOMAIN functions : Filled(k)
    BY <1>3 DEF Labels, Empty, Next1
  <2>2. \A f \in Funs : Labelled(f)
    BY <1>3, NoneComing DEF Labels
  <2>3. \A k \in DOMAIN functions : Filled(k)'
    BY <1>1, <1>2, <1>3, <2>1, SameCode DEF Filled
  <2> QED BY <1>2, <1>3, <2>2, <2>3 DEF Labels, Labelled
<1>4. CASE CodegenDone \/ Start \/ Call \/ Return
  BY <1>3, <1>4 DEF CodegenDone, Start, Call, Return
<1>5. CASE UNCHANGED vars
  <2>1. UNCHANGED <<phase, todo, tables, index, functions>>
    BY <1>5 DEF vars
  <2>2. \A f, n : Outward(f, n)' = Outward(f, n)
    BY <1>1, SameTree
  <2>3. \A f : StmtsCode(f)' = StmtsCode(f) /\ (LookupFails(f)' <=> LookupFails(f))
    BY <1>1, <2>1, SameCode
  <2>4. \A k : (Filled(k)' <=> Filled(k)) /\ (Empty(k)' <=> Empty(k))
    BY <1>2, <2>1, <2>3 DEF Filled, Empty, Next1
  <2>5. \A f : /\ Coming(f)' <=> Coming(f)
               /\ Waits("header", f)' <=> Waits("header", f)
               /\ Labelled(f)' <=> Labelled(f)
               /\ Next1(f)' <=> Next1(f)
    BY <2>1, <2>2 DEF Coming, Waits, Labelled, Next1
  <2>6. InOrder' <=> InOrder
    BY <2>1 DEF InOrder
  <2> QED BY <1>2, <2>1, <2>4, <2>5, <2>6 DEF Labels
<1>6. CASE For2WhileFundef \/ For2WhileStmts \/ NextPass("for2while", "index") \/ IndexLocals \/ CodegenCrash
  <2>1. phase' \notin {"codegen", "run"}
    BY <1>6 DEF For2WhileFundef, For2WhileStmts, NextPass, IndexLocals, CodegenCrash, At
  <2> QED BY <2>1 DEF Labels
<1> QED BY <1>4, <1>5, <1>6, LabelsFirst, LabelsFundef, LabelsHeader, LabelsStmts DEF Next

LEMMA AlwaysLabels ==
  Spec => [](Typed /\ Lowering /\ Indexing /\ Emissions /\ Labels)
<1>1. Init => Labels
  BY DEF Init, Labels
<1> QED BY <1>1, AlwaysIndexing, AlwaysEmissions, LabelsStep, PTL DEF Spec

(* For every program: when all is generated, each label has the statements *)
(* of its function under it, once, and none has another function's.        *)
THEOREM CodeStaysUnderItsLabel == Spec => []CodeUnderItsLabel
<1>1. Typed /\ Labels => CodeUnderItsLabel
  <2> SUFFICES ASSUME Labels, phase = "run", NEW f \in Funs
               PROVE  \E e \in ToSet(functions) : e.fun = f /\ e.code = <<StmtsCode(f)>>
    BY DEF CodeUnderItsLabel
  <2>1. PICK k \in DOMAIN functions : functions[k].fun = f
    BY DEF Labels, Labelled
  <2>2. functions[k].code = <<StmtsCode(f)>>
    BY <2>1 DEF Labels, Filled
  <2> QED BY <2>1, <2>2 DEF ToSet
<1> QED BY <1>1, AlwaysLabels, PTL

-----------------------------------------------------------------------------
(* Where lookups lead.                                                     *)
LEMMA LookupLeads ==
  ASSUME Tree, NEW f \in Funs, NEW key, LookupUps(f, key) # {}
  PROVE  /\ symtable_lookup(f, key) \in 0 .. f
         /\ key \in tables[Outward(f, symtable_lookup(f, key))]
         /\ Outward(f, symtable_lookup(f, key)) \in Funs \cup {0}
<1>1. f \in Nat
  BY TreeFacts
<1>2. LookupUps(f, key) \subseteq Nat
  BY <1>1 DEF LookupUps
<1>3. symtable_lookup(f, key) \in LookupUps(f, key)
  BY <1>2, Least DEF symtable_lookup, Min
<1> QED BY <1>2, <1>3, OutwardFacts DEF LookupUps

(* A table holds a variable of its own function, and a temporary of a      *)
(* function around it, only.                                               *)
LEMMA LoadAddress ==
  ASSUME Tree, TablesOK, NEW f \in Funs, ~LookupFails(f), NEW v \in Used(f)
  PROVE  /\ symtable_lookup(f, v) \in Nat
         /\ Outward(f, symtable_lookup(f, v)) = v.of
         /\ v.of \in Funs
<1> DEFINE up == symtable_lookup(f, v)
           g == Outward(f, up)
<1>1. LookupUps(f, v) # {}
  BY DEF LookupFails
<1>2. up \in 0 .. f /\ v \in tables[g] /\ g \in Funs \cup {0} /\ f \in Nat
  BY <1>1, LookupLeads, TreeFacts
<1>3. up \in Nat /\ Outward(f, up) = g
  BY <1>2
<1> HIDE DEF up, g
<1>4. Known(g, v)
  BY <1>2 DEF TablesOK
<1>5. CASE v \in Seen(f)
  <2>1. PICK n \in 0 .. f : /\ Outward(f, n) \in Funs
                            /\ \E x : v = Var(x, Outward(f, n)) /\ x \notin {"gen", "function"}
    BY <1>5, SeenVariables
  <2>2. PICK x : v = Var(x, Outward(f, n)) /\ x \notin {"gen", "function"}
    BY <2>1
  <2>3. v.of = Outward(f, n) /\ v.id = x
    BY <2>2 DEF Var
  <2>4. \A h : v # FunId(h)
    BY <2>2, <2>3 DEF FunId
  <2>5. \A h, k : v # Temp(h, k)
    BY <2>2, <2>3 DEF Temp
  <2>6. g \in Funs /\ v \in ToSet(Params(g)) \cup {Var(y, g) : y \in prog.locals[g]}
    BY <1>4, <2>4, <2>5 DEF Known
  <2>7. v.of = g
    BY <2>6, ParamFacts DEF Var
  <2> QED BY <1>3, <2>6, <2>7 DEF up, g
<1>6. CASE \E k \in 1 .. prog.temps[f] : v = Temp(f, k)
  <2>1. PICK k \in 1 .. prog.temps[f] : v = Temp(f, k)
    BY <1>6
  <2>2. v.of = f /\ v.id = "gen"
    BY <2>1 DEF Temp
  <2>3. \A h : v # FunId(h)
    BY <2>2 DEF FunId
  <2>4. v \notin ToSet(Params(g)) \cup {Var(y, g) : y \in prog.locals[g]} \/ g \notin Funs
    <3> SUFFICES ASSUME g \in Funs, NEW x, v = Var(x, g), x \notin {"gen", "function"} PROVE FALSE
      BY ParamFacts
    <3> QED BY <2>2 DEF Var
  <2>5. PICK h \in Funs, n \in Nat \ {0} : v = Temp(h, n) /\ Within(g, h)
    BY <1>4, <2>3, <2>4 DEF Known
  <2>6. h = f
    BY <2>2, <2>5 DEF Temp
  <2>7. g \in Funs /\ f <= g
    BY <1>2, <2>5, <2>6, WithinFacts
  <2>8. g + up <= f
    BY <1>3, <2>7, OutwardBound, TreeFacts
  <2>9. g = f
    BY <1>2, <1>3, <2>7, <2>8, TreeFacts
  <2> QED BY <1>3, <2>2, <2>9 DEF up, g
<1> QED BY <1>5, <1>6 DEF Used

LEMMA CallAddress ==
  ASSUME Tree, TablesOK, NEW f \in Funs, NEW g \in Callable(f)
  PROVE  /\ g \in Funs /\ symtable_lookup(f, FunId(g)) \in Nat
         /\ Outward(f, symtable_lookup(f, FunId(g))) = prog.parent[g]
<1>1. PICK n \in 0 .. f : g \in Funs /\ prog.parent[g] = Outward(f, n)
  BY DEF Callable
<1>2. f \in Nat /\ n \in Nat /\ Outward(f, n) \in Funs \cup {0}
  BY TreeFacts, OutwardFacts
<1>3. g \in ToSet(Children(Outward(f, n)))
  BY <1>1, TreeFacts
<1>4. FunId(g) \in tables[Outward(f, n)]
  BY <1>2, <1>3 DEF TablesOK
<1>5. LookupUps(f, FunId(g)) # {}
  BY <1>1, <1>4 DEF LookupUps
<1> DEFINE up == symtable_lookup(f, FunId(g))
           h == Outward(f, up)
<1>6. up \in Nat /\ h \in Funs \cup {0} /\ FunId(g) \in tables[h]
  BY <1>2, <1>5, LookupLeads
<1> HIDE DEF up, h
<1>7. Known(h, FunId(g))
  BY <1>6 DEF TablesOK
<1>8. \E e \in ToSet(Children(h)) : FunId(g) = FunId(e)
  <2>1. \A e \in Funs, k \in Nat : FunId(g) # Temp(e, k)
    BY DEF FunId, Temp
  <2>2. h \in Funs => FunId(g) \notin ToSet(Params(h)) \cup {Var(y, h) : y \in prog.locals[h]}
    <3> SUFFICES ASSUME h \in Funs, NEW x, FunId(g) = Var(x, h), x \notin {"gen", "function"} PROVE FALSE
      BY ParamFacts
    <3> QED BY DEF Var, FunId
  <2> QED BY <1>7, <2>1, <2>2 DEF Known
<1>9. g \in ToSet(Children(h))
  BY <1>8 DEF FunId
<1>10. prog.parent[g] = h
  BY <1>6, <1>9, TreeFacts
<1> QED BY <1>1, <1>6, <1>10 DEF up, h

-----------------------------------------------------------------------------
(* The stack: a frame's static link is an older frame of the function      *)
(* around its own, and a frame sees what that frame sees.                  *)
FrameOK(fs, i) ==
  /\ fs[i].fun \in Funs
  /\ fs[i].link \in 0 .. i - 1
  /\ fs[i].link = 0 <=> prog.parent[fs[i].fun] = 0
  /\ fs[i].link # 0 => fs[fs[i].link].fun = prog.parent[fs[i].fun]
  /\ fs[i].scope[fs[i].fun] = i
  /\ DOMAIN fs[i].scope = {g \in Funs : Within(fs[i].fun, g)}
  /\ \A g \in Funs : Within(fs[i].fun, g) /\ g # fs[i].fun =>
       fs[i].link # 0 /\ fs[i].scope[g] = fs[fs[i].link].scope[g]

Stack ==
  /\ \E S : frames \in Seq(S)
  /\ \A i \in DOMAIN frames : FrameOK(frames, i)
  /\ phase # "run" => frames = <<>>

LEMMA SameFrame ==
  ASSUME NEW fs, NEW gs, NEW i \in Nat \ {0}, \A j \in 1 .. i : gs[j] = fs[j], FrameOK(fs, i)
  PROVE  FrameOK(gs, i)
<1>1. gs[i] = fs[i] /\ (fs[i].link # 0 => gs[fs[i].link] = fs[fs[i].link])
  BY DEF FrameOK
<1> QED BY <1>1 DEF FrameOK

(* Following n links leads to the frame that is seen of the function n     *)
(* levels out.                                                             *)
Reaches(i, f, n) ==
  IF Outward(f, n) = 0
  THEN Linked(i, n) = 0
  ELSE /\ Linked(i, n) \in 1 .. i
       /\ frames[Linked(i, n)].fun = Outward(f, n)
       /\ Linked(i, n) = frames[i].scope[Outward(f, n)]
       /\ \A g \in Funs : Within(Outward(f, n), g) =>
            frames[Linked(i, n)].scope[g] = frames[i].scope[g]

LEMMA LinkedFacts ==
  ASSUME Stack, NEW i \in DOMAIN frames, NEW n \in Nat
  PROVE  /\ Linked(i, 0) = i
         /\ Linked(i, n + 1) = IF Linked(i, n) = 0 THEN 0 ELSE frames[Linked(i, n)].link
<1>1. DOMAIN frames = 1 .. Len(frames) /\ Len(frames) \in Nat
  BY DEF Stack
<1> DEFINE D == 0 .. Len(frames)
<1>2. \A j \in D : j # 0 => frames[j].link \in D
  BY <1>1 DEF Stack, FrameOK
<1>3. Link \in [D -> D] /\ i \in D
  BY <1>1, <1>2 DEF Link
<1>4. /\ Steps(Link, i, 0) = i
      /\ Steps(Link, i, n) \in D
      /\ Steps(Link, i, n + 1) = Link[Steps(Link, i, n)]
  <2> HIDE DEF D
  <2> QED BY <1>3, StepsProperties
<1>5. \A j \in D : Link[j] = IF j = 0 THEN 0 ELSE frames[j].link
  BY DEF Link
<1> QED BY <1>4, <1>5 DEF Linked

LEMMA LinksReach ==
  ASSUME Tree, Stack, NEW i \in DOMAIN frames, NEW f, f = frames[i].fun
  PROVE  \A n \in Nat : Reaches(i, f, n)
<1> DEFINE T == {n \in Nat : Reaches(i, f, n)}
<1>1. DOMAIN frames = 1 .. Len(frames) /\ Len(frames) \in Nat /\ FrameOK(frames, i) /\ f \in Funs
  BY DEF Stack, FrameOK
<1>2. 0 \in T
  <2>1. Outward(f, 0) = f /\ f # 0
    BY <1>1, OutwardFacts, TreeFacts
  <2>2. Linked(i, 0) = i
    BY LinkedFacts
  <2>3. i \in 1 .. i /\ i = frames[i].scope[f]
    BY <1>1 DEF FrameOK
  <2> QED BY <2>1, <2>2, <2>3 DEF Reaches
<1>3. ASSUME NEW n \in Nat, n \in T PROVE n + 1 \in T
  <2>1. Reaches(i, f, n)
    BY <1>3
  <2>2. /\ Linked(i, n + 1) = IF Linked(i, n) = 0 THEN 0 ELSE frames[Linked(i, n)].link
        /\ Outward(f, n + 1) = IF Outward(f, n) = 0 THEN 0 ELSE prog.parent[Outward(f, n)]
        /\ Outward(f, n) \in Funs \cup {0}
    BY <1>1, LinkedFacts, OutwardFacts
  <2>3. CASE Outward(f, n) = 0
    BY <2>1, <2>2, <2>3 DEF Reaches
  <2>4. CASE Outward(f, n) # 0
    <3> DEFINE h == Outward(f, n)
               j == Linked(i, n)
               p == prog.parent[h]
               k == frames[j].link
    <3>1. /\ j \in 1 .. i /\ frames[j].fun = h /\ h \in Funs /\ j # 0
          /\ \A g \in Funs : Within(h, g) => frames[j].scope[g] = frames[i].scope[g]
      BY <2>1, <2>2, <2>4 DEF Reaches
    <3>2. Outward(f, n + 1) = p /\ Linked(i, n + 1) = k
      BY <2>2, <2>4, <3>1
    <3>3. FrameOK(frames, j) /\ j \in DOMAIN frames
      BY <1>1, <3>1 DEF Stack
    <3>4. p \in Funs \cup {0} /\ p < h /\ h \in Nat /\ p \in Nat
      BY <3>1, TreeFacts
    <3> HIDE DEF h, j, p
    <3>5. CASE p = 0
      <4>1. k = 0
        BY <3>1, <3>3, <3>5 DEF FrameOK, p
      <4> QED BY <3>2, <3>5, <4>1 DEF Reaches
    <3>6. CASE p # 0
      <4>1. p \in Funs
        BY <3>4, <3>6
      <4>2. k # 0 /\ k \in 0 .. j - 1 /\ frames[k].fun = p
        BY <3>1, <3>3, <3>6 DEF FrameOK, p
      <4>3. k \in 1 .. i /\ k \in DOMAIN frames
        BY <1>1, <3>1, <4>2
      <4>4. FrameOK(frames, k)
        BY <4>3 DEF Stack
      <4>5. ASSUME NEW g \in Funs, Within(p, g)
            PROVE  frames[k].scope[g] = frames[i].scope[g]
        <5>1. g <= p /\ g \in Nat
          BY <4>1, <4>5, WithinFacts, TreeFacts
        <5>2. Within(h, g) /\ g # h
          <6>1. h # 0
            BY <3>1, TreeFacts
          <6>2. Within(h, g) <=> g = h \/ Within(prog.parent[h], g)
            BY <3>1, <6>1, WithinFacts
          <6> QED BY <3>4, <4>5, <5>1, <6>2 DEF p
        <5>3. frames[j].scope[g] = frames[k].scope[g]
          BY <3>1, <3>3, <5>2 DEF FrameOK
        <5> QED BY <3>1, <5>2, <5>3
      <4>6. k = frames[i].scope[p]
        <5>1. frames[k].scope[p] = k
          BY <4>2, <4>4 DEF FrameOK
        <5>2. Within(p, p)
          BY <4>1, WithinFacts
        <5> QED BY <4>1, <4>5, <5>1, <5>2
      <4> QED BY <3>2, <3>6, <4>2, <4>3, <4>5, <4>6 DEF Reaches
    <3> QED BY <3>5, <3>6
  <2> QED BY <2>3, <2>4
<1> HIDE DEF T
<1>4. \A n \in Nat : n \in T
  BY <1>2, <1>3, AllNumbers
<1> QED BY <1>4 DEF T

LEMMA CodeAtRun ==
  ASSUME Labels, phase = "run", NEW f \in Funs
  PROVE  ~LookupFails(f) /\ CodeOf(f) = StmtsCode(f)
<1>1. \E e \in ToSet(functions) : e.fun = f
  BY DEF Labels, Labelled, ToSet
<1>2. Emitted(f) \in ToSet(functions) /\ Emitted(f).fun = f
  BY <1>1 DEF Emitted
<1>3. PICK k \in DOMAIN functions : Emitted(f) = functions[k]
  BY <1>2 DEF ToSet
<1>4. Filled(k)
  BY DEF Labels
<1>5. ~LookupFails(f) /\ Emitted(f).code = <<StmtsCode(f)>>
  BY <1>2, <1>3, <1>4 DEF Filled
<1>6. Emitted(f).code # <<>> /\ Emitted(f).code[1] = StmtsCode(f)
  BY <1>5
<1> QED BY <1>5, <1>6 DEF CodeOf

LEMMA NewFrameFields ==
  ASSUME NEW f, NEW link, NEW args, NEW scope
  PROVE  /\ NewFrame(f, link, args, scope).fun = f
         /\ NewFrame(f, link, args, scope).link = link
         /\ DOMAIN NewFrame(f, link, args, scope).scope = {f} \cup DOMAIN scope
         /\ NewFrame(f, link, args, scope).scope[f] = Len(frames) + 1
         /\ \A g \in DOMAIN scope : g # f => NewFrame(f, link, args, scope).scope[g] = scope[g]
BY DEF NewFrame

(* A new frame on top of the old ones.                                     *)
LEMMA Pushes ==
  ASSUME Stack, NEW x, NEW gs, gs = Append(frames, x)
  PROVE  /\ \E S : gs \in Seq(S)
         /\ DOMAIN gs = DOMAIN frames \cup {Len(frames) + 1} /\ gs[Len(frames) + 1] = x
         /\ Len(frames) \in Nat /\ DOMAIN frames = 1 .. Len(frames)
         /\ \A j \in DOMAIN frames : gs[j] = frames[j] /\ FrameOK(gs, j)
<1>1. PICK S : frames \in Seq(S)
  BY DEF Stack
<1>2. frames \in Seq(S \cup {x}) /\ Len(frames) \in Nat /\ DOMAIN frames = 1 .. Len(frames)
  BY <1>1
<1>3. gs \in Seq(S \cup {x}) /\ DOMAIN gs = 1 .. Len(frames) + 1 /\ gs[Len(frames) + 1] = x
  BY <1>2
<1>4. \A j \in DOMAIN frames : gs[j] = frames[j]
  BY <1>2
<1>5. ASSUME NEW j \in DOMAIN frames PROVE FrameOK(gs, j)
  <2>1. FrameOK(frames, j) /\ j \in Nat \ {0}
    BY <1>2 DEF Stack
  <2>2. \A i \in 1 .. j : gs[i] = frames[i]
    BY <1>2, <1>4
  <2> QED BY <2>1, <2>2, SameFrame
<1>6. DOMAIN gs = DOMAIN frames \cup {Len(frames) + 1}
  BY <1>2, <1>3
<1> QED BY <1>2, <1>3, <1>4, <1>5, <1>6

LEMMA StackStep == Typed /\ Lowering /\ Labels /\ Stack /\ [Next]_vars => Stack'
<1> SUFFICES ASSUME Typed, Lowering, Labels, Stack, [Next]_vars PROVE Stack'
  OBVIOUS
<1>1. prog' = prog /\ Tree /\ TablesOK
  BY SameProgram DEF Typed, Lowering
<1>2. Funs' = Funs /\ \A g, f : Within(g, f)' <=> Within(g, f)
  BY <1>1, SameTree
<1> SUFFICES /\ \E S : frames' \in Seq(S)
             /\ \A i \in DOMAIN frames' : FrameOK(frames', i)
             /\ phase' # "run" => frames' = <<>>
  BY <1>1, <1>2 DEF Stack, FrameOK
<1>3. CASE UNCHANGED frames /\ (phase' # "run" => phase # "run")
  BY <1>3 DEF Stack
<1>4. CASE UNCHANGED vars
  BY <1>3, <1>4 DEF vars
<1>5. CASE For2WhileFundef \/ For2WhileStmts \/ NextPass("for2while", "index") \/ IndexLocals
           \/ NextPass("index", "codegen") \/ CodegenFundef \/ nextFunction \/ CodegenStmts
           \/ CodegenCrash \/ CodegenDone
  BY <1>3, <1>5 DEF For2WhileFundef, For2WhileStmts, NextPass, IndexLocals, CodegenFundef, nextFunction,
                    CodegenStmts, CodegenCrash, CodegenDone, At
<1>6. CASE Start
  <2>1. PICK f \in ToSet(Children(0)) : frames' = <<NewFrame(f, 0, <<>>, <<>>)>>
    BY <1>6 DEF Start
  <2> DEFINE x == NewFrame(f, 0, <<>>, <<>>)
  <2>2. f \in Funs /\ prog.parent[f] = 0 /\ f # 0
    BY <1>1, TreeFacts
  <2>3. \A g \in Funs : Within(f, g) <=> g = f
    <3>1. \A g \in Funs : ~Within(0, g)
      BY <1>1, WithinFacts, TreeFacts
    <3> QED BY <1>1, <2>2, <3>1, WithinFacts
  <2>4. frames = <<>> /\ Len(frames) = 0
    BY <1>6 DEF Start
  <2>5. x.fun = f /\ x.link = 0 /\ DOMAIN x.scope = {f} /\ x.scope[f] = 1
    <3> DEFINE none == <<>>
    <3>1. x = NewFrame(f, 0, none, none) /\ DOMAIN none = {}
      OBVIOUS
    <3> HIDE DEF x, none
    <3>2. /\ x.fun = f /\ x.link = 0
          /\ DOMAIN x.scope = {f} \cup DOMAIN none /\ x.scope[f] = Len(frames) + 1
      BY <3>1, NewFrameFields
    <3>3. Len(frames) + 1 = 1 /\ {f} \cup DOMAIN none = {f}
      BY <2>4, <3>1
    <3> QED BY <3>2, <3>3
  <2> HIDE DEF x
  <2>6. frames' = <<x>>
    BY <2>1 DEF x
  <2>7. frames' \in Seq({x}) /\ DOMAIN frames' = {1} /\ frames'[1] = x
    BY <2>6
  <2>8. FrameOK(frames', 1)
    BY <2>2, <2>3, <2>5, <2>7 DEF FrameOK
  <2> QED BY <1>6, <2>7, <2>8 DEF Start
<1>7. CASE Call
  <2> DEFINE i == Len(frames)
             f == frames[i].fun
             top == i + 1
  <2>1. phase = "run" /\ phase' = phase /\ frames # <<>>
    BY <1>7 DEF Call
  <2>2. PICK c \in CodeOf(f).calls :
          \E args : frames' = Append(frames,
            NewFrame(c.callee, Linked(i, c.up), args,
                     [g \in {h \in DOMAIN frames[i].scope : \E n \in 1 .. c.callee : h = Outward(c.callee, n)} |->
                        frames[i].scope[g]]))
    BY <1>7 DEF Call, Top
  <2>3. i \in DOMAIN frames /\ i \in Nat /\ DOMAIN frames = 1 .. i
    BY <2>1 DEF Stack
  <2>4. FrameOK(frames, i) /\ f \in Funs
    BY <2>3 DEF Stack, FrameOK
  <2> HIDE DEF f
  <2>5. PICK g \in Callable(f) : \E a \in Arguments(f, g) : c = CallCode(f, g, a)
    BY <2>1, <2>2, <2>4, CodeAtRun DEF StmtsCode
  <2> DEFINE up == symtable_lookup(f, FunId(g))
             p == prog.parent[g]
             link == Linked(i, up)
             seen == {h \in DOMAIN frames[i].scope : \E n \in 1 .. g : h = Outward(g, n)}
  <2>6. c.callee = g /\ c.up = up
    BY <2>5 DEF CallCode
  <2>7. PICK args : frames' = Append(frames, NewFrame(g, link, args, [h \in seen |-> frames[i].scope[h]]))
    BY <2>2, <2>6
  <2>8. g \in Funs /\ up \in Nat /\ Outward(f, up) = p
    BY <1>1, <2>4, CallAddress
  <2> DEFINE x == NewFrame(g, link, args, [h \in seen |-> frames[i].scope[h]])
  <2>9. /\ x.fun = g /\ x.link = link
        /\ DOMAIN x.scope = {g} \cup seen /\ x.scope[g] = top
        /\ \A h \in seen : h # g => x.scope[h] = frames[i].scope[h]
    <3> DEFINE sc == [h \in seen |-> frames[i].scope[h]]
    <3>1. x = NewFrame(g, link, args, sc) /\ DOMAIN sc = seen /\ \A h \in seen : sc[h] = frames[i].scope[h]
      OBVIOUS
    <3> HIDE DEF x, sc, link, seen
    <3>2. /\ x.fun = g /\ x.link = link
          /\ DOMAIN x.scope = {g} \cup DOMAIN sc /\ x.scope[g] = Len(frames) + 1
          /\ \A h \in DOMAIN sc : h # g => x.scope[h] = sc[h]
      BY <3>1, NewFrameFields
    <3> QED BY <3>1, <3>2
  <2> HIDE DEF x
  <2>10. /\ \E S : frames' \in Seq(S)
         /\ DOMAIN frames' = DOMAIN frames \cup {top} /\ frames'[top] = x
         /\ \A j \in DOMAIN frames : frames'[j] = frames[j] /\ FrameOK(frames', j)
    BY <2>7, Pushes, ZenonT(30) DEF x
  <2>11. Reaches(i, f, up)
    BY <1>1, <2>3, <2>8, LinksReach DEF f
  <2> HIDE DEF up, link
  <2>12. p \in Funs \cup {0} /\ p < g /\ g \in Nat \ {0} /\ p \in Nat
    BY <1>1, <2>8, TreeFacts
  <2>13. IF p = 0 THEN link = 0
         ELSE /\ link \in 1 .. i /\ frames[link].fun = p
              /\ \A h \in Funs : Within(p, h) => frames[link].scope[h] = frames[i].scope[h]
    BY <2>8, <2>11 DEF Reaches, link
  <2>14. \A h \in Funs : Within(g, h) <=> h = g \/ Within(p, h)
    BY <1>1, <2>8, <2>12, WithinFacts
  <2>15. \A h \in Funs : Within(p, h) => p # 0 /\ h # g
    BY <1>1, <2>12, WithinFacts, TreeFacts
  <2>16. seen = {h \in Funs : Within(p, h)}
    <3>1. ASSUME NEW h \in Funs, Within(p, h) PROVE h \in seen
      <4>1. Within(f, p) /\ p \in Funs
        BY <2>8, <2>12, <2>15, <3>1 DEF Within
      <4>2. Within(f, h)
        BY <1>1, <2>4, <3>1, <4>1, WithinFacts
      <4>3. h \in DOMAIN frames[i].scope
        BY <2>4, <4>2 DEF FrameOK, f
      <4>4. PICK n \in Nat : Outward(g, n) = h
        BY <2>14, <3>1 DEF Within
      <4>5. n # 0
        BY <1>1, <2>8, <2>15, <3>1, <4>4, OutwardFacts
      <4>6. h + n <= g /\ h \in Nat \ {0}
        BY <1>1, <2>8, <4>4, OutwardBound, TreeFacts
      <4>7. n \in 1 .. g
        BY <2>12, <4>5, <4>6
      <4> QED BY <4>3, <4>4, <4>7
    <3>2. ASSUME NEW h \in seen PROVE h \in Funs /\ Within(p, h)
      <4>1. h \in Funs
        BY <2>4 DEF FrameOK
      <4>2. PICK n \in 1 .. g : h = Outward(g, n)
        OBVIOUS
      <4>3. n \in Nat /\ n # 0
        BY <2>12
      <4>4. Within(g, h)
        BY <4>2, <4>3 DEF Within
      <4>5. h \in Nat /\ h + n <= g
        BY <1>1, <2>8, <4>1, <4>2, <4>3, OutwardBound, TreeFacts
      <4>6. h # g
        BY <2>12, <4>3, <4>5
      <4> QED BY <2>14, <4>1, <4>4, <4>6
    <3> QED BY <3>1, <3>2
  <2> HIDE DEF seen
  <2>17. DOMAIN x.scope = {h \in Funs : Within(g, h)} /\ x.scope[g] = top
    BY <2>8, <2>9, <2>14, <2>16
  <2>18. ASSUME NEW h \in Funs, Within(g, h), h # g
         PROVE  link # 0 /\ x.scope[h] = frames[link].scope[h]
    <3>1. Within(p, h) /\ p # 0
      BY <2>14, <2>15, <2>18
    <3>2. x.scope[h] = frames[i].scope[h]
      BY <2>9, <2>16, <2>18, <3>1
    <3>3. link # 0
      BY <2>13, <3>1
    <3> QED BY <2>13, <3>1, <3>2, <3>3
  <2>19. FrameOK(frames', top)
    <3>1. link \in 0 .. top - 1 /\ (link = 0 <=> p = 0)
      BY <2>3, <2>13
    <3>2. link # 0 => frames'[link] = frames[link] /\ frames[link].fun = p
      BY <2>3, <2>10, <2>13
    <3>3. frames'[top] = x /\ x.fun = g /\ x.link = link
      BY <2>9, <2>10
    <3> HIDE DEF top
    <3>4. link # 0 => frames'[link].fun = p
      BY <3>2
    <3>5. \A h \in Funs : Within(g, h) /\ h # g => link # 0 /\ x.scope[h] = frames'[link].scope[h]
      BY <2>18, <3>2
    <3> QED BY <2>8, <2>17, <3>1, <3>3, <3>4, <3>5 DEF FrameOK
  <2> QED BY <2>1, <2>10, <2>19
<1>8. CASE Return
  <2>1. frames' = Front(frames) /\ phase' = "run" /\ frames # <<>>
    BY <1>8 DEF Return
  <2>2. PICK S : frames \in Seq(S)
    BY DEF Stack
  <2>3. DOMAIN frames = 1 .. Len(frames) /\ Len(frames) \in Nat \ {0}
    BY <2>1, <2>2
  <2>4. /\ frames' \in Seq(S) /\ DOMAIN frames' = 1 .. Len(frames) - 1
        /\ \A j \in 1 .. Len(frames) - 1 : frames'[j] = frames[j]
    <3>1. Front(frames) = SubSeq(frames, 1, Len(frames) - 1)
      BY DEF Front
    <3>2. 1 \in 1 .. Len(frames) + 1 /\ Len(frames) - 1 \in 1 - 1 .. Len(frames)
      BY <2>3
    <3>3. /\ Front(frames) \in Seq(S) /\ Len(Front(frames)) = Len(frames) - 1
          /\ \A j \in 1 .. Len(frames) - 1 : Front(frames)[j] = frames[j]
      BY <2>2, <2>3, <3>1, <3>2, SubSeqProperties
    <3> QED BY <2>1, <2>3, <3>3
  <2>5. ASSUME NEW j \in DOMAIN frames' PROVE FrameOK(frames', j)
    <3>1. j \in DOMAIN frames /\ j \in Nat \ {0} /\ \A k \in 1 .. j : frames'[k] = frames[k]
      BY <2>3, <2>4
    <3> QED BY <3>1, SameFrame DEF Stack
  <2> QED BY <2>1, <2>4, <2>5
<1> QED BY <1>4, <1>5, <1>6, <1>7, <1>8 DEF Next

LEMMA AlwaysStack ==
  Spec => [](Typed /\ Lowering /\ Labels /\ Stack)
<1>1. Init => Stack
  <2>1. <<>> \in Seq({})
    OBVIOUS
  <2> QED BY <2>1 DEF Init, Stack
<1> QED BY <1>1, AlwaysLabels, StackStep, PTL DEF Spec

(* For every program and every depth of the stack: a load ends up in the   *)
(* activation of the declaring function that its caller saw, at its slot.  *)
THEOREM LoadsAlwaysReach == Spec => []LoadsReachTheirVariable
<1>1. Typed /\ Lowering /\ Labels /\ Stack => LoadsReachTheirVariable
  <2> SUFFICES ASSUME Typed, Lowering, Labels, Stack, NEW i \in DOMAIN frames,
                      NEW l \in CodeOf(frames[i].fun).loads
               PROVE  /\ Linked(i, l.up) = frames[i].scope[l.var.of]
                      /\ l.index = index[l.var.of][l.var]
    BY DEF LoadsReachTheirVariable
  <2>1. PICK f \in Funs : f = frames[i].fun
    BY DEF Stack, FrameOK
  <2>2. phase = "run" /\ Tree /\ TablesOK
    BY DEF Stack, Typed, Lowering
  <2>3. ~LookupFails(f) /\ CodeOf(f) = StmtsCode(f)
    BY <2>2, CodeAtRun
  <2>4. PICK v \in Used(f) : l = Address(f, v)
    BY <2>1, <2>3 DEF StmtsCode
  <2> DEFINE up == symtable_lookup(f, v)
  <2>5. l.var = v /\ l.up = up /\ l.index = index[Outward(f, up)][v]
    BY <2>4 DEF Address
  <2>6. up \in Nat /\ Outward(f, up) = v.of /\ v.of \in Funs
    BY <2>2, <2>3, LoadAddress
  <2>7. Reaches(i, f, up)
    BY <2>1, <2>2, <2>6, LinksReach
  <2>8. v.of # 0
    BY <2>2, <2>6, TreeFacts
  <2> QED BY <2>5, <2>6, <2>7, <2>8 DEF Reaches
<1> QED BY <1>1, AlwaysStack, PTL

-----------------------------------------------------------------------------
(* Arrays and the variables that hold their dimensions.                    *)
ArrayNames(f) == {x \in DOMAIN prog.dims[f] : prog.dims[f][x] # <<>>}
Rank(f, x) == Len(prog.dims[f][x])
Dim(f, x, k) == Var(prog.dims[f][x][k], f)

(* From parameter o on come the dimensions of array x and the array.       *)
TakenAt(f, x, o) ==
  /\ o \in Nat /\ o + Rank(f, x) + 1 \in DOMAIN Params(f)
  /\ Params(f)[o + Rank(f, x) + 1] = Var(x, f)
  /\ \A k \in 1 .. Rank(f, x) : o + k \in DOMAIN Params(f) /\ Params(f)[o + k] = Dim(f, x, k)

LEMMA IdxExprsOf ==
  ASSUME Tree, NEW f \in Funs, NEW x
  PROVE  /\ IdxExprs(Var(x, f)) \in Seq(ToSet(IdxExprs(Var(x, f))))
         /\ Len(Dims(f, x)) \in Nat /\ Len(IdxExprs(Var(x, f))) = Len(Dims(f, x))
         /\ DOMAIN IdxExprs(Var(x, f)) = 1 .. Len(Dims(f, x))
         /\ \A k \in 1 .. Len(Dims(f, x)) : IdxExprs(Var(x, f))[k] = Var(Dims(f, x)[k], f)
<1> DEFINE d == Dims(f, x)
           s == IdxExprs(Var(x, f))
           F(k) == Var(d[k], f)
<1>1. Len(d) \in Nat /\ DOMAIN d = 1 .. Len(d)
  BY DimsFacts
<1>2. s = [k \in DOMAIN d |-> F(k)]
  BY DEF IdxExprs, Var, Dims
<1>3. \A k \in 1 .. Len(d) : F(k) \in ToSet(s)
  BY <1>1, <1>2 DEF ToSet
<1> HIDE DEF d, s, F
<1>4. s \in Seq(ToSet(s)) /\ Len(s) = Len(d) /\ DOMAIN s = 1 .. Len(d)
  BY <1>1, <1>2, <1>3
<1> QED BY <1>1, <1>2, <1>4 DEF d, s, F

LEMMA IdxExprsFacts ==
  ASSUME Tree, NEW f \in Funs, NEW x \in ArrayNames(f)
  PROVE  /\ Rank(f, x) \in Nat \ {0} /\ Dims(f, x) = prog.dims[f][x]
         /\ IdxExprs(Var(x, f)) \in Seq(ToSet(IdxExprs(Var(x, f))))
         /\ Len(IdxExprs(Var(x, f))) = Rank(f, x)
         /\ DOMAIN IdxExprs(Var(x, f)) = 1 .. Rank(f, x)
         /\ \A k \in 1 .. Rank(f, x) : IdxExprs(Var(x, f))[k] = Dim(f, x, k)
<1>1. Dims(f, x) = prog.dims[f][x] /\ prog.dims[f][x] # <<>>
  BY DEF Dims, DimsOf, ArrayNames
<1>2. prog.dims[f][x] \in Seq(ToSet(prog.dims[f][x]))
  BY <1>1, DimsFacts
<1>3. Rank(f, x) \in Nat \ {0}
  BY <1>1, <1>2 DEF Rank
<1> QED BY <1>1, <1>3, IdxExprsOf DEF Rank, Dim

LEMMA ArrayFacts ==
  ASSUME Tree, NEW f \in Funs, NEW x \in ArrayNames(f)
  PROVE  /\ \/ /\ x \in prog.locals[f] /\ Var(x, f) \notin ToSet(Params(f))
               /\ \A k \in 1 .. Rank(f, x) : /\ prog.dims[f][x][k] \in prog.locals[f]
                                             /\ Dim(f, x, k) \notin ToSet(Params(f))
            \/ x \in ToSet(prog.params[f])
         /\ \A y \in ArrayNames(f) : \A j \in 1 .. Rank(f, x), k \in 1 .. Rank(f, y) :
              prog.dims[f][x][j] = prog.dims[f][y][k] => x = y /\ j = k
         /\ \A y \in ArrayNames(f) : \A k \in 1 .. Rank(f, y) : prog.dims[f][y][k] # x
<1> DEFINE d(y) == prog.dims[f][y]
<1>1. \A y \in ArrayNames(f) :
        /\ y \in DOMAIN prog.dims[f]
        /\ d(y) \in Seq(ToSet(d(y))) /\ IsInjective(d(y))
        /\ ToSet(d(y)) \cap DOMAIN prog.dims[f] = {}
        /\ \/ y \in prog.locals[f] /\ ToSet(d(y)) \subseteq prog.locals[f]
           \/ y \in ToSet(prog.params[f])
        /\ \A z \in ArrayNames(f) : y # z => ToSet(d(y)) \cap ToSet(d(z)) = {}
  BY ArraysAssumption, ProgramsAssumption DEF Tree, Funs, ArrayNames
<1>2. ToSet(Names(f)) \cap prog.locals[f] = {}
  BY ArraysAssumption DEF Tree, Funs, Names
<1>3. \A y \in ArrayNames(f) : \A k \in 1 .. Rank(f, y) : k \in DOMAIN d(y) /\ d(y)[k] \in ToSet(d(y))
  <2> SUFFICES ASSUME NEW y \in ArrayNames(f), NEW k \in 1 .. Rank(f, y)
               PROVE  k \in DOMAIN d(y) /\ d(y)[k] \in ToSet(d(y))
    OBVIOUS
  <2>1. DOMAIN d(y) = 1 .. Rank(f, y)
    BY IdxExprsFacts, DimsFacts DEF Rank
  <2> HIDE DEF d
  <2> QED BY <2>1 DEF ToSet
<1>4. \A y \in prog.locals[f] : Var(y, f) \notin ToSet(Params(f))
  <2> SUFFICES ASSUME NEW y \in prog.locals[f], NEW z \in ToSet(Names(f)), Var(y, f) = Var(z, f)
               PROVE  FALSE
    BY ParamFacts
  <2>1. y = z
    BY DEF Var
  <2> QED BY <1>2, <2>1
<1>5. ASSUME x \in prog.locals[f], ToSet(d(x)) \subseteq prog.locals[f]
      PROVE  /\ Var(x, f) \notin ToSet(Params(f))
             /\ \A k \in 1 .. Rank(f, x) : /\ d(x)[k] \in prog.locals[f]
                                           /\ Dim(f, x, k) \notin ToSet(Params(f))
  BY <1>3, <1>4, <1>5 DEF Dim
<1>6. ASSUME NEW y \in ArrayNames(f), NEW j \in 1 .. Rank(f, x), NEW k \in 1 .. Rank(f, y),
             d(x)[j] = d(y)[k]
      PROVE  x = y /\ j = k
  <2>1. x = y
    <3>1. d(x)[j] \in ToSet(d(x)) \cap ToSet(d(y))
      BY <1>3, <1>6
    <3> QED BY <1>1, <3>1
  <2>2. j \in DOMAIN d(x) /\ k \in DOMAIN d(x)
    BY <1>3, <2>1
  <2> QED BY <1>1, <1>6, <2>1, <2>2 DEF IsInjective
<1>7. ASSUME NEW y \in ArrayNames(f), NEW k \in 1 .. Rank(f, y) PROVE d(y)[k] # x
  BY <1>1, <1>3
<1>8. \/ /\ x \in prog.locals[f] /\ Var(x, f) \notin ToSet(Params(f))
         /\ \A k \in 1 .. Rank(f, x) : /\ d(x)[k] \in prog.locals[f]
                                       /\ Dim(f, x, k) \notin ToSet(Params(f))
      \/ x \in ToSet(prog.params[f])
  BY <1>1, <1>5
<1> QED BY <1>6, <1>7, <1>8

(* Where the block of an array that is the j-th source parameter begins.   *)
LEMMA ArrayTaken ==
  ASSUME Tree, NEW f \in Funs, NEW j \in DOMAIN prog.params[f], NEW x \in ArrayNames(f),
         x = prog.params[f][j], NEW at, NEW V,
         Spread(NameBlocks(f), Len(prog.params[f]), at, Names(f), V)
  PROVE  TakenAt(f, x, at[j - 1])
<1> DEFINE p == prog.params[f]
           n == Len(p)
           B == NameBlocks(f)
           d == prog.dims[f][x]
           m == Rank(f, x)
           o == at[j - 1]
<1>1. p \in Seq(ToSet(p)) /\ n \in Nat /\ DOMAIN p = 1 .. n
  BY ProgramsAssumption DEF Tree, Funs
<1>2. m \in Nat /\ m = Len(d) /\ d \in Seq(ToSet(d)) /\ Dims(f, x) = d
  BY IdxExprsFacts, DimsFacts DEF Rank
<1>3. B[j] = Append(d, x)
  BY <1>2 DEF NameBlocks
<1>4. Len(B[j]) = m + 1 /\ B[j][m + 1] = x /\ \A k \in 1 .. m : B[j][k] = d[k]
  <2> HIDE DEF d, B, m
  <2> QED BY <1>2, <1>3, BlockFacts
<1>5. /\ at \in [0 .. n -> Nat] /\ Len(Names(f)) = at[n]
      /\ at[j] = at[j - 1] + Len(B[j]) /\ at[j] <= at[n]
      /\ \A k \in 1 .. Len(B[j]) : Names(f)[o + k] = B[j][k]
  BY <1>1 DEF Spread
<1>6. j \in 0 .. n /\ j - 1 \in 0 .. n /\ n \in 0 .. n
  BY <1>1
<1>7. o \in Nat /\ at[n] \in Nat /\ o + (m + 1) <= at[n]
  BY <1>4, <1>5, <1>6
<1>8. DOMAIN Params(f) = 1 .. at[n] /\ DOMAIN Names(f) = 1 .. at[n]
      /\ \A k \in DOMAIN Names(f) : Params(f)[k] = Var(Names(f)[k], f)
  BY <1>5, ParamFacts DEF Params
<1> HIDE DEF B, d, m, o, n, p
<1>9. /\ o + m + 1 \in 1 .. at[n] /\ o + (m + 1) = o + m + 1 /\ m + 1 \in 1 .. m + 1
      /\ \A k \in 1 .. m : o + k \in 1 .. at[n] /\ k \in 1 .. m + 1
  BY <1>2, <1>7
<1>10. Params(f)[o + m + 1] = Var(x, f)
  BY <1>4, <1>5, <1>8, <1>9
<1>11. \A k \in 1 .. m : Params(f)[o + k] = Var(d[k], f)
  BY <1>4, <1>5, <1>8, <1>9
<1> QED BY <1>7, <1>8, <1>9, <1>10, <1>11 DEF TakenAt, Dim, o, m, d

(* A dimension is no array.                                                *)
LEMMA NoArrayIsADim ==
  ASSUME Tree, NEW f \in Funs, NEW x \in ArrayNames(f), NEW k \in 1 .. Rank(f, x)
  PROVE  prog.dims[f][x][k] \notin DOMAIN prog.dims[f]
<1> DEFINE d == prog.dims[f][x]
<1>1. d \in Seq(ToSet(d)) /\ ToSet(d) \cap DOMAIN prog.dims[f] = {}
  BY ProgramsAssumption, ArraysAssumption DEF Tree, Funs, ArrayNames
<1>2. d[k] \in ToSet(d)
  BY <1>1 DEF ToSet, Rank
<1> QED BY <1>1, <1>2

(* Arrays and dimensions are declared by the function that they are of.    *)
LEMMA ArraysDeclared ==
  ASSUME Tree, NEW f \in Funs, NEW x \in ArrayNames(f)
  PROVE  /\ Var(x, f) \in Declared(f) /\ x \notin {"gen", "function"}
         /\ \A k \in 1 .. Rank(f, x) : /\ Dim(f, x, k) \in Declared(f)
                                       /\ prog.dims[f][x][k] \notin {"gen", "function"}
<1>1. /\ \A y \in prog.locals[f] : y \notin {"gen", "function"} /\ Var(y, f) \in Declared(f)
      /\ \A v \in ToSet(Params(f)) : v \in Declared(f) /\ \E y : v = Var(y, f) /\ y \notin {"gen", "function"}
  BY ParamFacts DEF Declared
<1>2. CASE x \in prog.locals[f] /\ \A k \in 1 .. Rank(f, x) : prog.dims[f][x][k] \in prog.locals[f]
  BY <1>1, <1>2 DEF Dim
<1>3. CASE x \in ToSet(prog.params[f])
  <2>1. PICK j \in DOMAIN prog.params[f] : x = prog.params[f][j]
    BY <1>3 DEF ToSet
  <2>2. PICK o : TakenAt(f, x, o)
    BY <2>1, NamesSpread, ArrayTaken
  <2>3. Var(x, f) \in ToSet(Params(f)) /\ \A k \in 1 .. Rank(f, x) : Dim(f, x, k) \in ToSet(Params(f))
    BY <2>2 DEF TakenAt, ToSet
  <2>4. \A y : Var(y, f) \in ToSet(Params(f)) => y \notin {"gen", "function"}
    BY <1>1 DEF Var
  <2> QED BY <1>1, <2>3, <2>4 DEF Dim
<1> QED BY <1>2, <1>3, ArrayFacts

(* Where the variables of an emitted function are.                         *)
LEMMA SlotsAtRun ==
  ASSUME Typed, Lowering, Indexing, Emissions, Labels, phase = "run", NEW f \in Funs
  PROVE  /\ Indexed(f) /\ Declared(f) \subseteq tables[f]
         /\ Len(Params(f)) \in Nat /\ Cardinality(tables[f]) \in Nat
         /\ Len(Params(f)) + Emitted(f).locals = Cardinality(tables[f])
<1>1. \E e \in ToSet(functions) : e.fun = f
  BY DEF Labels, Labelled, ToSet
<1>2. Emitted(f) \in ToSet(functions) /\ Emitted(f).fun = f
  BY <1>1 DEF Emitted
<1>3. PICK k \in DOMAIN functions : Emitted(f) = functions[k]
  BY <1>2 DEF ToSet
<1>4. Emitted(f).locals = Cardinality(tables[f]) - Len(Params(f))
  BY <1>2, <1>3 DEF Emissions
<1>5. /\ Len(Params(f)) \in Nat /\ Cardinality(tables[f]) \in Nat
      /\ Declared(f) \subseteq tables[f]
  BY ParamFacts, FS_CardinalityType DEF Typed, Lowering, TablesOK
<1>6. Indexed(f)
  BY DEF Indexing
<1> QED BY <1>4, <1>5, <1>6

(* The values that an array of its own gets in a new frame.                *)
LEMMA MadeFacts ==
  ASSUME Tree, NEW f \in Funs, NEW i, NEW x \in ArrayNames(f), x \in prog.locals[f]
  PROVE  /\ Made(Var(x, f), i, f) = [array |-> Var(x, f), frame |-> i, dim |-> 0]
         /\ \A k \in 1 .. Rank(f, x) :
              Made(Dim(f, x, k), i, f) = [array |-> Var(x, f), frame |-> i, dim |-> k]
<1> DEFINE arrays == {a \in {Var(y, f) : y \in prog.locals[f]} : IdxExprs(a) # <<>>}
           one(v) == {[array |-> a, frame |-> i, dim |-> 0] : a \in arrays \cap {v}}
           dim(v) == UNION {{[array |-> a, frame |-> i, dim |-> k] :
                               k \in {j \in DOMAIN IdxExprs(a) : IdxExprs(a)[j] = v}} : a \in arrays}
<1>1. \A v : Made(v, i, f) = IF one(v) \cup dim(v) = {} THEN Plain ELSE CHOOSE m \in one(v) \cup dim(v) : TRUE
  BY DEF Made
<1>2. Var(x, f) \in arrays
  <2>1. IdxExprs(Var(x, f)) # <<>>
    BY IdxExprsFacts
  <2> QED BY <2>1
<1>3. ASSUME NEW a \in arrays, NEW k \in DOMAIN IdxExprs(a)
      PROVE  \E y \in ArrayNames(f) : a = Var(y, f) /\ k \in 1 .. Rank(f, y) /\ IdxExprs(a)[k] = Dim(f, y, k)
  <2>1. PICK y \in prog.locals[f] : a = Var(y, f)
    OBVIOUS
  <2>2. y \in DOMAIN prog.dims[f] /\ k \in DOMAIN prog.dims[f][y]
    BY <1>3, <2>1 DEF IdxExprs, DimsOf, Var
  <2>3. y \in ArrayNames(f)
    BY <2>2 DEF ArrayNames
  <2> QED BY <1>3, <2>1, <2>3, IdxExprsFacts
<1>4. \A y, z : Var(y, f) = Var(z, f) => y = z
  BY DEF Var
<1> HIDE DEF arrays
<1>5. Made(Var(x, f), i, f) = [array |-> Var(x, f), frame |-> i, dim |-> 0]
  <2> DEFINE v == Var(x, f)
  <2>1. one(v) = {[array |-> v, frame |-> i, dim |-> 0]}
    BY <1>2
  <2>2. dim(v) = {}
    <3> SUFFICES ASSUME NEW a \in arrays, NEW k \in DOMAIN IdxExprs(a), IdxExprs(a)[k] = v PROVE FALSE
      OBVIOUS
    <3>1. PICK y \in ArrayNames(f) : k \in 1 .. Rank(f, y) /\ IdxExprs(a)[k] = Dim(f, y, k)
      BY <1>3
    <3>2. prog.dims[f][y][k] = x
      BY <1>4, <3>1 DEF Dim
    <3> QED BY <3>1, <3>2, ArrayFacts
  <2> HIDE DEF one, dim
  <2> QED BY <1>1, <2>1, <2>2
<1>6. ASSUME NEW k \in 1 .. Rank(f, x)
      PROVE  Made(Dim(f, x, k), i, f) = [array |-> Var(x, f), frame |-> i, dim |-> k]
  <2> DEFINE v == Dim(f, x, k)
             m == [array |-> Var(x, f), frame |-> i, dim |-> k]
  <2>1. one(v) = {}
    <3> SUFFICES ASSUME v \in arrays PROVE FALSE
      OBVIOUS
    <3>1. PICK y \in prog.locals[f] : v = Var(y, f) /\ IdxExprs(v) # <<>>
      BY DEF arrays
    <3>2. y \in DOMAIN prog.dims[f]
      BY <3>1 DEF IdxExprs, DimsOf, Var
    <3>3. y = prog.dims[f][x][k]
      BY <1>4, <3>1 DEF Dim
    <3> QED BY <3>2, <3>3, NoArrayIsADim
  <2>2. m \in dim(v)
    <3>1. k \in DOMAIN IdxExprs(Var(x, f)) /\ IdxExprs(Var(x, f))[k] = v
      BY IdxExprsFacts
    <3> QED BY <1>2, <3>1
  <2>3. ASSUME NEW a \in arrays, NEW j \in DOMAIN IdxExprs(a), IdxExprs(a)[j] = v
        PROVE  a = Var(x, f) /\ j = k
    <3>1. PICK y \in ArrayNames(f) : a = Var(y, f) /\ j \in 1 .. Rank(f, y) /\ IdxExprs(a)[j] = Dim(f, y, j)
      BY <1>3
    <3>2. prog.dims[f][y][j] = prog.dims[f][x][k]
      BY <1>4, <2>3, <3>1 DEF Dim
    <3>3. x = y /\ k = j
      BY <3>1, <3>2, ArrayFacts
    <3> QED BY <3>1, <3>3
  <2>4. dim(v) = {m}
    <3>1. m \in dim(v)
      BY <2>2
    <3>2. \A z \in dim(v) : z = m
      BY <2>3
    <3> HIDE DEF dim, m
    <3> QED BY <3>1, <3>2
  <2> HIDE DEF one, dim, m
  <2>5. Made(v, i, f) = m
    BY <1>1, <2>1, <2>4
  <2> QED BY <2>5 DEF m
<1> QED BY <1>5, <1>6

Value(m) == m = [array |-> m.array, frame |-> m.frame, dim |-> m.dim]

(* The memory of a frame has with an array its dimensions.                 *)
Carries(mem, f) ==
  \A x \in ArrayNames(f) :
    /\ index[f][Var(x, f)] \in DOMAIN mem /\ Value(mem[index[f][Var(x, f)]])
    /\ \A k \in 1 .. Rank(f, x) :
         /\ index[f][Dim(f, x, k)] \in DOMAIN mem
         /\ mem[index[f][Dim(f, x, k)]] = [mem[index[f][Var(x, f)]] EXCEPT !.dim = k]

(* The arguments from o on are the n dimensions of an array and the array. *)
ArgsFor(args, o, n) ==
  Value(args[o + n + 1]) /\ \A k \in 1 .. n : args[o + k] = [args[o + n + 1] EXCEPT !.dim = k]

(* Each array among the parameters of f gets an array with its dimensions. *)
Fit(args, f) ==
  \A x \in ArrayNames(f) :
    x \in ToSet(prog.params[f]) => \E o : TakenAt(f, x, o) /\ ArgsFor(args, o, Rank(f, x))

(* The memory of a new frame: arguments in the parameters' slots, and its  *)
(* own variables behind them.                                              *)
LEMMA NewMemory ==
  ASSUME Typed, Lowering, Indexing, Emissions, Labels, phase = "run", NEW f \in Funs,
         NEW link, NEW scope, NEW args, Len(args) = Len(Params(f)), NEW mem,
         mem = NewFrame(f, link, args, scope).mem
  PROVE  /\ \A i \in DOMAIN Params(f) :
              index[f][Params(f)[i]] \in DOMAIN mem /\ mem[index[f][Params(f)[i]]] = args[i]
         /\ \A x \in prog.locals[f] : Var(x, f) \notin ToSet(Params(f)) =>
              /\ index[f][Var(x, f)] \in DOMAIN mem
              /\ mem[index[f][Var(x, f)]] = Made(Var(x, f), Len(frames) + 1, f)
<1> DEFINE lo == Len(args)
           n == lo + Emitted(f).locals
           at == index[f]
           slots == {key \in DOMAIN at : at[key] >= lo}
           top == Len(frames) + 1
<1>1. mem = [s \in 0 .. n - 1 |->
               IF s < lo THEN args[s + 1]
               ELSE IF \E key \in slots : at[key] = s
                    THEN Made(CHOOSE key \in slots : at[key] = s, top, f)
                    ELSE Plain]
  BY DEF NewFrame
<1>2. /\ Declared(f) \subseteq tables[f] /\ lo \in Nat /\ n \in Nat
      /\ DOMAIN at = Variables(f)
      /\ \A v, w \in DOMAIN at : at[v] = at[w] => v = w
      /\ \A v \in DOMAIN at : at[v] \in 0 .. n - 1
      /\ \A i \in DOMAIN Params(f) : at[Params(f)[i]] = i - 1
      /\ DOMAIN Params(f) = 1 .. lo
  <2>1. n = Cardinality(tables[f]) /\ n \in Nat /\ lo \in Nat /\ Indexed(f) /\ Declared(f) \subseteq tables[f]
    BY SlotsAtRun
  <2>2. DOMAIN Params(f) = 1 .. lo
    BY ParamFacts DEF Typed
  <2> HIDE DEF n, lo
  <2>3. \A v \in Variables(f) : at[v] \in 0 .. n - 1
    BY <2>1 DEF Indexed
  <2> QED BY <2>1, <2>2, <2>3 DEF Indexed
<1> HIDE DEF lo, n, at, top
<1>3. \A v \in Declared(f) : ~IsFun(v) => v \in DOMAIN at
  BY <1>2 DEF Variables
<1>4. /\ \A v \in ToSet(Params(f)) : v \in Declared(f) /\ ~IsFun(v)
      /\ \A x \in prog.locals[f] : Var(x, f) \in Declared(f) /\ ~IsFun(Var(x, f))
  BY ParamFacts DEF Declared, IsFun, Var, Typed
<1>5. \A i \in DOMAIN Params(f) : Params(f)[i] \in ToSet(Params(f)) /\ Params(f)[i] \in DOMAIN at
  BY <1>3, <1>4 DEF ToSet
<1>6. ASSUME NEW i \in DOMAIN Params(f)
      PROVE  at[Params(f)[i]] \in DOMAIN mem /\ mem[at[Params(f)[i]]] = args[i]
  <2>1. at[Params(f)[i]] = i - 1 /\ i - 1 \in 0 .. n - 1 /\ i - 1 < lo /\ (i - 1) + 1 = i
    BY <1>2, <1>5
  <2> HIDE DEF slots
  <2> QED BY <1>1, <2>1
<1>7. ASSUME NEW x \in prog.locals[f], Var(x, f) \notin ToSet(Params(f))
      PROVE  /\ at[Var(x, f)] \in DOMAIN mem
             /\ mem[at[Var(x, f)]] = Made(Var(x, f), top, f)
  <2> DEFINE v == Var(x, f)
             s == at[v]
  <2>1. v \in DOMAIN at /\ s \in 0 .. n - 1
    BY <1>2, <1>3, <1>4
  <2>2. ~ (s < lo)
    <3> SUFFICES ASSUME s < lo PROVE FALSE
      OBVIOUS
    <3>1. s + 1 \in DOMAIN Params(f) /\ (s + 1) - 1 = s
      BY <1>2, <2>1
    <3>2. at[Params(f)[s + 1]] = at[v]
      BY <1>2, <3>1
    <3>3. Params(f)[s + 1] = v
      BY <1>2, <1>5, <2>1, <3>1, <3>2
    <3> QED BY <1>5, <1>7, <3>1, <3>3
  <2>3. v \in slots
    BY <1>2, <2>1, <2>2
  <2>4. \A key \in slots : at[key] = s => key = v
    BY <1>2, <2>1
  <2> HIDE DEF slots, s, v
  <2>5. (CHOOSE key \in slots : at[key] = s) = v
    BY <2>3, <2>4 DEF s
  <2>6. mem[s] = Made(v, top, f)
    BY <1>1, <2>1, <2>2, <2>3, <2>5 DEF s
  <2>7. s \in DOMAIN mem
    BY <1>1, <2>1
  <2> QED BY <2>6, <2>7 DEF s, v
<1> QED BY <1>6, <1>7 DEF at, top

(* A new frame's memory carries dimensions if its arguments do.            *)
LEMMA NewFrameCarries ==
  ASSUME Typed, Lowering, Indexing, Emissions, Labels, phase = "run", NEW f \in Funs,
         NEW link, NEW scope, NEW args, Len(args) = Len(Params(f)),
         Fit(args, f)
  PROVE  Carries(NewFrame(f, link, args, scope).mem, f)
<1>1. PICK mem : mem = NewFrame(f, link, args, scope).mem
  OBVIOUS
<1>2. /\ \A i \in DOMAIN Params(f) :
           index[f][Params(f)[i]] \in DOMAIN mem /\ mem[index[f][Params(f)[i]]] = args[i]
      /\ \A x \in prog.locals[f] : Var(x, f) \notin ToSet(Params(f)) =>
           /\ index[f][Var(x, f)] \in DOMAIN mem
           /\ mem[index[f][Var(x, f)]] = Made(Var(x, f), Len(frames) + 1, f)
  BY <1>1, NewMemory
<1> SUFFICES ASSUME NEW x \in ArrayNames(f)
             PROVE  /\ index[f][Var(x, f)] \in DOMAIN mem /\ Value(mem[index[f][Var(x, f)]])
                    /\ \A k \in 1 .. Rank(f, x) :
                         /\ index[f][Dim(f, x, k)] \in DOMAIN mem
                         /\ mem[index[f][Dim(f, x, k)]] = [mem[index[f][Var(x, f)]] EXCEPT !.dim = k]
  BY <1>1 DEF Carries
<1>3. Tree /\ Rank(f, x) \in Nat
  BY IdxExprsFacts DEF Typed
<1>4. CASE x \in ToSet(prog.params[f])
  <2> DEFINE n == Rank(f, x)
  <2>1. PICK o : TakenAt(f, x, o) /\ ArgsFor(args, o, n)
    BY <1>4 DEF Fit
  <2>2. /\ \A k \in 1 .. n : o + k \in DOMAIN Params(f) /\ Params(f)[o + k] = Dim(f, x, k)
        /\ o + n + 1 \in DOMAIN Params(f) /\ Params(f)[o + n + 1] = Var(x, f)
    BY <2>1 DEF TakenAt
  <2>3. index[f][Var(x, f)] \in DOMAIN mem /\ mem[index[f][Var(x, f)]] = args[o + n + 1]
    BY <1>2, <2>2
  <2>4. \A k \in 1 .. n : index[f][Dim(f, x, k)] \in DOMAIN mem /\ mem[index[f][Dim(f, x, k)]] = args[o + k]
    BY <1>2, <2>2
  <2> QED BY <2>1, <2>3, <2>4 DEF ArgsFor
<1>5. CASE /\ x \in prog.locals[f] /\ Var(x, f) \notin ToSet(Params(f))
           /\ \A k \in 1 .. Rank(f, x) : /\ prog.dims[f][x][k] \in prog.locals[f]
                                         /\ Dim(f, x, k) \notin ToSet(Params(f))
  <2> DEFINE top == Len(frames) + 1
  <2>1. /\ Made(Var(x, f), top, f) = [array |-> Var(x, f), frame |-> top, dim |-> 0]
        /\ \A k \in 1 .. Rank(f, x) :
             Made(Dim(f, x, k), top, f) = [array |-> Var(x, f), frame |-> top, dim |-> k]
    BY <1>3, <1>5, MadeFacts
  <2>2. /\ index[f][Var(x, f)] \in DOMAIN mem
        /\ mem[index[f][Var(x, f)]] = Made(Var(x, f), top, f)
    BY <1>2, <1>5
  <2>3. \A k \in 1 .. Rank(f, x) :
          /\ index[f][Dim(f, x, k)] \in DOMAIN mem
          /\ mem[index[f][Dim(f, x, k)]] = Made(Dim(f, x, k), top, f)
    BY <1>2, <1>5 DEF Dim
  <2> HIDE DEF top
  <2>4. Value(mem[index[f][Var(x, f)]])
    BY <2>1, <2>2 DEF Value
  <2> QED BY <2>1, <2>2, <2>3, <2>4
<1> QED BY <1>3, <1>4, <1>5, ArrayFacts

(* What is pushed: one scalar or array, after its dimensions, after the    *)
(* other.                                                                  *)
PushedBlocks(args) == [i \in DOMAIN args |-> Append(IdxExprs(args[i]), args[i])]

LEMMA PushedSpread ==
  ASSUME NEW n \in Nat, NEW S, NEW args \in [1 .. n -> S],
         \A v \in S : IdxExprs(v) \in Seq(ToSet(IdxExprs(v)))
  PROVE  \E V, at : Spread(PushedBlocks(args), n, at, Pushed(args), V)
<1> DEFINE B == PushedBlocks(args)
           V == UNION {ToSet(Append(IdxExprs(v), v)) : v \in S}
           F(i) == Append(IdxExprs(args[i]), args[i])
<1>1. ASSUME NEW v \in S PROVE Append(IdxExprs(v), v) \in Seq(V)
  <2> DEFINE w == Append(IdxExprs(v), v)
  <2>1. w \in Seq(ToSet(IdxExprs(v)) \cup {v})
    BY BlockFacts
  <2> HIDE DEF w
  <2>2. w \in Seq(ToSet(w))
    BY <2>1 DEF ToSet
  <2>3. ToSet(w) \subseteq V
    BY DEF w
  <2> HIDE DEF V
  <2>4. w \in Seq(V)
    BY <2>2, <2>3
  <2> QED BY <2>4 DEF w
<1>2. B = [i \in 1 .. n |-> F(i)] /\ Pushed(args) = FlattenSeq(B)
  BY DEF PushedBlocks, Pushed
<1> HIDE DEF V
<1>3. \A i \in 1 .. n : F(i) \in Seq(V)
  BY <1>1
<1> HIDE DEF B, F
<1>4. B \in Seq(Seq(V)) /\ Len(B) = n
  BY <1>2, <1>3
<1>5. \E at : Spread(B, n, at, FlattenSeq(B), V)
  BY <1>4, FlattenSpread
<1> QED BY <1>2, <1>5 DEF B

(* The variable of a function around f is found in that function's table,  *)
(* whether or not a nearer variable hides its name.                        *)
LEMMA VariableAddress ==
  ASSUME Tree, TablesOK, NEW f \in Funs, NEW n \in 0 .. f, NEW h \in Funs, h = Outward(f, n),
         NEW x, x \notin {"gen", "function"}, Var(x, h) \in Declared(h)
  PROVE  /\ symtable_lookup(f, Var(x, h)) \in Nat
         /\ Outward(f, symtable_lookup(f, Var(x, h))) = h
<1> DEFINE v == Var(x, h)
           up == symtable_lookup(f, v)
           g == Outward(f, up)
<1>1. v.of = h /\ v.id = x
  BY DEF Var
<1>2. v \in tables[h]
  BY DEF TablesOK
<1>3. LookupUps(f, v) # {}
  BY <1>2 DEF LookupUps
<1>4. up \in 0 .. f /\ v \in tables[g] /\ g \in Funs \cup {0} /\ f \in Nat
  BY <1>3, LookupLeads, TreeFacts
<1> HIDE DEF up, g, v
<1>5. Known(g, v)
  BY <1>4 DEF TablesOK
<1>6. \A e : v # FunId(e)
  BY <1>1 DEF FunId
<1>7. \A e, k : v # Temp(e, k)
  BY <1>1 DEF Temp
<1>8. g \in Funs /\ v \in ToSet(Params(g)) \cup {Var(y, g) : y \in prog.locals[g]}
  BY <1>5, <1>6, <1>7 DEF Known
<1>9. v.of = g
  BY <1>8, ParamFacts DEF Var
<1> QED BY <1>1, <1>4, <1>9 DEF up, g, v

(* A function around that of a frame, and what the frame sees of it.       *)
Sees(i, h) == \E n \in 0 .. frames[i].fun : h = Outward(frames[i].fun, n)

LEMMA SeenFrame ==
  ASSUME Typed, Stack, NEW i \in DOMAIN frames, NEW h \in Funs, Sees(i, h)
  PROVE  frames[i].scope[h] \in DOMAIN frames /\ frames[frames[i].scope[h]].fun = h
<1>1. PICK f : f = frames[i].fun
  OBVIOUS
<1>2. PICK n \in 0 .. f : h = Outward(f, n)
  BY <1>1 DEF Sees
<1>3. Tree /\ f \in Funs /\ DOMAIN frames = 1 .. Len(frames) /\ Len(frames) \in Nat
  BY <1>1 DEF Typed, Stack, FrameOK
<1>4. n \in Nat /\ h # 0
  BY <1>3, TreeFacts
<1>5. Reaches(i, f, n)
  BY <1>1, <1>3, <1>4, LinksReach
<1>6. Linked(i, n) \in 1 .. i /\ frames[Linked(i, n)].fun = h /\ Linked(i, n) = frames[i].scope[h]
  BY <1>2, <1>4, <1>5 DEF Reaches
<1> QED BY <1>3, <1>6

(* The value of an argument is what the caller sees of the variable.       *)
LEMMA ArgumentValue ==
  ASSUME Typed, Lowering, Stack, NEW i \in DOMAIN frames, NEW h \in Funs, Sees(i, h),
         NEW x, x \notin {"gen", "function"}, Var(x, h) \in Declared(h),
         index[h][Var(x, h)] \in DOMAIN frames[frames[i].scope[h]].mem
  PROVE  ValueAt(i, Address(frames[i].fun, Var(x, h)))
           = frames[frames[i].scope[h]].mem[index[h][Var(x, h)]]
<1>1. PICK f : f = frames[i].fun
  OBVIOUS
<1>2. PICK n \in 0 .. f : h = Outward(f, n)
  BY <1>1 DEF Sees
<1> DEFINE v == Var(x, h)
           up == symtable_lookup(f, v)
           a == Address(f, v)
<1>3. Tree /\ TablesOK /\ f \in Funs
  BY <1>1 DEF Typed, Lowering, Stack, FrameOK
<1>4. up \in Nat /\ Outward(f, up) = h
  BY <1>2, <1>3, VariableAddress
<1>5. a.up = up /\ a.index = index[h][v]
  BY <1>4 DEF Address
<1>6. Reaches(i, f, up) /\ h # 0
  BY <1>1, <1>3, <1>4, LinksReach, TreeFacts
<1> HIDE DEF a, up, v
<1>7. Linked(i, a.up) = frames[i].scope[h] /\ frames[i].scope[h] # 0
  BY <1>4, <1>5, <1>6 DEF Reaches
<1>8. ValueAt(i, a) = frames[frames[i].scope[h]].mem[index[h][v]]
  BY <1>5, <1>7 DEF ValueAt, v
<1> QED BY <1>1, <1>8 DEF a, v

(* Arrays among the parameters.                                            *)
LEMMA ParamIsArray ==
  ASSUME Tree, NEW f \in Funs, NEW v \in ArrayParams(f)
  PROVE  \E x \in ArrayNames(f) : v = Var(x, f)
<1>1. v \in ToSet(Params(f)) /\ IdxExprs(v) # <<>>
  BY DEF ArrayParams
<1>2. PICK x : v = Var(x, f)
  BY <1>1, ParamFacts
<1>3. x \in ArrayNames(f)
  BY <1>1, <1>2 DEF IdxExprs, DimsOf, Var, ArrayNames
<1> QED BY <1>2, <1>3

(* Return takes the newest frame away.                                     *)
LEMMA Pops ==
  ASSUME Stack, Return
  PROVE  DOMAIN frames' \subseteq DOMAIN frames /\ \A j \in DOMAIN frames' : frames'[j] = frames[j]
<1>1. frames' = SubSeq(frames, 1, Len(frames) - 1) /\ frames # <<>>
  BY DEF Return, Front
<1>2. PICK S : frames \in Seq(S)
  BY DEF Stack
<1>3. DOMAIN frames = 1 .. Len(frames) /\ Len(frames) \in Nat \ {0}
  BY <1>1, <1>2
<1>4. 1 \in 1 .. Len(frames) + 1 /\ Len(frames) - 1 \in 1 - 1 .. Len(frames)
  BY <1>3
<1>5. /\ frames' \in Seq(S) /\ Len(frames') = Len(frames) - 1
      /\ \A j \in 1 .. Len(frames) - 1 : frames'[j] = frames[j]
  BY <1>1, <1>2, <1>3, <1>4, SubSeqProperties
<1> QED BY <1>3, <1>5

Carried == \A i \in DOMAIN frames : Carries(frames[i].mem, frames[i].fun)

(* The arguments of a call with an array that the caller sees.             *)
Evaluated(i, c) == [k \in 1 .. c.arity |-> ValueAt(i, c.args[k])]

(* The variables that f sees are those of functions around it.             *)
LEMMA SeenOf ==
  ASSUME Tree, NEW f \in Funs, NEW w \in Seen(f)
  PROVE  \E h \in Funs : /\ \E n \in 0 .. f : h = Outward(f, n)
                         /\ \E x : w = Var(x, h) /\ x \notin {"gen", "function"}
BY SeenVariables

(* An array that the caller sees, among the arguments.                     *)
LEMMA ArgumentsCarry ==
  ASSUME Typed, Lowering, Stack, Carried, NEW i \in DOMAIN frames,
         NEW w \in Seen(frames[i].fun), IdxExprs(w) # <<>>, NEW m, m = Len(IdxExprs(w)),
         NEW args, NEW o \in Nat,
         args[o + m + 1] = ValueAt(i, Address(frames[i].fun, w)),
         \A k \in 1 .. m : args[o + k] = ValueAt(i, Address(frames[i].fun, IdxExprs(w)[k]))
  PROVE  ArgsFor(args, o, m)
<1>1. PICK f : f = frames[i].fun
  OBVIOUS
<1>2. Tree /\ TablesOK /\ f \in Funs
  BY <1>1 DEF Typed, Lowering, Stack, FrameOK
<1>3. PICK h \in Funs : Sees(i, h) /\ \E x : w = Var(x, h) /\ x \notin {"gen", "function"}
  BY <1>1, <1>2, SeenOf DEF Sees
<1>4. PICK x : w = Var(x, h) /\ x \notin {"gen", "function"}
  BY <1>3
<1>5. x \in ArrayNames(h)
  BY <1>4 DEF IdxExprs, DimsOf, Var, ArrayNames
<1> PICK j : j = frames[i].scope[h]
  OBVIOUS
<1> DEFINE mem == frames[j].mem
<1>6. m = Rank(h, x) /\ \A k \in 1 .. m : IdxExprs(w)[k] = Dim(h, x, k)
  BY <1>2, <1>4, <1>5, IdxExprsFacts
<1>7. Carries(mem, h)
  <2>1. j \in DOMAIN frames /\ frames[j].fun = h
    BY <1>3, SeenFrame
  <2> QED BY <2>1 DEF Carried
<1>8. /\ index[h][w] \in DOMAIN mem /\ Value(mem[index[h][w]])
      /\ \A k \in 1 .. m : /\ index[h][Dim(h, x, k)] \in DOMAIN mem
                           /\ mem[index[h][Dim(h, x, k)]] = [mem[index[h][w]] EXCEPT !.dim = k]
  BY <1>4, <1>5, <1>6, <1>7 DEF Carries
<1>9. /\ Var(x, h) \in Declared(h)
      /\ \A k \in 1 .. m : Dim(h, x, k) \in Declared(h) /\ prog.dims[h][x][k] \notin {"gen", "function"}
  BY <1>2, <1>5, <1>6, ArraysDeclared
<1>10. ValueAt(i, Address(f, w)) = mem[index[h][w]]
  <2>1. index[h][Var(x, h)] \in DOMAIN frames[j].mem
    BY <1>4, <1>8
  <2>2. ValueAt(i, Address(frames[i].fun, Var(x, h))) = frames[j].mem[index[h][Var(x, h)]]
    BY <1>3, <1>4, <1>9, <2>1, ArgumentValue
  <2> QED BY <1>1, <1>4, <2>2
<1>11. ASSUME NEW k \in 1 .. m
       PROVE  ValueAt(i, Address(f, Dim(h, x, k))) = mem[index[h][Dim(h, x, k)]]
  <2> DEFINE y == prog.dims[h][x][k]
  <2>1. /\ Dim(h, x, k) = Var(y, h) /\ y \notin {"gen", "function"} /\ Var(y, h) \in Declared(h)
        /\ index[h][Var(y, h)] \in DOMAIN frames[j].mem
    BY <1>8, <1>9 DEF Dim
  <2> HIDE DEF y
  <2>2. ValueAt(i, Address(frames[i].fun, Var(y, h))) = frames[j].mem[index[h][Var(y, h)]]
    BY <1>3, <2>1, ArgumentValue
  <2> QED BY <1>1, <2>1, <2>2
<1> HIDE DEF mem
<1>12. args[o + m + 1] = mem[index[h][w]]
  BY <1>1, <1>10
<1>13. ASSUME NEW k \in 1 .. m PROVE args[o + k] = [args[o + m + 1] EXCEPT !.dim = k]
  <2>1. args[o + k] = mem[index[h][Dim(h, x, k)]]
    BY <1>1, <1>6, <1>11
  <2> QED BY <1>8, <1>12, <2>1
<1> QED BY <1>8, <1>12, <1>13 DEF ArgsFor

(* The arguments of a call fit the parameters: what is pushed is divided   *)
(* as the parameters are.                                                  *)
LEMMA ArgumentsFit ==
  ASSUME Typed, Lowering, Stack, Carried, NEW i \in DOMAIN frames, NEW g \in Funs,
         NEW a \in Arguments(frames[i].fun, g), NEW c, c = CallCode(frames[i].fun, g, a),
         NEW args, args = Evaluated(i, c)
  PROVE  Len(args) = Len(Params(g)) /\ Fit(args, g)
<1>1. PICK f : f = frames[i].fun
  OBVIOUS
<1> DEFINE p == prog.params[g]
           n == Len(p)
           N == NameBlocks(g)
           B == PushedBlocks(a)
           pushed == Pushed(a)
<1>2. Tree /\ f \in Funs
  BY <1>1 DEF Typed, Stack, FrameOK
<1>3. p \in Seq(ToSet(p)) /\ n \in Nat /\ DOMAIN p = 1 .. n
  BY <1>2, ProgramsAssumption DEF Tree, Funs
<1>4. /\ a \in [1 .. n -> Seen(f)] /\ DOMAIN a = 1 .. n
      /\ \A j \in 1 .. n : Len(IdxExprs(a[j])) = Len(Dims(g, p[j]))
  <2>1. /\ a \in [DOMAIN p -> Seen(f)]
        /\ \A j \in DOMAIN a : Len(IdxExprs(a[j])) = Len(DimsOf(prog, g, p[j]))
    BY <1>1 DEF Arguments
  <2> HIDE DEF p, n
  <2> QED BY <1>3, <2>1 DEF Dims
<1>5. \A v \in Seen(f) : /\ IdxExprs(v) \in Seq(ToSet(IdxExprs(v)))
                         /\ Len(IdxExprs(v)) \in Nat
  BY <1>2, SeenOf, IdxExprsOf
<1>6. PICK W, b : Spread(B, n, b, pushed, W)
  <2> HIDE DEF n, B
  <2> QED BY <1>3, <1>4, <1>5, PushedSpread DEF B
<1>7. PICK V, at : Spread(N, n, at, Names(g), V)
  BY <1>2, NamesSpread
<1>8. \A j \in 1 .. n : /\ Len(N[j]) = Len(B[j]) /\ B[j] = Append(IdxExprs(a[j]), a[j])
  <2> SUFFICES ASSUME NEW j \in 1 .. n
               PROVE  Len(N[j]) = Len(B[j]) /\ B[j] = Append(IdxExprs(a[j]), a[j])
    OBVIOUS
  <2>1. N[j] = Append(Dims(g, p[j]), p[j])
    BY <1>3 DEF NameBlocks
  <2>2. B[j] = Append(IdxExprs(a[j]), a[j])
    BY <1>4 DEF PushedBlocks
  <2>3. Dims(g, p[j]) \in Seq(ToSet(Dims(g, p[j])))
    BY <1>2, DimsFacts
  <2>4. IdxExprs(a[j]) \in Seq(ToSet(IdxExprs(a[j]))) /\ Len(IdxExprs(a[j])) = Len(Dims(g, p[j]))
    BY <1>4, <1>5
  <2> HIDE DEF N, B, p, n
  <2> QED BY <2>1, <2>2, <2>3, <2>4, BlockFacts
<1>9. b = at
  <2> HIDE DEF N, B, pushed, n
  <2> QED BY <1>3, <1>6, <1>7, <1>8, SpreadUnique
<1>10. /\ at \in [0 .. n -> Nat] /\ Len(Names(g)) = at[n] /\ Len(pushed) = at[n]
       /\ pushed \in Seq(W)
       /\ \A j \in 1 .. n : at[j] = at[j - 1] + Len(B[j]) /\ at[j] <= at[n]
       /\ \A j \in 1 .. n : \A k \in 1 .. Len(B[j]) : pushed[at[j - 1] + k] = B[j][k]
  <2> HIDE DEF N, B, pushed, n
  <2> QED BY <1>6, <1>7, <1>9 DEF Spread
<1>11. at[n] \in Nat /\ DOMAIN pushed = 1 .. at[n]
  <2> HIDE DEF pushed, n
  <2> QED BY <1>3, <1>10
<1>12. c.arity = at[n] /\ c.args = [k \in 1 .. at[n] |-> Address(f, pushed[k])]
  <2> HIDE DEF n
  <2> QED BY <1>1, <1>10, <1>11 DEF CallCode
<1> HIDE DEF N, B, pushed, n, p
<1>13. /\ Len(args) = at[n]
       /\ \A k \in 1 .. at[n] : args[k] = ValueAt(i, Address(f, pushed[k]))
  <2> DEFINE F(k) == ValueAt(i, c.args[k])
             S == {F(k) : k \in 1 .. at[n]}
  <2>1. args = [k \in 1 .. at[n] |-> F(k)] /\ \A k \in 1 .. at[n] : F(k) \in S
    BY <1>12 DEF Evaluated
  <2>2. \A k \in 1 .. at[n] : F(k) = ValueAt(i, Address(f, pushed[k]))
    BY <1>12
  <2> HIDE DEF F, S
  <2>3. args \in Seq(S) /\ Len(args) = at[n] /\ \A k \in 1 .. at[n] : args[k] = F(k)
    BY <1>11, <2>1
  <2> QED BY <2>2, <2>3
<1>14. Len(args) = Len(Params(g))
  BY <1>2, <1>10, <1>13, ParamFacts
<1>15. ASSUME NEW x \in ArrayNames(g), x \in ToSet(prog.params[g])
       PROVE  \E o : TakenAt(g, x, o) /\ ArgsFor(args, o, Rank(g, x))
  <2>1. PICK j \in 1 .. n : x = prog.params[g][j]
    BY <1>3, <1>15 DEF ToSet, p
  <2> DEFINE w == a[j]
             m == Rank(g, x)
             o == at[j - 1]
  <2>2. TakenAt(g, x, o)
    BY <1>2, <1>3, <1>7, <2>1, ArrayTaken DEF N, n, p
  <2>3. w \in Seen(f) /\ Len(IdxExprs(w)) = m /\ m \in Nat \ {0} /\ B[j] = Append(IdxExprs(w), w)
    BY <1>2, <1>4, <1>8, <2>1, IdxExprsFacts DEF p, Rank
  <2>4. IdxExprs(w) \in Seq(ToSet(IdxExprs(w)))
    BY <1>5, <2>3
  <2> HIDE DEF w, m
  <2>5. Len(B[j]) = m + 1 /\ B[j][m + 1] = w /\ \A k \in 1 .. m : B[j][k] = IdxExprs(w)[k]
    BY <2>3, <2>4, BlockFacts
  <2>6. o \in Nat
    BY <2>2 DEF TakenAt
  <2>7. o + (m + 1) <= at[n] /\ pushed[o + (m + 1)] = w /\ \A k \in 1 .. m : pushed[o + k] = IdxExprs(w)[k]
    <3>1. at[j] = o + Len(B[j]) /\ at[j] <= at[n] /\ \A k \in 1 .. Len(B[j]) : pushed[o + k] = B[j][k]
      BY <1>10
    <3>2. m + 1 \in 1 .. m + 1 /\ \A k \in 1 .. m : k \in 1 .. m + 1
      BY <2>3
    <3> HIDE DEF o
    <3> QED BY <2>5, <3>1, <3>2
  <2> HIDE DEF o
  <2>8. o + (m + 1) = o + m + 1 /\ o + m + 1 \in 1 .. at[n] /\ \A k \in 1 .. m : o + k \in 1 .. at[n]
    BY <1>11, <2>3, <2>6, <2>7
  <2>9. args[o + m + 1] = ValueAt(i, Address(f, w))
    BY <1>13, <2>7, <2>8
  <2>10. \A k \in 1 .. m : args[o + k] = ValueAt(i, Address(f, IdxExprs(w)[k]))
    BY <1>13, <2>7, <2>8
  <2>11. IdxExprs(w) # <<>>
    BY <2>3
  <2>12. ArgsFor(args, o, m)
    BY <1>1, <2>3, <2>6, <2>9, <2>10, <2>11, ArgumentsCarry
  <2> QED BY <2>2, <2>12 DEF m
<1> QED BY <1>14, <1>15 DEF Fit

LEMMA CallCarries ==
  ASSUME Typed, Lowering, Indexing, Emissions, Labels, Stack, Carried, Call
  PROVE  \E x : /\ frames' = Append(frames, x)
                /\ Carries(x.mem, x.fun)
<1> DEFINE i == Len(frames)
           f == frames[i].fun
<1>1. phase = "run" /\ frames # <<>> /\ Tree
  BY DEF Call, Typed
<1>2. i \in DOMAIN frames /\ f \in Funs
  BY <1>1 DEF Stack, FrameOK
<1>3. PICK c \in CodeOf(f).calls :
        \E scope : frames' = Append(frames,
          NewFrame(c.callee, Linked(i, c.up), Evaluated(i, c), scope))
  BY DEF Call, Top, Evaluated
<1> DEFINE args == Evaluated(i, c)
<1>4. PICK scope : frames' = Append(frames, NewFrame(c.callee, Linked(i, c.up), args, scope))
  BY <1>3
<1> HIDE DEF i, f
<1>5. PICK g \in Callable(f) : \E a \in Arguments(f, g) : c = CallCode(f, g, a)
  BY <1>1, <1>2, <1>3, CodeAtRun DEF StmtsCode
<1>6. PICK a \in Arguments(f, g) : c = CallCode(f, g, a)
  BY <1>5
<1>7. g \in Funs /\ c.callee = g
  BY <1>6 DEF Callable, CallCode
<1>8. Len(args) = Len(Params(g)) /\ Fit(args, g)
  <2>1. a \in Arguments(frames[i].fun, g) /\ c = CallCode(frames[i].fun, g, a)
    BY <1>6 DEF f
  <2> QED BY <1>2, <1>7, <2>1, ArgumentsFit
<1> HIDE DEF args
<1> DEFINE new == NewFrame(g, Linked(i, c.up), args, scope)
<1>9. Carries(new.mem, g)
  BY <1>1, <1>7, <1>8, NewFrameCarries
<1>10. new.fun = g
  BY NewFrameFields
<1>11. frames' = Append(frames, new)
  BY <1>4, <1>7
<1> HIDE DEF new
<1> QED BY <1>9, <1>10, <1>11

LEMMA CarriedStep ==
  Typed /\ Lowering /\ Indexing /\ Emissions /\ Labels /\ Stack /\ Carried /\ [Next]_vars => Carried'
<1> SUFFICES ASSUME Typed, Lowering, Indexing, Emissions, Labels, Stack, Carried, [Next]_vars
             PROVE  Carried'
  OBVIOUS
<1>1. prog' = prog /\ Tree
  BY SameProgram DEF Typed
<1>2. ASSUME index' = index PROVE \A mem, f : Carries(mem, f)' <=> Carries(mem, f)
  BY <1>1, <1>2 DEF Carries, ArrayNames, Rank, Dim
<1>3. CASE frames' = <<>>
  BY <1>3 DEF Carried
<1>4. CASE UNCHANGED <<index, frames>>
  BY <1>2, <1>4 DEF Carried
<1>5. CASE Start
  <2>1. PICK f \in ToSet(Children(0)) : prog.params[f] = <<>> /\ frames' = <<NewFrame(f, 0, <<>>, <<>>)>>
    BY <1>5 DEF Start
  <2> DEFINE none == <<>>
             x == NewFrame(f, 0, none, none)
  <2>2. f \in Funs /\ index' = index /\ phase = "run"
    BY <1>1, <1>5, TreeFacts DEF Start
  <2>3. Len(Params(f)) = 0 /\ Len(none) = 0
    <3>1. Len(prog.params[f]) = 0
      BY <2>1
    <3>2. Len(Names(f)) = 0
      BY <1>1, <2>2, <3>1, NamesSpread DEF Spread
    <3> QED BY <1>1, <2>2, <3>2, ParamFacts
  <2>4. \A args : Fit(args, f)
    BY <2>1 DEF Fit, ToSet
  <2>5. frames' = <<x>>
    BY <2>1
  <2> HIDE DEF none
  <2>6. Carries(x.mem, f) /\ x.fun = f
    BY <2>2, <2>3, <2>4, NewFrameCarries, NewFrameFields
  <2> HIDE DEF x
  <2>7. DOMAIN frames' = {1} /\ frames'[1] = x
    BY <2>5
  <2> QED BY <1>2, <2>2, <2>6, <2>7 DEF Carried
<1>6. CASE Call
  <2>1. PICK x : frames' = Append(frames, x) /\ Carries(x.mem, x.fun)
    BY <1>6, CallCarries
  <2>2. /\ DOMAIN frames' = DOMAIN frames \cup {Len(frames) + 1} /\ frames'[Len(frames) + 1] = x
        /\ \A j \in DOMAIN frames : frames'[j] = frames[j]
    BY <2>1, Pushes
  <2>3. index' = index
    BY <1>6 DEF Call
  <2> QED BY <1>2, <2>1, <2>2, <2>3 DEF Carried
<1>7. CASE Return
  <2>1. DOMAIN frames' \subseteq DOMAIN frames /\ \A j \in DOMAIN frames' : frames'[j] = frames[j]
    BY <1>7, Pops
  <2>2. index' = index
    BY <1>7 DEF Return
  <2> QED BY <1>2, <2>1, <2>2 DEF Carried
<1>8. CASE UNCHANGED vars
  BY <1>4, <1>8 DEF vars
<1>9. CASE For2WhileFundef \/ For2WhileStmts \/ NextPass("for2while", "index") \/ IndexLocals
           \/ NextPass("index", "codegen") \/ CodegenFundef \/ nextFunction \/ CodegenStmts
           \/ CodegenCrash \/ CodegenDone
  <2>1. phase # "run" /\ frames' = frames
    BY <1>9 DEF For2WhileFundef, For2WhileStmts, NextPass, IndexLocals, CodegenFundef, nextFunction,
                CodegenStmts, CodegenCrash, CodegenDone, At
  <2>2. frames = <<>>
    BY <2>1 DEF Stack
  <2> QED BY <1>3, <2>1, <2>2
<1> QED BY <1>5, <1>6, <1>7, <1>8, <1>9 DEF Next

LEMMA AlwaysCarried == Spec => [](Typed /\ Stack /\ Carried)
<1>1. Init => Carried
  BY DEF Init, Carried
<1> QED BY <1>1, AlwaysStack, AlwaysIndexing, AlwaysEmissions, CarriedStep, PTL DEF Spec

(* For every program and every depth of the stack: an array that was       *)
(* passed, however often, has in the parameters before it its dimensions.  *)
THEOREM ArraysKeepTheirDims == Spec => []ArraysCarryTheirDims
<1>1. Typed /\ Stack /\ Carried => ArraysCarryTheirDims
  <2> SUFFICES ASSUME Typed, Stack, Carried, NEW i \in DOMAIN frames,
                      NEW v \in ArrayParams(frames[i].fun), NEW k \in DOMAIN IdxExprs(v)
               PROVE  frames[i].mem[index[frames[i].fun][IdxExprs(v)[k]]]
                        = [frames[i].mem[index[frames[i].fun][v]] EXCEPT !.dim = k]
    BY DEF ArraysCarryTheirDims
  <2>1. PICK f \in Funs : f = frames[i].fun
    BY DEF Stack, FrameOK
  <2>2. PICK x \in ArrayNames(f) : v = Var(x, f)
    BY <2>1, ParamIsArray DEF Typed
  <2>3. k \in 1 .. Rank(f, x) /\ IdxExprs(v)[k] = Dim(f, x, k)
    BY <2>2, IdxExprsFacts DEF Typed
  <2>4. Carries(frames[i].mem, f)
    BY <2>1 DEF Carried
  <2>5. frames[i].mem[index[f][Dim(f, x, k)]]
          = [frames[i].mem[index[f][Var(x, f)]] EXCEPT !.dim = k]
    BY <2>2, <2>3, <2>4, SMTT(30) DEF Carries
  <2> QED BY <2>1, <2>2, <2>3, <2>5
<1> QED BY <1>1, AlwaysCarried, PTL
=============================================================================
