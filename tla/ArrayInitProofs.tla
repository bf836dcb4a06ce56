-------------------------- MODULE ArrayInitProofs --------------------------
(***************************************************************************)
(* Initializations, for all programs: places of elements, the order in     *)
(* which expressions are evaluated, and the literals that get through.     *)
(***************************************************************************)
EXTENDS ArrayInit, Integers, FiniteSetTheorems, SequenceTheorems, TLAPS

(* Induction, with the set of the numbers that a statement holds for.      *)
LEMMA AllNumbers ==
  ASSUME NEW T, 0 \in T, \A n \in Nat : n \in T => n + 1 \in T
  PROVE  \A n \in Nat : n \in T
<1> DEFINE U == {n \in Nat : n \notin T}
<1> SUFFICES ASSUME U # {} PROVE FALSE
  OBVIOUS
<1>1. PICK n \in U : \A m \in U : ~ (<<m, n>> \in OpToRel(<, Nat))
  BY WFMin, NatLessThanWellFounded
<1>2. \A m \in U : ~ (m < n)
  BY <1>1 DEF OpToRel
<1>3. n # 0 /\ n - 1 \in Nat /\ n - 1 \notin U /\ (n - 1) + 1 = n
  BY <1>2
<1> QED BY <1>3

-----------------------------------------------------------------------------
(* What the two recursive functions satisfy.                               *)
IndexFrom(indices, dims, from) ==
  from = [d \in 1 .. Len(dims) + 1 |->
            IF d > Len(dims) THEN indices[d] ELSE indices[d] * dims[d] + from[d + 1]]

SizeFrom(dims, from) ==
  from = [d \in 1 .. Len(dims) + 1 |-> IF d > Len(dims) THEN 1 ELSE dims[d] * from[d + 1]]

LEMMA IndexChosen ==
  ASSUME NEW indices, NEW dims, \E f : IndexFrom(indices, dims, f)
  PROVE  \E f : IndexFrom(indices, dims, f) /\ arrexprIdx(indices, dims) = f[1]
<1> DEFINE f == CHOOSE g : IndexFrom(indices, dims, g)
<1>1. IndexFrom(indices, dims, f)
  OBVIOUS
<1>2. arrexprIdx(indices, dims) = f[1]
  BY DEF arrexprIdx, IndexFrom
<1> QED BY <1>1, <1>2

LEMMA SizeChosen ==
  ASSUME NEW dims, \E f : SizeFrom(dims, f)
  PROVE  \E f : SizeFrom(dims, f) /\ sizeexprs(dims) = f[1]
<1> DEFINE f == CHOOSE g : SizeFrom(dims, g)
<1>1. SizeFrom(dims, f)
  OBVIOUS
<1>2. sizeexprs(dims) = f[1]
  BY DEF sizeexprs, SizeFrom
<1> QED BY <1>1, <1>2

(***************************************************************************)
(* The places, written out.                                                *)
(***************************************************************************)
LEMMA IndexOfNone ==
  ASSUME NEW v
  PROVE  arrexprIdx(v, << >>) = v[1]
<1> DEFINE g == [d \in 1 .. 1 |-> v[d]]
<1>1. Len(<< >>) = 0
  OBVIOUS
<1>2. IndexFrom(v, << >>, g)
  BY <1>1 DEF IndexFrom
<1>3. PICK f : IndexFrom(v, << >>, f) /\ arrexprIdx(v, << >>) = f[1]
  BY <1>2, IndexChosen
<1> QED BY <1>1, <1>3 DEF IndexFrom

LEMMA IndexOfOne ==
  ASSUME NEW v, NEW n
  PROVE  arrexprIdx(v, << n >>) = v[1] * n + v[2]
<1> DEFINE g == [d \in 1 .. 2 |-> IF d > 1 THEN v[d] ELSE v[1] * n + v[2]]
<1>1. Len(<< n >>) = 1 /\ << n >>[1] = n /\ 1 + 1 = 2
  OBVIOUS
<1>2. IndexFrom(v, << n >>, g)
  <2>1. \A d \in 1 .. 2 : g[d] = IF d > 1 THEN v[d] ELSE v[d] * << n >>[d] + g[d + 1]
    OBVIOUS
  <2>2. g = [d \in 1 .. 2 |-> g[d]]
    OBVIOUS
  <2> HIDE DEF g
  <2> QED BY <2>1, <2>2, <1>1 DEF IndexFrom
<1>3. PICK f : IndexFrom(v, << n >>, f) /\ arrexprIdx(v, << n >>) = f[1]
  BY <1>2, IndexChosen
<1>4. \A d \in 1 .. 2 : f[d] = IF d > 1 THEN v[d] ELSE v[d] * << n >>[d] + f[d + 1]
  BY <1>1, <1>3 DEF IndexFrom
<1>5. f[2] = v[2]
  BY <1>4
<1>6. f[1] = v[1] * << n >>[1] + f[2]
  BY <1>4
<1> QED BY <1>1, <1>3, <1>5, <1>6

LEMMA IndexOfTwo ==
  ASSUME NEW v, NEW m, NEW n
  PROVE  arrexprIdx(v, << m, n >>) = v[1] * m + (v[2] * n + v[3])
<1> DEFINE g == [d \in 1 .. 3 |-> IF d > 2 THEN v[3] ELSE IF d > 1 THEN v[2] * n + v[3]
                                  ELSE v[1] * m + (v[2] * n + v[3])]
<1>1. Len(<< m, n >>) = 2 /\ << m, n >>[1] = m /\ << m, n >>[2] = n
  OBVIOUS
<1>2. IndexFrom(v, << m, n >>, g)
  <2>1. /\ g[3] = v[3] /\ g[2] = v[2] * n + g[3] /\ g[1] = v[1] * m + g[2]
    OBVIOUS
  <2>2. g = [d \in 1 .. 3 |-> g[d]]
    OBVIOUS
  <2> HIDE DEF g
  <2>3. \A d \in 1 .. 3 : g[d] = IF d > 2 THEN v[d] ELSE v[d] * << m, n >>[d] + g[d + 1]
    BY <2>1, <1>1
  <2> QED BY <2>2, <2>3, <1>1 DEF IndexFrom
<1>3. PICK f : IndexFrom(v, << m, n >>, f) /\ arrexprIdx(v, << m, n >>) = f[1]
  BY <1>2, IndexChosen
<1>4. \A d \in 1 .. 3 : f[d] = IF d > 2 THEN v[d] ELSE v[d] * << m, n >>[d] + f[d + 1]
  BY <1>1, <1>3 DEF IndexFrom
<1>5. f[3] = v[3]
  BY <1>4
<1>6. f[2] = v[2] * << m, n >>[2] + f[3]
  BY <1>4
<1>7. f[1] = v[1] * << m, n >>[1] + f[2]
  BY <1>4
<1> QED BY <1>1, <1>3, <1>5, <1>6, <1>7

LEMMA SizeOfOne ==
  ASSUME NEW n \in Nat
  PROVE  sizeexprs(<< n >>) = n
<1> DEFINE g == [d \in 1 .. 2 |-> IF d > 1 THEN 1 ELSE n]
<1>1. Len(<< n >>) = 1 /\ << n >>[1] = n
  OBVIOUS
<1>2. SizeFrom(<< n >>, g)
  <2>1. g[2] = 1 /\ g[1] = n * g[2]
    OBVIOUS
  <2>2. g = [d \in 1 .. 2 |-> g[d]]
    OBVIOUS
  <2> HIDE DEF g
  <2>3. \A d \in 1 .. 2 : g[d] = IF d > 1 THEN 1 ELSE << n >>[d] * g[d + 1]
    BY <2>1, <1>1
  <2> QED BY <2>2, <2>3, <1>1 DEF SizeFrom
<1>3. PICK f : SizeFrom(<< n >>, f) /\ sizeexprs(<< n >>) = f[1]
  BY <1>2, SizeChosen
<1>4. \A d \in 1 .. 2 : f[d] = IF d > 1 THEN 1 ELSE << n >>[d] * f[d + 1]
  BY <1>1, <1>3 DEF SizeFrom
<1>5. f[2] = 1 /\ f[1] = << n >>[1] * f[2]
  BY <1>4
<1> QED BY <1>1, <1>3, <1>5

LEMMA SizeOfTwo ==
  ASSUME NEW m \in Nat, NEW n \in Nat
  PROVE  sizeexprs(<< m, n >>) = m * n
<1> DEFINE g == [d \in 1 .. 3 |-> IF d > 2 THEN 1 ELSE IF d > 1 THEN n ELSE m * n]
<1>1. Len(<< m, n >>) = 2 /\ << m, n >>[1] = m /\ << m, n >>[2] = n
  OBVIOUS
<1>2. SizeFrom(<< m, n >>, g)
  <2>1. g[3] = 1 /\ g[2] = n * g[3] /\ g[1] = m * g[2]
    OBVIOUS
  <2>2. g = [d \in 1 .. 3 |-> g[d]]
    OBVIOUS
  <2> HIDE DEF g
  <2>3. \A d \in 1 .. 3 : g[d] = IF d > 2 THEN 1 ELSE << m, n >>[d] * g[d + 1]
    BY <2>1, <1>1
  <2> QED BY <2>2, <2>3, <1>1 DEF SizeFrom
<1>3. PICK f : SizeFrom(<< m, n >>, f) /\ sizeexprs(<< m, n >>) = f[1]
  BY <1>2, SizeChosen
<1>4. \A d \in 1 .. 3 : f[d] = IF d > 2 THEN 1 ELSE << m, n >>[d] * f[d + 1]
  BY <1>1, <1>3 DEF SizeFrom
<1>5. f[3] = 1 /\ f[2] = << m, n >>[2] * f[3] /\ f[1] = << m, n >>[1] * f[2]
  BY <1>4
<1>6. f[2] = n
  BY <1>1, <1>5
<1> QED BY <1>1, <1>3, <1>5, <1>6

LEMMA SizeOfThree ==
  ASSUME NEW l \in Nat, NEW m \in Nat, NEW n \in Nat
  PROVE  sizeexprs(<< l, m, n >>) = l * (m * n)
<1> DEFINE g == [d \in 1 .. 4 |-> IF d > 3 THEN 1 ELSE IF d > 2 THEN n
                                  ELSE IF d > 1 THEN m * n ELSE l * (m * n)]
<1>1. /\ Len(<< l, m, n >>) = 3
      /\ << l, m, n >>[1] = l /\ << l, m, n >>[2] = m /\ << l, m, n >>[3] = n
  OBVIOUS
<1>2. SizeFrom(<< l, m, n >>, g)
  <2>1. g[4] = 1 /\ g[3] = n * g[4] /\ g[2] = m * g[3] /\ g[1] = l * g[2]
    OBVIOUS
  <2>2. g = [d \in 1 .. 4 |-> g[d]]
    OBVIOUS
  <2> HIDE DEF g
  <2>3. \A d \in 1 .. 4 : g[d] = IF d > 3 THEN 1 ELSE << l, m, n >>[d] * g[d + 1]
    BY <2>1, <1>1
  <2> QED BY <2>2, <2>3, <1>1 DEF SizeFrom
<1>3. PICK f : SizeFrom(<< l, m, n >>, f) /\ sizeexprs(<< l, m, n >>) = f[1]
  BY <1>2, SizeChosen
<1>4. \A d \in 1 .. 4 : f[d] = IF d > 3 THEN 1 ELSE << l, m, n >>[d] * f[d + 1]
  BY <1>1, <1>3 DEF SizeFrom
<1>5. /\ f[4] = 1 /\ f[3] = << l, m, n >>[3] * f[4] /\ f[2] = << l, m, n >>[2] * f[3]
      /\ f[1] = << l, m, n >>[1] * f[2]
  BY <1>4
<1>6. f[3] = n /\ f[2] = m * f[3]
  BY <1>1, <1>5
<1> QED BY <1>1, <1>3, <1>5, <1>6

(***************************************************************************)
(* Rows of n places do not overlap.                                        *)
(***************************************************************************)
LEMMA NextRow ==
  ASSUME NEW n \in Nat, NEW i \in Nat, NEW k \in Nat, NEW j \in 0 .. n - 1, i < k
  PROVE  i * n + j < k * n
<1> DEFINE e == k - i
<1>1. e \in Nat /\ e >= 1 /\ k = i + e
  OBVIOUS
<1>2. e * n >= n /\ k * n = i * n + e * n
  BY <1>1, SMT
<1>3. i * n \in Nat /\ e * n \in Nat /\ k * n \in Nat
  BY <1>1, SMT
<1> HIDE DEF e
<1> QED BY <1>2, <1>3

LEMMA RowsApart ==
  ASSUME NEW n \in Nat, NEW i \in Nat, NEW k \in Nat, NEW j \in 0 .. n - 1, NEW l \in 0 .. n - 1,
         i * n + j = k * n + l
  PROVE  i = k /\ j = l
<1>1. i * n \in Nat /\ k * n \in Nat
  BY SMT
<1>2. ~ (i < k)
  <2> SUFFICES ASSUME i < k PROVE FALSE
    OBVIOUS
  <2>1. i * n + j < k * n
    BY NextRow
  <2> QED BY <1>1, <2>1
<1>3. ~ (k < i)
  <2> SUFFICES ASSUME k < i PROVE FALSE
    OBVIOUS
  <2>1. k * n + l < i * n
    BY NextRow
  <2> QED BY <1>1, <2>1
<1>4. i = k
  BY <1>2, <1>3
<1> QED BY <1>1, <1>4

(***************************************************************************)
(* The elements of an array of one dimension have places of their own: the *)
(* access is left as it is (dimreduce.c 38-60 multiplies nothing).         *)
(***************************************************************************)
THEOREM VectorElementsApart == \A n \in Nat : Apart(<< n >>)
<1> SUFFICES ASSUME NEW n \in Nat, NEW at \in Box(<< n >>), NEW to \in Box(<< n >>)
             PROVE  /\ reduced(at, << n >>) < sizeexprs(<< n >>)
                    /\ reduced(at, << n >>) = reduced(to, << n >>) => at = to
  BY DEF Apart
<1>1. Tail(<< n >>) = << >> /\ DOMAIN << n >> = 1 .. 1 /\ << n >>[1] = n
  OBVIOUS
<1>2. reduced(at, << n >>) = at[1] /\ reduced(to, << n >>) = to[1]
  BY <1>1, IndexOfNone DEF reduced
<1>3. sizeexprs(<< n >>) = n
  BY SizeOfOne
<1>4. /\ at \in [1 .. 1 -> 0 .. n] /\ at[1] < n
      /\ to \in [1 .. 1 -> 0 .. n] /\ to[1] < n
  BY <1>1, <1>3 DEF Box
<1>5. at[1] = to[1] => at = to
  BY <1>4
<1> QED BY <1>2, <1>3, <1>4, <1>5

(***************************************************************************)
(* The elements of an array of two dimensions have places of their own,    *)
(* for all extents: the first index is multiplied by the second dimension  *)
(* (arrexprIdx of dimreduce.c 29-36), and rows of that length do not       *)
(* overlap.                                                                *)
(***************************************************************************)
THEOREM MatrixElementsApart == \A m, n \in Nat : Apart(<< m, n >>)
<1> SUFFICES ASSUME NEW m \in Nat, NEW n \in Nat,
                    NEW at \in Box(<< m, n >>), NEW to \in Box(<< m, n >>)
             PROVE  /\ reduced(at, << m, n >>) < sizeexprs(<< m, n >>)
                    /\ reduced(at, << m, n >>) = reduced(to, << m, n >>) => at = to
  BY DEF Apart
<1>1. /\ Tail(<< m, n >>) = << n >> /\ DOMAIN << m, n >> = 1 .. 2
      /\ << m, n >>[1] = m /\ << m, n >>[2] = n
  OBVIOUS
<1>2. /\ reduced(at, << m, n >>) = at[1] * n + at[2]
      /\ reduced(to, << m, n >>) = to[1] * n + to[2]
  BY <1>1, IndexOfOne DEF reduced
<1>3. sizeexprs(<< m, n >>) = m * n
  BY SizeOfTwo
<1>4. /\ at \in [1 .. 2 -> 0 .. m * n] /\ at[1] < m /\ at[2] < n
      /\ to \in [1 .. 2 -> 0 .. m * n] /\ to[1] < m /\ to[2] < n
  BY <1>1, <1>3 DEF Box
<1>5. /\ at[1] \in Nat /\ at[2] \in 0 .. n - 1 /\ at[1] < m
      /\ to[1] \in Nat /\ to[2] \in 0 .. n - 1
  BY <1>4
<1>6. at[1] * n + at[2] < m * n
  BY <1>5, NextRow
<1>7. at[1] * n + at[2] = to[1] * n + to[2] => at[1] = to[1] /\ at[2] = to[2]
  <2> SUFFICES ASSUME at[1] * n + at[2] = to[1] * n + to[2]
               PROVE  at[1] = to[1] /\ at[2] = to[2]
    OBVIOUS
  <2> DEFINE a == at[1]
             b == at[2]
             c == to[1]
             d == to[2]
  <2>1. a \in Nat /\ b \in 0 .. n - 1 /\ c \in Nat /\ d \in 0 .. n - 1 /\ a * n + b = c * n + d
    BY <1>5
  <2> HIDE DEF a, b, c, d
  <2>2. a = c /\ b = d
    BY <2>1, RowsApart
  <2> QED BY <2>2 DEF a, b, c, d
<1>8. at[1] = to[1] /\ at[2] = to[2] => at = to
  BY <1>4
<1> QED BY <1>2, <1>3, <1>6, <1>7, <1>8

(***************************************************************************)
(* In an array of three dimensions elements share places, however large it *)
(* is: the first index is multiplied by the second dimension alone         *)
(* (arrexprIdx of dimreduce.c 29-36), so [1, 0, 0] has the place m, which  *)
(* the elements with first index 0 cover.                                  *)
(***************************************************************************)
THEOREM CubeElementsOverlap ==
  \A l, m, n \in Nat : l >= 2 /\ m >= 1 /\ n >= 2 => ~ Apart(<< l, m, n >>)
<1> SUFFICES ASSUME NEW l \in Nat, NEW m \in Nat, NEW n \in Nat, l >= 2, m >= 1, n >= 2
             PROVE  \E at, to \in Box(<< l, m, n >>) :
                      /\ reduced(at, << l, m, n >>) = reduced(to, << l, m, n >>)
                      /\ at # to
  BY DEF Apart
<1>1. /\ Tail(<< l, m, n >>) = << m, n >> /\ DOMAIN << l, m, n >> = 1 .. 3
      /\ << l, m, n >>[1] = l /\ << l, m, n >>[2] = m /\ << l, m, n >>[3] = n
  OBVIOUS
<1> DEFINE q == m \div n
           r == m % n
           size == l * (m * n)
           at == [d \in 1 .. 3 |-> IF d = 1 THEN 1 ELSE 0]
           to == [d \in 1 .. 3 |-> IF d = 1 THEN 0 ELSE IF d = 2 THEN q ELSE r]
<1>2. q \in Nat /\ r \in 0 .. n - 1 /\ m = n * q + r
  BY SMT
<1>3. q < m
  <2>1. CASE q = 0
    BY <2>1
  <2>2. CASE q # 0
    <3>1. n * q >= 2 * q
      BY <1>2, SMT
    <3>2. n * q \in Nat
      BY <1>2, SMT
    <3> HIDE DEF q, r
    <3> QED BY <1>2, <2>2, <3>1, <3>2
  <2> QED BY <2>1, <2>2
<1>4. size \in Nat /\ size >= m /\ size >= n /\ size >= 1
  BY SMT
<1>5. sizeexprs(<< l, m, n >>) = size
  BY SizeOfThree
<1> HIDE DEF q, r, size
<1>6. at \in Box(<< l, m, n >>)
  <2>1. at \in [1 .. 3 -> 0 .. size]
    BY <1>4
  <2>2. at[1] = 1 /\ at[2] = 0 /\ at[3] = 0
    OBVIOUS
  <2> HIDE DEF at
  <2>3. \A d \in 1 .. 3 : at[d] < << l, m, n >>[d]
    BY <1>1, <2>2
  <2> QED BY <1>1, <1>5, <2>1, <2>3 DEF Box
<1>7. to \in Box(<< l, m, n >>)
  <2>1. to \in [1 .. 3 -> 0 .. size]
    BY <1>2, <1>3, <1>4
  <2>2. to[1] = 0 /\ to[2] = q /\ to[3] = r
    OBVIOUS
  <2> HIDE DEF to
  <2>3. \A d \in 1 .. 3 : to[d] < << l, m, n >>[d]
    BY <1>1, <1>2, <1>3, <2>2
  <2> QED BY <1>1, <1>5, <2>1, <2>3 DEF Box
<1>8. reduced(at, << l, m, n >>) = 1 * m + (0 * n + 0)
  BY <1>1, IndexOfTwo DEF reduced
<1>9. reduced(to, << l, m, n >>) = 0 * m + (q * n + r)
  BY <1>1, IndexOfTwo DEF reduced
<1>10. reduced(at, << l, m, n >>) = reduced(to, << l, m, n >>)
  <2>1. q * n = n * q /\ q * n \in Nat /\ 0 * n = 0 /\ 0 * m = 0
    BY <1>2, SMT
  <2> QED BY <1>2, <1>8, <1>9, <2>1
<1>11. at # to
  <2>1. at[1] = 1 /\ to[1] = 0
    OBVIOUS
  <2> QED BY <2>1
<1> QED BY <1>6, <1>7, <1>10, <1>11

-----------------------------------------------------------------------------
(***************************************************************************)
(* The rows of a literal stand at different indices.                       *)
(***************************************************************************)
(* What the parser's rules say of a node and the nodes that it names.      *)
NodeShape(lit, n) ==
  LET node == lit[n]
        after == IF node.siblings = 0 THEN n ELSE lit[node.siblings].first
    IN  /\ node \in Node /\ node.at \in Seq(Nat) /\ Len(node.at) \in Nat \ {0}
        /\ n \in Nat /\ node.exprs \in Nat /\ node.first \in 1 .. n
        /\ node.exprs > 0 => node.next = 0 /\ node.siblings = 0
        /\ node.siblings # 0 =>
             /\ node.siblings = n - 1 /\ n - 1 \in 1 .. Len(lit)
             /\ lit[n - 1].exprs = 0 /\ lit[n - 1].first \in 1 .. n - 1
             /\ lit[n - 1].at = [node.at EXCEPT ![Len(node.at)] = @ + 1]
        /\ after \in 1 .. n
        /\ node.next # 0 =>
             /\ node.next = after - 1 /\ node.next \in 1 .. Len(lit)
             /\ lit[node.next].at = Append(node.at, 0)
             /\ node.first = lit[node.next].first
        /\ node.next = 0 => node.first = after

LEMMA NodeFacts ==
  ASSUME NEW lit \in Seq(Node), Parsed(lit), NEW n \in 1 .. Len(lit)
  PROVE  NodeShape(lit, n)
<1> DEFINE node == lit[n]
           after == IF node.siblings = 0 THEN n ELSE lit[node.siblings].first
<1>1. node \in Node /\ DOMAIN lit = 1 .. Len(lit) /\ Len(lit) \in Nat
  OBVIOUS
<1>2. /\ node.at \in Seq(Nat) /\ node.exprs \in Nat /\ node.next \in Nat /\ node.siblings \in Nat
  BY <1>1 DEF Node
<1>3. ParsedNode(lit, n) /\ \A i \in 1 .. Len(lit) : ParsedNode(lit, i)
  BY <1>1 DEF Parsed
<1>4. Len(node.at) \in Nat \ {0} /\ node.first \in 1 .. n
  <2>1. node.first \in 1 .. n /\ node.at # <<>>
    BY <1>3 DEF ParsedNode
  <2> HIDE DEF node
  <2> QED BY <1>2, <2>1
<1>5. \A i \in 1 .. Len(lit) : lit[i].first \in 1 .. i
  BY <1>3 DEF ParsedNode
<1>6. node.siblings # 0 => node.siblings = n - 1 /\ n - 1 \in 1 .. Len(lit)
  BY <1>1, <1>2, <1>3 DEF ParsedNode
<1>7. after \in 1 .. n
  BY <1>1, <1>5, <1>6
<1>8. node.next \in {0, after - 1}
  BY <1>3 DEF ParsedNode
<1>9. node.next # 0 => node.next = after - 1 /\ node.next \in 1 .. Len(lit)
  <2> HIDE DEF after, node
  <2> QED BY <1>1, <1>2, <1>7, <1>8
<1>10. node.siblings # 0 => /\ lit[n - 1].exprs = 0
                            /\ lit[n - 1].at = [node.at EXCEPT ![Len(node.at)] = @ + 1]
  BY <1>3, <1>6 DEF ParsedNode
<1>11. node.next # 0 => lit[node.next].at = Append(node.at, 0)
  BY <1>3 DEF ParsedNode
<1>12. node.first = IF node.next = 0 THEN after ELSE lit[node.next].first
  BY <1>3 DEF ParsedNode
<1>13. node.exprs > 0 => node.next = 0 /\ node.siblings = 0
  BY <1>3 DEF ParsedNode
<1>14. node.siblings # 0 => lit[n - 1].first \in 1 .. n - 1
  BY <1>5, <1>6
<1> HIDE DEF after
<1>15. /\ node \in Node /\ node.at \in Seq(Nat) /\ Len(node.at) \in Nat \ {0}
       /\ n \in Nat /\ node.exprs \in Nat /\ node.first \in 1 .. n
  BY <1>1, <1>2, <1>4
<1>16. node.next = 0 => node.first = after
  BY <1>12
<1>17. node.next # 0 => node.first = lit[node.next].first
  BY <1>12
<1> HIDE DEF node
<1>18. /\ node \in Node /\ node.at \in Seq(Nat) /\ Len(node.at) \in Nat \ {0}
       /\ n \in Nat /\ node.exprs \in Nat /\ node.first \in 1 .. n
       /\ node.exprs > 0 => node.next = 0 /\ node.siblings = 0
       /\ node.siblings # 0 =>
            /\ node.siblings = n - 1 /\ n - 1 \in 1 .. Len(lit)
            /\ lit[n - 1].exprs = 0 /\ lit[n - 1].first \in 1 .. n - 1
            /\ lit[n - 1].at = [node.at EXCEPT ![Len(node.at)] = @ + 1]
       /\ after \in 1 .. n
       /\ node.next # 0 =>
            /\ node.next = after - 1 /\ node.next \in 1 .. Len(lit)
            /\ lit[node.next].at = Append(node.at, 0)
            /\ node.first = lit[node.next].first
       /\ node.next = 0 => node.first = after
  BY <1>6, <1>7, <1>9, <1>10, <1>11, <1>13, <1>14, <1>15, <1>16, <1>17, Zenon
<1> QED BY <1>18 DEF NodeShape, node, after

(* Indices that continue others, or those of a later row.                  *)
Continues(at, to) ==
  /\ Len(at) <= Len(to) /\ at[Len(at)] <= to[Len(at)]
  /\ \A i \in 1 .. Len(at) - 1 : to[i] = at[i]

(* What is known of the nodes at and below a node.                         *)
Below(lit, n) ==
  /\ \A m \in lit[n].first .. n : Continues(lit[n].at, lit[m].at)
  /\ \A l, m \in lit[n].first .. n : lit[l].at = lit[m].at => l = m
  /\ \A m \in lit[n].first .. n - 1 : lit[m].exprs > 0 => lit[m].at[Len(lit[m].at)] = 0

LEMMA AfterRow ==
  ASSUME NEW at \in Seq(Nat), Len(at) \in Nat \ {0}, NEW x \in Seq(Nat),
         Continues([at EXCEPT ![Len(at)] = @ + 1], x)
  PROVE  Continues(at, x) /\ x[Len(at)] > at[Len(at)]
<1> DEFINE L  == Len(at)
           to == [at EXCEPT ![L] = @ + 1]
<1>1. Len(to) = L /\ to[L] = at[L] + 1 /\ \A i \in 1 .. L - 1 : to[i] = at[i]
  OBVIOUS
<1>2. L \in Nat \ {0} /\ at[L] \in Nat /\ Len(x) \in Nat /\ Continues(to, x)
  OBVIOUS
<1> HIDE DEF to, L
<1>3. L <= Len(x) /\ at[L] + 1 <= x[L] /\ \A i \in 1 .. L - 1 : x[i] = at[i]
  BY <1>1, <1>2 DEF Continues
<1>4. L \in 1 .. Len(x)
  BY <1>2, <1>3
<1>5. x[L] \in Nat
  BY <1>4, ElementOfSeq
<1>6. at[L] <= x[L] /\ x[L] > at[L]
  <2> DEFINE a == at[L]
             b == x[L]
  <2>1. a \in Nat /\ b \in Nat /\ a + 1 <= b
    BY <1>2, <1>3, <1>5
  <2> HIDE DEF a, b
  <2>2. a <= b /\ b > a
    BY <2>1
  <2> QED BY <2>2 DEF a, b
<1> QED BY <1>3, <1>6 DEF Continues, L

LEMMA InRow ==
  ASSUME NEW at \in Seq(Nat), Len(at) \in Nat \ {0}, NEW x \in Seq(Nat),
         Continues(Append(at, 0), x)
  PROVE  Continues(at, x) /\ x[Len(at)] = at[Len(at)] /\ Len(x) > Len(at)
<1> DEFINE L  == Len(at)
           to == Append(at, 0)
<1>1. Len(to) = L + 1 /\ \A i \in 1 .. L : to[i] = at[i]
  OBVIOUS
<1>2. L \in Nat \ {0} /\ at[L] \in Nat /\ Len(x) \in Nat /\ Continues(to, x)
  OBVIOUS
<1> HIDE DEF to, L
<1>3. L + 1 <= Len(x) /\ \A i \in 1 .. (L + 1) - 1 : x[i] = to[i]
  BY <1>1, <1>2 DEF Continues
<1>4. (L + 1) - 1 = L /\ L \in 1 .. L /\ L < Len(x) /\ L <= Len(x)
  <2> DEFINE b == Len(x)
  <2>1. b \in Nat /\ L + 1 <= b /\ L \in Nat \ {0}
    BY <1>2, <1>3
  <2> HIDE DEF b
  <2>2. (L + 1) - 1 = L /\ L \in 1 .. L /\ L < b /\ L <= b
    BY <2>1
  <2> QED BY <2>2 DEF b
<1>5. \A i \in 1 .. L : x[i] = at[i]
  BY <1>1, <1>3, <1>4
<1>6. \A i \in 1 .. L - 1 : x[i] = at[i]
  BY <1>2, <1>5
<1>7. x[L] = at[L] /\ at[L] <= x[L]
  BY <1>2, <1>4, <1>5
<1> QED BY <1>4, <1>6, <1>7 DEF Continues, L

LEMMA BelowStep ==
  ASSUME NEW lit \in Seq(Node), Parsed(lit), NEW n \in 1 .. Len(lit),
         \A m \in 1 .. n - 1 : Below(lit, m)
  PROVE  Below(lit, n)
<1> DEFINE node == lit[n]
           at == node.at
           L == Len(at)
           after == IF node.siblings = 0 THEN n ELSE lit[node.siblings].first
<1>1. /\ at \in Seq(Nat) /\ L \in Nat \ {0} /\ n \in Nat /\ node.first \in 1 .. n /\ after \in 1 .. n
      /\ node.siblings # 0 =>
           /\ node.siblings = n - 1 /\ n - 1 \in 1 .. Len(lit) /\ lit[n - 1].exprs = 0
           /\ lit[n - 1].at = [at EXCEPT ![L] = @ + 1]
      /\ node.next # 0 => /\ node.next = after - 1 /\ node.next \in 1 .. Len(lit)
                          /\ lit[node.next].at = Append(at, 0)
                          /\ node.first = lit[node.next].first
      /\ node.next = 0 => node.first = after
  <2>1. NodeShape(lit, n)
    BY NodeFacts
  <2> QED BY <2>1 DEF NodeShape
<1>2. node.siblings = 0 => after = n
  OBVIOUS
<1>3. node.siblings # 0 => after = lit[n - 1].first
  BY <1>1
<1> HIDE DEF after
<1>24. n \in Nat /\ after \in 1 .. n /\ node.first \in 1 .. n
  BY <1>1
<1> DEFINE rows == after .. n - 1
           row  == node.first .. after - 1
<1>4. \A m \in 1 .. n : lit[m].at \in Seq(Nat) /\ Len(lit[m].at) \in Nat \ {0}
  <2>1. \A m \in 1 .. n : m \in 1 .. Len(lit)
    OBVIOUS
  <2>2. \A m \in 1 .. n : NodeShape(lit, m)
    BY <2>1, NodeFacts
  <2> QED BY <2>2 DEF NodeShape
<1>5. ASSUME rows # {}
      PROVE  /\ Below(lit, n - 1) /\ rows = lit[n - 1].first .. n - 1
             /\ lit[n - 1].at = [at EXCEPT ![L] = @ + 1] /\ lit[n - 1].exprs = 0
  <2>1. node.siblings # 0
    <3>1. after = n => rows = {}
      BY <1>24
    <3> HIDE DEF rows
    <3> QED BY <1>2, <1>5, <3>1
  <2>2. n - 1 \in 1 .. n - 1
    BY <1>1, <2>1
  <2> QED BY <1>1, <1>3, <2>1, <2>2
<1>6. ASSUME row # {}
      PROVE  /\ Below(lit, after - 1) /\ row = lit[after - 1].first .. after - 1
             /\ lit[after - 1].at = Append(at, 0)
  <2>1. node.next # 0
    <3>1. node.first = after => row = {}
      <4>1. node.first \in Nat /\ after \in Nat
        BY <1>24
      <4> HIDE DEF node
      <4> QED BY <4>1
    <3>2. node.next = 0 => node.first = after
      BY <1>1
    <3> HIDE DEF row
    <3> QED BY <1>6, <3>1, <3>2
  <2>2. after - 1 \in 1 .. n - 1
    <3>1. node.next = after - 1 /\ node.next \in 1 .. Len(lit) /\ after \in 1 .. n
      BY <1>1, <2>1, Zenon
    <3> HIDE DEF node
    <3> QED BY <3>1
  <2>3. Below(lit, after - 1)
    BY <2>2
  <2>4. lit[after - 1].at = Append(at, 0) /\ node.first = lit[after - 1].first
    BY <1>1, <2>1, Zenon
  <2> QED BY <2>3, <2>4
<1>7. \A m \in rows : m \in 1 .. n
  BY <1>1
<1>8. \A m \in row : m \in 1 .. n
  BY <1>1
<1>9. \A m \in rows : Continues(at, lit[m].at) /\ lit[m].at[L] > at[L]
  <2> SUFFICES ASSUME NEW m \in rows PROVE Continues(at, lit[m].at) /\ lit[m].at[L] > at[L]
    OBVIOUS
  <2>1. lit[m].at \in Seq(Nat) /\ Continues(lit[n - 1].at, lit[m].at)
    BY <1>4, <1>5, <1>7 DEF Below
  <2>2. lit[n - 1].at = [at EXCEPT ![Len(at)] = @ + 1] /\ at \in Seq(Nat) /\ Len(at) \in Nat \ {0}
    BY <1>1, <1>5
  <2>3. Continues([at EXCEPT ![Len(at)] = @ + 1], lit[m].at)
    BY <2>1, <2>2
  <2> HIDE DEF at
  <2> QED BY <2>1, <2>2, <2>3, AfterRow
<1>10. \A m \in row : Continues(at, lit[m].at) /\ lit[m].at[L] = at[L] /\ Len(lit[m].at) > L
  <2> SUFFICES ASSUME NEW m \in row
               PROVE  Continues(at, lit[m].at) /\ lit[m].at[L] = at[L] /\ Len(lit[m].at) > L
    OBVIOUS
  <2>1. lit[m].at \in Seq(Nat) /\ Continues(lit[after - 1].at, lit[m].at)
    BY <1>4, <1>6, <1>8 DEF Below
  <2>2. lit[after - 1].at = Append(at, 0) /\ at \in Seq(Nat) /\ Len(at) \in Nat \ {0}
    BY <1>1, <1>6
  <2>3. Continues(Append(at, 0), lit[m].at)
    BY <2>1, <2>2
  <2> HIDE DEF at
  <2> QED BY <2>1, <2>2, <2>3, InRow
<1>11. \A l, m \in rows : lit[l].at = lit[m].at => l = m
  BY <1>5 DEF Below
<1>12. \A l, m \in row : lit[l].at = lit[m].at => l = m
  BY <1>6 DEF Below
<1>13. \A m \in node.first .. n : m = n \/ m \in rows \/ m \in row
  <2>1. node.first \in Nat /\ after \in Nat /\ n \in Nat
    BY <1>1
  <2> HIDE DEF node
  <2> QED BY <2>1
<1>14. Continues(at, at) /\ at[L] \in Nat /\ lit[n].at = at
  <2>1. at \in Seq(Nat) /\ Len(at) \in Nat \ {0} /\ lit[n].at = at
    BY <1>1
  <2> HIDE DEF at
  <2>2. at[Len(at)] \in Nat /\ Len(at) <= Len(at)
    BY <2>1
  <2> QED BY <2>1, <2>2 DEF Continues
<1>20. \A m \in rows : lit[m].exprs > 0 => lit[m].at[Len(lit[m].at)] = 0
  <2> SUFFICES ASSUME NEW m \in rows, lit[m].exprs > 0 PROVE lit[m].at[Len(lit[m].at)] = 0
    OBVIOUS
  <2>1. m # n - 1
    BY <1>5
  <2>2. m \in lit[n - 1].first .. (n - 1) - 1
    <3>1. m \in lit[n - 1].first .. n - 1 /\ n - 1 \in Int
      <4>1. rows = lit[n - 1].first .. n - 1
        BY <1>5
      <4> HIDE DEF rows
      <4> QED BY <1>24, <4>1
    <3> QED BY ONLY <2>1, <3>1
  <2> QED BY <1>5, <2>2 DEF Below
<1>21. \A m \in row : lit[m].exprs > 0 => lit[m].at[Len(lit[m].at)] = 0
  <2> SUFFICES ASSUME NEW m \in row, lit[m].exprs > 0 PROVE lit[m].at[Len(lit[m].at)] = 0
    OBVIOUS
  <2>1. CASE m = after - 1
    <3>1. lit[m].at = Append(at, 0)
      BY <1>6, <2>1
    <3>2. at \in Seq(Nat)
      BY <1>1
    <3> HIDE DEF at
    <3> QED BY <3>1, <3>2
  <2>2. CASE m # after - 1
    <3>1. m \in lit[after - 1].first .. (after - 1) - 1
      <4>1. m \in lit[after - 1].first .. after - 1 /\ after - 1 \in Int
        <5>1. row = lit[after - 1].first .. after - 1
          BY <1>6
        <5> HIDE DEF row
        <5> QED BY <1>24, <5>1
      <4> QED BY ONLY <2>2, <4>1
    <3> QED BY <1>6, <3>1 DEF Below
  <2> QED BY <2>1, <2>2
<1>22. \A m \in node.first .. n - 1 : m \in rows \/ m \in row
  <2>1. node.first \in Nat /\ after \in Nat /\ n \in Nat
    BY <1>1
  <2> HIDE DEF node
  <2> QED BY <2>1
<1> HIDE DEF rows, row, at, L
<1>15. \A m \in rows : lit[m].at # at
  BY <1>9, <1>14
<1>16. \A m \in row : lit[m].at # at
  BY <1>1, <1>10 DEF L
<1>17. \A l \in rows, m \in row : lit[l].at # lit[m].at
  BY <1>9, <1>10, <1>14
<1>18. \A l, m \in node.first .. n : lit[l].at = lit[m].at => l = m
  BY <1>11, <1>12, <1>13, <1>14, <1>15, <1>16, <1>17, Zenon
<1>19. \A m \in node.first .. n : Continues(at, lit[m].at)
  BY <1>9, <1>10, <1>13, <1>14, Zenon
<1>23. \A m \in node.first .. n - 1 : lit[m].exprs > 0 => lit[m].at[Len(lit[m].at)] = 0
  BY <1>20, <1>21, <1>22, Zenon
<1> QED BY <1>18, <1>19, <1>23 DEF Below, at

LEMMA AllBelow ==
  ASSUME NEW lit \in Seq(Node), Parsed(lit)
  PROVE  \A n \in 1 .. Len(lit) : Below(lit, n)
<1> DEFINE T == {n \in Nat : \A m \in 1 .. n : m <= Len(lit) => Below(lit, m)}
<1>1. 0 \in T
  OBVIOUS
<1>2. ASSUME NEW n \in Nat, n \in T PROVE n + 1 \in T
  <2> SUFFICES ASSUME NEW m \in 1 .. n + 1, m <= Len(lit) PROVE Below(lit, m)
    OBVIOUS
  <2>1. m \in 1 .. Len(lit)
    OBVIOUS
  <2>2. \A i \in 1 .. m - 1 : Below(lit, i)
    BY <1>2
  <2> QED BY <2>1, <2>2, BelowStep
<1> HIDE DEF T
<1>3. \A n \in Nat : n \in T
  BY <1>1, <1>2, AllNumbers
<1>4. Len(lit) \in T /\ Len(lit) \in Nat
  BY <1>3
<1> QED BY <1>4 DEF T

LEMMA RowsDiffer ==
  ASSUME NEW lit \in Seq(Node), Parsed(lit)
  PROVE  /\ \A l, m \in 1 .. Len(lit) : lit[l].at = lit[m].at => l = m
         /\ \A m \in 1 .. Len(lit) : lit[m].exprs > 0 => lit[m].at[Len(lit[m].at)] = 0
<1>1. Len(lit) \in Nat
  OBVIOUS
<1>2. lit # <<>> => lit[Len(lit)].first = 1 /\ lit[Len(lit)].at = << 0 >>
  BY DEF Parsed
<1>3. ASSUME NEW m \in 1 .. Len(lit)
      PROVE  lit # <<>> /\ Len(lit) \in 1 .. Len(lit) /\ (m \in 1 .. Len(lit) - 1 \/ m = Len(lit))
  BY <1>1
<1>4. Len(<< 0 >>) = 1 /\ << 0 >>[1] = 0
  OBVIOUS
<1>5. ASSUME NEW m \in 1 .. Len(lit), lit[m].exprs > 0 PROVE lit[m].at[Len(lit[m].at)] = 0
  <2>1. CASE m = Len(lit)
    <3>1. lit[m].at = << 0 >>
      BY <1>2, <1>3, <2>1
    <3> QED BY ONLY <1>4, <3>1
  <2>2. CASE m # Len(lit)
    <3>1. Below(lit, Len(lit)) /\ m \in lit[Len(lit)].first .. Len(lit) - 1
      BY <1>2, <1>3, <2>2, AllBelow
    <3> QED BY <1>5, <3>1 DEF Below
  <2> QED BY <2>1, <2>2
<1>6. ASSUME NEW l \in 1 .. Len(lit), NEW m \in 1 .. Len(lit), lit[l].at = lit[m].at PROVE l = m
  <2>1. Below(lit, Len(lit)) /\ lit[Len(lit)].first = 1
    BY <1>2, <1>3, AllBelow
  <2> QED BY <1>6, <2>1 DEF Below
<1> QED BY <1>5, <1>6

LEMMA ElementsDiffer ==
  ASSUME NEW lit \in Seq(Node), Parsed(lit),
         NEW l \in 1 .. Len(lit), NEW m \in 1 .. Len(lit),
         NEW i \in 1 .. lit[l].exprs, NEW j \in 1 .. lit[m].exprs,
         Indices(lit[l], i) = Indices(lit[m], j)
  PROVE  l = m /\ i = j
<1>1. /\ lit[l].at \in Seq(Nat) /\ Len(lit[l].at) \in Nat \ {0} /\ lit[l].exprs \in Nat
      /\ lit[m].at \in Seq(Nat) /\ Len(lit[m].at) \in Nat \ {0} /\ lit[m].exprs \in Nat
  <2>1. NodeShape(lit, l) /\ NodeShape(lit, m)
    BY NodeFacts
  <2> QED BY <2>1 DEF NodeShape
<1>2. lit[l].at[Len(lit[l].at)] = 0 /\ lit[m].at[Len(lit[m].at)] = 0
  <2> DEFINE x == lit[l].exprs
             y == lit[m].exprs
  <2>1. x \in Nat /\ y \in Nat /\ i \in 1 .. x /\ j \in 1 .. y
    BY <1>1
  <2> HIDE DEF x, y
  <2>2. x > 0 /\ y > 0
    BY ONLY <2>1
  <2> QED BY <2>2, RowsDiffer DEF x, y
<1> DEFINE a == lit[l].at
           b == lit[m].at
           p == [a EXCEPT ![Len(a)] = i - 1]
           q == [b EXCEPT ![Len(b)] = j - 1]
<1>3. p = q
  BY DEF Indices
<1>4. i \in Nat /\ j \in Nat
  OBVIOUS
<1>5. a \in Seq(Nat) /\ b \in Seq(Nat) /\ Len(a) \in Nat \ {0} /\ Len(b) \in Nat \ {0}
      /\ a[Len(a)] = 0 /\ b[Len(b)] = 0
  BY <1>1, <1>2
<1> HIDE DEF a, b
<1>6. /\ DOMAIN p = 1 .. Len(a) /\ p[Len(a)] = i - 1 /\ \A x \in 1 .. Len(a) : x # Len(a) => p[x] = a[x]
      /\ DOMAIN q = 1 .. Len(b) /\ q[Len(b)] = j - 1 /\ \A x \in 1 .. Len(b) : x # Len(b) => q[x] = b[x]
  <2>1. /\ DOMAIN a = 1 .. Len(a) /\ Len(a) \in 1 .. Len(a)
        /\ DOMAIN b = 1 .. Len(b) /\ Len(b) \in 1 .. Len(b)
    BY <1>5
  <2> QED BY ONLY <2>1
<1> HIDE DEF p, q
<1>7. Len(a) = Len(b)
  BY <1>3, <1>5, <1>6
<1>8. i = j
  BY <1>3, <1>4, <1>6, <1>7
<1>9. \A x \in 1 .. Len(a) : a[x] = b[x]
  BY <1>3, <1>5, <1>6, <1>7
<1>10. a = b
  BY <1>5, <1>7, <1>9, SeqEqual
<1>11. l = m
  BY <1>10, RowsDiffer DEF a, b
<1> QED BY <1>8, <1>11

-----------------------------------------------------------------------------
(***************************************************************************)
(* Lists, and what comes before what in them.                              *)
(***************************************************************************)
IsList(s) == \E S : s \in Seq(S)

LEMMA ListFacts ==
  ASSUME NEW s, IsList(s)
  PROVE  /\ Len(s) \in Nat /\ DOMAIN s = 1 .. Len(s) /\ s \in Seq(ToSet(s))
         /\ \A x : x \in ToSet(s) <=> \E i \in 1 .. Len(s) : s[i] = x
         /\ Len(s) = 0 <=> s = <<>>
<1>1. PICK S : s \in Seq(S)
  BY DEF IsList
<1>2. Len(s) \in Nat /\ DOMAIN s = 1 .. Len(s) /\ s = [i \in 1 .. Len(s) |-> s[i]]
  BY <1>1
<1>3. \A x : x \in ToSet(s) <=> \E i \in 1 .. Len(s) : s[i] = x
  BY <1>2 DEF ToSet
<1>4. s \in Seq(ToSet(s))
  BY <1>2, <1>3, IsASeq
<1>5. Len(s) = 0 <=> s = <<>>
  BY <1>1, EmptySeq
<1> QED BY <1>2, <1>3, <1>4, <1>5

LEMMA ListMembers ==
  ASSUME NEW s, IsList(s), NEW n, Len(s) = n
  PROVE  \A x : x \in ToSet(s) <=> \E i \in 1 .. n : s[i] = x
<1>1. \A x : x \in ToSet(s) <=> \E i \in 1 .. Len(s) : s[i] = x
  BY ListFacts
<1> QED BY ONLY <1>1, Len(s) = n

LEMMA ListMade ==
  ASSUME NEW n \in Nat, NEW f, f = [i \in 1 .. n |-> f[i]]
  PROVE  IsList(f) /\ Len(f) = n /\ \A x : x \in ToSet(f) <=> \E i \in 1 .. n : f[i] = x
<1> DEFINE S == {f[i] : i \in 1 .. n}
<1>1. f \in [1 .. n -> S]
  <2>1. \A i \in 1 .. n : f[i] \in S
    OBVIOUS
  <2> HIDE DEF S
  <2> QED BY <2>1
<1>2. f \in Seq(S) /\ Len(f) = n
  BY <1>1
<1>3. DOMAIN f = 1 .. n
  BY <1>1
<1> QED BY <1>2, <1>3 DEF IsList, ToSet

LEMMA ListConcat ==
  ASSUME NEW a, IsList(a), NEW b, IsList(b)
  PROVE  /\ IsList(a \o b) /\ ToSet(a \o b) = ToSet(a) \cup ToSet(b)
         /\ Len(a \o b) = Len(a) + Len(b) /\ Len(a) \in Nat /\ Len(b) \in Nat
         /\ \A i \in 1 .. Len(a) + Len(b) : (a \o b)[i] = IF i <= Len(a) THEN a[i] ELSE b[i - Len(a)]
<1> DEFINE S == ToSet(a) \cup ToSet(b)
           c == a \o b
<1>1. a \in Seq(S) /\ b \in Seq(S) /\ Len(a) \in Nat /\ Len(b) \in Nat
  <2>1. a \in Seq(ToSet(a)) /\ b \in Seq(ToSet(b)) /\ Len(a) \in Nat /\ Len(b) \in Nat
    BY ListFacts
  <2>2. Seq(ToSet(a)) \subseteq Seq(S) /\ Seq(ToSet(b)) \subseteq Seq(S)
    BY SeqMonotonic
  <2> QED BY <2>1, <2>2
<1>2. /\ c \in Seq(S) /\ Len(c) = Len(a) + Len(b)
      /\ \A i \in 1 .. Len(a) + Len(b) : c[i] = IF i <= Len(a) THEN a[i] ELSE b[i - Len(a)]
  BY <1>1, ConcatProperties
<1> HIDE DEF c
<1>3. IsList(c)
  BY <1>2 DEF IsList
<1>4. \A x : x \in ToSet(c) <=> \E i \in 1 .. Len(a) + Len(b) : c[i] = x
  BY <1>2, <1>3, ListMembers
<1>5. ASSUME NEW x PROVE x \in ToSet(c) <=> x \in ToSet(a) \/ x \in ToSet(b)
  <2>1. ASSUME x \in ToSet(c) PROVE x \in ToSet(a) \/ x \in ToSet(b)
    <3>1. PICK i \in 1 .. Len(a) + Len(b) : c[i] = x
      BY <1>4, <2>1
    <3>2. CASE i <= Len(a)
      <4>1. i \in 1 .. Len(a) /\ a[i] = x
        BY <1>1, <1>2, <3>1, <3>2
      <4> QED BY <4>1, ListFacts
    <3>3. CASE ~ (i <= Len(a))
      <4>1. i - Len(a) \in 1 .. Len(b) /\ b[i - Len(a)] = x
        BY <1>1, <1>2, <3>1, <3>3
      <4> QED BY <4>1, ListFacts
    <3> QED BY <3>2, <3>3
  <2>2. ASSUME x \in ToSet(a) PROVE x \in ToSet(c)
    <3>1. PICK i \in 1 .. Len(a) : a[i] = x
      BY <2>2, ListFacts
    <3>2. i \in 1 .. Len(a) + Len(b) /\ i <= Len(a)
      BY <1>1
    <3> QED BY <1>2, <1>4, <3>1, <3>2
  <2>3. ASSUME x \in ToSet(b) PROVE x \in ToSet(c)
    <3>1. PICK i \in 1 .. Len(b) : b[i] = x
      BY <2>3, ListFacts
    <3>2. i + Len(a) \in 1 .. Len(a) + Len(b) /\ ~ (i + Len(a) <= Len(a)) /\ (i + Len(a)) - Len(a) = i
      BY <1>1
    <3> QED BY <1>2, <1>4, <3>1, <3>2
  <2> QED BY <2>1, <2>2, <2>3
<1> QED BY <1>1, <1>2, <1>3, <1>5 DEF c

LEMMA ListTail ==
  ASSUME NEW s, IsList(s), s # <<>>
  PROVE  /\ IsList(Tail(s)) /\ Head(s) = s[1] /\ Head(s) \in ToSet(s)
         /\ Len(s) \in Nat \ {0} /\ Len(Tail(s)) = Len(s) - 1
         /\ \A i \in 1 .. Len(s) - 1 : Tail(s)[i] = s[i + 1]
         /\ ToSet(s) = {Head(s)} \cup ToSet(Tail(s))
<1>1. s \in Seq(ToSet(s)) /\ Len(s) \in Nat \ {0}
      /\ \A x : x \in ToSet(s) <=> \E i \in 1 .. Len(s) : s[i] = x
  BY ListFacts
<1>2. /\ Head(s) = s[1] /\ Tail(s) \in Seq(ToSet(s)) /\ Len(Tail(s)) = Len(s) - 1
      /\ \A i \in 1 .. Len(s) - 1 : Tail(s)[i] = s[i + 1]
  BY <1>1, HeadTailProperties
<1>3. IsList(Tail(s))
  BY <1>2 DEF IsList
<1>4. \A x : x \in ToSet(Tail(s)) <=> \E i \in 1 .. Len(s) - 1 : Tail(s)[i] = x
  <2> DEFINE t == Tail(s)
             n == Len(s) - 1
  <2>1. IsList(t) /\ Len(t) = n
    BY <1>2, <1>3
  <2> HIDE DEF t, n
  <2>2. \A x : x \in ToSet(t) <=> \E i \in 1 .. n : t[i] = x
    BY <2>1, ListMembers
  <2> QED BY <2>2 DEF t, n
<1>5. \A i \in 1 .. Len(s) : i = 1 \/ (i - 1 \in 1 .. Len(s) - 1 /\ (i - 1) + 1 = i)
  BY <1>1
<1>6. \A i \in 1 .. Len(s) - 1 : i + 1 \in 1 .. Len(s)
  BY <1>1
<1>7. 1 \in 1 .. Len(s)
  BY <1>1
<1>8. \A x : x \in ToSet(s) <=> x = Head(s) \/ x \in ToSet(Tail(s))
  <2>1. ASSUME NEW x, x \in ToSet(s) PROVE x = Head(s) \/ x \in ToSet(Tail(s))
    <3>1. PICK i \in 1 .. Len(s) : s[i] = x
      BY <1>1, <2>1
    <3> QED BY <1>2, <1>4, <1>5, <3>1
  <2>2. ASSUME NEW x, x \in ToSet(Tail(s)) PROVE x \in ToSet(s)
    BY <1>1, <1>2, <1>4, <1>6, <2>2
  <2>3. Head(s) \in ToSet(s)
    BY <1>1, <1>2, <1>7
  <2> QED BY <2>1, <2>2, <2>3
<1> QED BY <1>1, <1>2, <1>3, <1>8

LEMMA ListAppend ==
  ASSUME NEW s, IsList(s), NEW x
  PROVE  /\ IsList(Append(s, x)) /\ ToSet(Append(s, x)) = ToSet(s) \cup {x}
         /\ Len(s) \in Nat /\ Len(Append(s, x)) = Len(s) + 1
         /\ \A i \in 1 .. Len(s) : Append(s, x)[i] = s[i]
         /\ Append(s, x)[Len(s) + 1] = x
<1> DEFINE S == ToSet(s) \cup {x}
           t == Append(s, x)
<1>1. s \in Seq(S) /\ Len(s) \in Nat /\ x \in S
  <2>1. s \in Seq(ToSet(s)) /\ Len(s) \in Nat
    BY ListFacts
  <2> QED BY <2>1, SeqMonotonic
<1>2. /\ t \in Seq(S) /\ Len(t) = Len(s) + 1 /\ t[Len(s) + 1] = x
      /\ \A i \in 1 .. Len(s) : t[i] = s[i]
  BY <1>1, AppendProperties
<1> HIDE DEF t
<1>3. IsList(t)
  BY <1>2 DEF IsList
<1>4. \A y : y \in ToSet(t) <=> \E i \in 1 .. Len(s) + 1 : t[i] = y
  BY <1>2, <1>3, ListFacts
<1>5. \A y : y \in ToSet(s) <=> \E i \in 1 .. Len(s) : s[i] = y
  BY ListFacts
<1>6. \A i \in 1 .. Len(s) + 1 : i \in 1 .. Len(s) \/ i = Len(s) + 1
  BY <1>1
<1>7. Len(s) + 1 \in 1 .. Len(s) + 1 /\ \A i \in 1 .. Len(s) : i \in 1 .. Len(s) + 1
  BY <1>1
<1>8. \A y : y \in ToSet(t) <=> y \in ToSet(s) \/ y = x
  <2>1. ASSUME NEW y, y \in ToSet(t) PROVE y \in ToSet(s) \/ y = x
    <3>1. PICK i \in 1 .. Len(s) + 1 : t[i] = y
      BY <1>4, <2>1
    <3> QED BY <1>2, <1>5, <1>6, <3>1
  <2>2. ASSUME NEW y, y \in ToSet(s) \/ y = x PROVE y \in ToSet(t)
    BY <1>2, <1>4, <1>5, <1>7, <2>2
  <2> QED BY <2>1, <2>2
<1> QED BY <1>1, <1>2, <1>3, <1>8 DEF t

LEMMA ListOf ==
  /\ IsList(<<>>) /\ Len(<<>>) = 0 /\ ToSet(<<>>) = {}
  /\ \A x : IsList(<<x>>) /\ Len(<<x>>) = 1 /\ <<x>>[1] = x /\ ToSet(<<x>>) = {x}
  /\ \A x, y, z : /\ IsList(<<x, y, z>>) /\ Len(<<x, y, z>>) = 3 /\ ToSet(<<x, y, z>>) = {x, y, z}
                  /\ <<x, y, z>>[1] = x /\ <<x, y, z>>[2] = y /\ <<x, y, z>>[3] = z
<1>1. <<>> \in Seq({}) /\ Len(<<>>) = 0
  OBVIOUS
<1>2. IsList(<<>>)
  BY <1>1 DEF IsList
<1>3. ToSet(<<>>) = {}
  BY <1>1, <1>2, ListFacts
<1>4. ASSUME NEW x PROVE IsList(<<x>>) /\ Len(<<x>>) = 1 /\ <<x>>[1] = x /\ ToSet(<<x>>) = {x}
  <2>1. << x >> \in Seq({x}) /\ Len(<< x >>) = 1 /\ << x >>[1] = x
    OBVIOUS
  <2>2. IsList(<< x >>)
    BY <2>1 DEF IsList
  <2>3. \A y : y \in ToSet(<< x >>) <=> \E i \in 1 .. 1 : << x >>[i] = y
    <3> DEFINE t == << x >>
    <3>1. IsList(t) /\ Len(t) = 1
      BY <2>1, <2>2
    <3> HIDE DEF t
    <3>2. \A y : y \in ToSet(t) <=> \E i \in 1 .. 1 : t[i] = y
      BY <3>1, ListMembers
    <3> QED BY <3>2 DEF t
  <2>4. \A y : y \in ToSet(<< x >>) <=> y = x
    BY <2>1, <2>3
  <2> QED BY <2>1, <2>2, <2>4
<1>5. ASSUME NEW x, NEW y, NEW z
      PROVE  /\ IsList(<<x, y, z>>) /\ Len(<<x, y, z>>) = 3 /\ ToSet(<<x, y, z>>) = {x, y, z}
             /\ <<x, y, z>>[1] = x /\ <<x, y, z>>[2] = y /\ <<x, y, z>>[3] = z
  <2>1. /\ << x, y, z >> \in Seq({x, y, z}) /\ Len(<< x, y, z >>) = 3
        /\ << x, y, z >>[1] = x /\ << x, y, z >>[2] = y /\ << x, y, z >>[3] = z
    OBVIOUS
  <2>2. IsList(<< x, y, z >>)
    BY <2>1 DEF IsList
  <2>3. \A v : v \in ToSet(<< x, y, z >>) <=> \E i \in 1 .. 3 : << x, y, z >>[i] = v
    <3> DEFINE t == << x, y, z >>
    <3>1. IsList(t) /\ Len(t) = 3
      BY <2>1, <2>2
    <3> HIDE DEF t
    <3>2. \A v : v \in ToSet(t) <=> \E i \in 1 .. Len(t) : t[i] = v
      BY <3>1, ListFacts, Zenon
    <3>3. \A v : v \in ToSet(t) <=> \E i \in 1 .. 3 : t[i] = v
      BY ONLY <3>1, <3>2, Zenon
    <3> QED BY <3>3 DEF t
  <2>4. \A i \in 1 .. 3 : i = 1 \/ i = 2 \/ i = 3
    OBVIOUS
  <2>5. 1 \in 1 .. 3 /\ 2 \in 1 .. 3 /\ 3 \in 1 .. 3
    OBVIOUS
  <2>6. \A v : v \in ToSet(<< x, y, z >>) <=> v = x \/ v = y \/ v = z
    BY <2>1, <2>3, <2>4, <2>5
  <2> QED BY <2>1, <2>2, <2>6
<1> QED BY <1>1, <1>2, <1>3, <1>4, <1>5


-----------------------------------------------------------------------------
(***************************************************************************)
(* Statements and the places of their expressions in the text.  An alloc   *)
(* and a fill get places next to the expressions that they stand by.       *)
(***************************************************************************)
Triple == Nat \X Nat \X Nat

Early(sc, e)    == sc = "global" /\ e[2] = 0
Prior(sc, e, f) == IF Early(sc, e) THEN Early(sc, f) => e # f ELSE ~ Early(sc, f) /\ InText(e, f)

HasSingle(d, k) == d[k].init.lit # <<>> /\ d[k].init.splat

Key(d, s) ==
  CASE s.do \in {"eval", "store"} -> s.what
    [] s.do = "alloc" -> <<s.dec, 1, IF HasSingle(d, s.dec) THEN 2 ELSE 0>>
    [] OTHER          -> <<s.dec, 1, 3>>

Ordered(d, sc, s) == \A i, j \in 1 .. Len(s) : i < j => Prior(sc, Key(d, s[i]), Key(d, s[j]))

LEMMA BeforeIsPrior == \A e, f : Before(e, f) <=> Prior(scope, e, f)
BY DEF Before, Ahead, Prior, Early

LEMMA NeverPrior == ASSUME NEW sc, NEW e \in Triple PROVE ~ Prior(sc, e, e)
<1>1. e[1] \in Nat /\ e[2] \in Nat /\ e[3] \in Nat
  BY DEF Triple
<1>2. ~ InText(e, e)
  BY <1>1 DEF InText
<1> QED BY <1>2 DEF Prior

LEMMA OrderedConcat ==
  ASSUME NEW d, NEW sc, NEW a, IsList(a), NEW b, IsList(b), Ordered(d, sc, a), Ordered(d, sc, b),
         \A x \in ToSet(a), y \in ToSet(b) : Prior(sc, Key(d, x), Key(d, y))
  PROVE  Ordered(d, sc, a \o b)
<1> DEFINE c == a \o b
<1>1. /\ Len(c) = Len(a) + Len(b) /\ Len(a) \in Nat /\ Len(b) \in Nat
      /\ \A i \in 1 .. Len(a) + Len(b) : c[i] = IF i <= Len(a) THEN a[i] ELSE b[i - Len(a)]
  BY ListConcat
<1> HIDE DEF c
<1>2. \A i \in 1 .. Len(c) : \/ i \in 1 .. Len(a) /\ c[i] = a[i]
                             \/ i > Len(a) /\ i - Len(a) \in 1 .. Len(b) /\ c[i] = b[i - Len(a)]
  BY <1>1
<1>3. SUFFICES ASSUME NEW i \in 1 .. Len(c), NEW j \in 1 .. Len(c), i < j
               PROVE  Prior(sc, Key(d, c[i]), Key(d, c[j]))
  BY DEF Ordered, c
<1>4. i \in Int /\ j \in Int
  BY <1>1
<1>5. CASE j \in 1 .. Len(a) /\ c[j] = a[j]
  <2>1. i \in 1 .. Len(a) /\ c[i] = a[i]
    BY <1>1, <1>2, <1>3, <1>4, <1>5
  <2> QED BY <1>3, <1>5, <2>1 DEF Ordered
<1>6. CASE j > Len(a) /\ j - Len(a) \in 1 .. Len(b) /\ c[j] = b[j - Len(a)]
  <2>1. CASE i \in 1 .. Len(a) /\ c[i] = a[i]
    <3>1. a[i] \in ToSet(a) /\ b[j - Len(a)] \in ToSet(b)
      BY <1>6, <2>1, ListFacts
    <3> QED BY <1>6, <2>1, <3>1
  <2>2. CASE i > Len(a) /\ i - Len(a) \in 1 .. Len(b) /\ c[i] = b[i - Len(a)]
    <3>1. i - Len(a) < j - Len(a)
      BY <1>1, <1>3, <1>4
    <3> QED BY <1>6, <2>2, <3>1 DEF Ordered
  <2> QED BY <1>2, <2>1, <2>2
<1> QED BY <1>2, <1>5, <1>6

LEMMA OrderedTail ==
  ASSUME NEW d, NEW sc, NEW s, IsList(s), s # <<>>, Ordered(d, sc, s)
  PROVE  /\ Ordered(d, sc, Tail(s))
         /\ \A y \in ToSet(Tail(s)) : Prior(sc, Key(d, Head(s)), Key(d, y))
<1> DEFINE t == Tail(s)
<1>1. /\ IsList(t) /\ Head(s) = s[1] /\ Len(s) \in Nat \ {0} /\ Len(t) = Len(s) - 1
      /\ \A i \in 1 .. Len(s) - 1 : t[i] = s[i + 1]
  BY ListTail
<1> HIDE DEF t
<1>2. \A i \in 1 .. Len(t) : t[i] = s[i + 1] /\ i + 1 \in 1 .. Len(s) /\ 1 < i + 1 /\ i \in Int
  BY <1>1
<1>3. ASSUME NEW i \in 1 .. Len(t), NEW j \in 1 .. Len(t), i < j
      PROVE  Prior(sc, Key(d, t[i]), Key(d, t[j]))
  <2>1. i + 1 < j + 1
    BY <1>2, <1>3
  <2> QED BY <1>2, <2>1 DEF Ordered
<1>4. ASSUME NEW y \in ToSet(t) PROVE Prior(sc, Key(d, Head(s)), Key(d, y))
  <2>1. PICK i \in 1 .. Len(t) : t[i] = y
    BY <1>1, ListFacts
  <2>2. 1 \in 1 .. Len(s)
    BY <1>1
  <2> QED BY <1>1, <1>2, <2>1, <2>2 DEF Ordered
<1> QED BY <1>3, <1>4 DEF Ordered, t

LEMMA NoneOrdered ==
  ASSUME NEW d, NEW sc
  PROVE  Ordered(d, sc, <<>>) /\ \A x : Ordered(d, sc, <<x>>)
<1>1. Ordered(d, sc, <<>>)
  BY DEF Ordered
<1>2. ASSUME NEW x PROVE Ordered(d, sc, <<x>>)
  <2>1. Len(<< x >>) = 1
    OBVIOUS
  <2>2. \A i, j \in 1 .. 1 : ~ (i < j)
    OBVIOUS
  <2> QED BY <2>1, <2>2 DEF Ordered
<1> QED BY <1>1, <1>2

-----------------------------------------------------------------------------
(***************************************************************************)
(* What is to be generated for a declaration.                              *)
(***************************************************************************)
ElementsIn(d, k) ==
  UNION {{Element(k, n, j) : j \in 1 .. d[k].init.lit[n].exprs} : n \in DOMAIN d[k].init.lit}

StoreOf(d, e) == Store(e[1], Indices(d[e[1]].init.lit[e[2]], e[3]), e)

StoresAfter(d, k, m) ==
  IF d[k].init.splat THEN {} ELSE {StoreOf(d, e) : e \in {x \in ElementsIn(d, k) : x[2] > m}}

DimsPlan(d, k)  == {Eval(Dimension(k, i)) : i \in 1 .. Len(d[k].dims)}

SinglePlan(d, k) ==
  IF HasSingle(d, k)
  THEN {Eval(Element(k, 1, 1))} \cup (IF d[k].dims # <<>> THEN {Fill(k, Element(k, 1, 1))} ELSE {})
  ELSE {}

ArrayPlan(d, k) == (IF d[k].dims # <<>> THEN {Alloc(k)} ELSE {}) \cup SinglePlan(d, k)

HeadPlan(d, sc, k) == (IF sc = "local" THEN DimsPlan(d, k) ELSE {}) \cup ArrayPlan(d, k)

Plan(d, sc, k) == HeadPlan(d, sc, k) \cup StoresAfter(d, k, 0)

LEMMA DecFacts ==
  ASSUME NEW d \in Programs, NEW k \in DOMAIN d
  PROVE  /\ DOMAIN d = 1 .. Len(d) /\ Len(d) \in Nat /\ k \in Nat /\ k > 0
         /\ d[k].dims \in Seq(Nat) /\ Len(d[k].dims) \in Nat
         /\ d[k].init.splat \in BOOLEAN
         /\ d[k].init.lit \in Seq(Node) /\ Len(d[k].init.lit) \in Nat
         /\ DOMAIN d[k].init.lit = 1 .. Len(d[k].init.lit)
         /\ d[k].init.splat /\ d[k].init.lit # <<>> =>
              Len(d[k].init.lit) = 1 /\ d[k].init.lit[1].exprs = 1
         /\ ~ d[k].init.splat => /\ d[k].dims # <<>> /\ Parsed(d[k].init.lit) /\ Fits(d[k])
         /\ \A n \in DOMAIN d[k].init.lit : d[k].init.lit[n].exprs \in Nat
<1>1. d \in Seq(Declaration)
  BY ProgramsAssumption
<1>2. DOMAIN d = 1 .. Len(d) /\ Len(d) \in Nat /\ k \in Nat /\ k > 0
  BY <1>1
<1>3. d[k] \in Declaration
  BY <1>1
<1>4. /\ d[k].dims \in Seq(Nat) /\ d[k].init.splat \in BOOLEAN /\ d[k].init.lit \in Seq(Node)
  BY <1>3 DEF Declaration
<1>5. IF d[k].init.splat THEN d[k].init \in {Single, NoInit}
      ELSE d[k].dims # <<>> /\ Parsed(d[k].init.lit) /\ Fits(d[k])
  BY ProgramsAssumption
<1>6. d[k].init.splat /\ d[k].init.lit # <<>> =>
        Len(d[k].init.lit) = 1 /\ d[k].init.lit[1].exprs = 1
  <2> SUFFICES ASSUME d[k].init.splat, d[k].init.lit # <<>>
               PROVE  Len(d[k].init.lit) = 1 /\ d[k].init.lit[1].exprs = 1
    OBVIOUS
  <2>1. NoInit.lit = <<>>
    BY DEF NoInit
  <2>2. d[k].init = Single
    BY <1>5, <2>1
  <2>3. Len(Single.lit) = 1 /\ Single.lit[1].exprs = 1
    BY DEF Single
  <2> QED BY <2>2, <2>3
<1> DEFINE lit == d[k].init.lit
<1>7. \A n \in DOMAIN lit : lit[n].exprs \in Nat
  <2>1. \A n \in DOMAIN lit : lit[n] \in Node
    BY <1>4
  <2> HIDE DEF lit
  <2> QED BY <2>1 DEF Node
<1>8. Len(lit) \in Nat /\ DOMAIN lit = 1 .. Len(lit)
  BY <1>4
<1>9. Len(d[k].dims) \in Nat
  BY <1>4
<1> QED BY <1>2, <1>4, <1>5, <1>6, <1>7, <1>8, <1>9

LEMMA ElementFacts ==
  ASSUME NEW d \in Programs, NEW k \in DOMAIN d, NEW e \in ElementsIn(d, k)
  PROVE  /\ e \in Triple /\ e[1] = k /\ e[2] \in DOMAIN d[k].init.lit /\ e[2] \in Nat /\ e[2] > 0
         /\ e[3] \in 1 .. d[k].init.lit[e[2]].exprs /\ e[3] \in Nat /\ e[3] > 0
         /\ e = <<e[1], e[2], e[3]>>
<1>1. PICK n \in DOMAIN d[k].init.lit : e \in {Element(k, n, j) : j \in 1 .. d[k].init.lit[n].exprs}
  BY DEF ElementsIn
<1>2. PICK j \in 1 .. d[k].init.lit[n].exprs : e = << k, n, j >>
  BY <1>1 DEF Element
<1>3. k \in Nat /\ n \in Nat /\ n > 0 /\ j \in Nat /\ j > 0
  BY DecFacts
<1>4. e[1] = k /\ e[2] = n /\ e[3] = j
  BY <1>2
<1>5. e \in Triple
  BY <1>2, <1>3 DEF Triple
<1> QED BY <1>2, <1>3, <1>4, <1>5

LEMMA IsElement ==
  ASSUME NEW d, NEW k, NEW n \in DOMAIN d[k].init.lit, NEW j \in 1 .. d[k].init.lit[n].exprs
  PROVE  Element(k, n, j) \in ElementsIn(d, k)
BY DEF ElementsIn

LEMMA SingleElement ==
  ASSUME NEW d \in Programs, NEW k \in DOMAIN d, HasSingle(d, k)
  PROVE  ElementsIn(d, k) = {Element(k, 1, 1)}
<1>1. DOMAIN d[k].init.lit = 1 .. 1 /\ d[k].init.lit[1].exprs = 1
  BY DecFacts DEF HasSingle
<1>2. 1 \in DOMAIN d[k].init.lit /\ 1 \in 1 .. d[k].init.lit[1].exprs
  BY <1>1
<1>3. Element(k, 1, 1) \in ElementsIn(d, k)
  BY <1>2, IsElement
<1>4. ASSUME NEW e \in ElementsIn(d, k) PROVE e = Element(k, 1, 1)
  <2>1. e[1] = k /\ e[2] \in 1 .. 1 /\ e[3] \in 1 .. d[k].init.lit[e[2]].exprs /\ e = << e[1], e[2], e[3] >>
    BY <1>1, ElementFacts
  <2>2. e[2] = 1
    BY <2>1
  <2>3. e[3] = 1
    BY <1>1, <2>1, <2>2
  <2> QED BY <2>1, <2>2, <2>3 DEF Element
<1> QED BY <1>3, <1>4

LEMMA Statements ==
  ASSUME NEW d, NEW e, NEW k, NEW at
  PROVE  /\ Eval(e).do = "eval" /\ Eval(e).what = e /\ Key(d, Eval(e)) = e
         /\ Store(k, at, e).do = "store" /\ Store(k, at, e).dec = k /\ Store(k, at, e).at = at
         /\ Store(k, at, e).what = e /\ Key(d, Store(k, at, e)) = e
         /\ Alloc(k).do = "alloc" /\ Alloc(k).dec = k
         /\ Key(d, Alloc(k)) = <<k, 1, IF HasSingle(d, k) THEN 2 ELSE 0>>
         /\ Fill(k, e).do = "fill" /\ Fill(k, e).dec = k /\ Fill(k, e).what = e
         /\ Key(d, Fill(k, e)) = <<k, 1, 3>>
BY DEF Eval, Store, Alloc, Fill, Key

(* The statements of a declaration, one kind after the other.              *)
LEMMA PlanCases ==
  ASSUME NEW d \in Programs, NEW sc, NEW k \in DOMAIN d, NEW s \in Plan(d, sc, k)
  PROVE  \/ sc = "local" /\ \E i \in 1 .. Len(d[k].dims) : s = Eval(Dimension(k, i))
         \/ d[k].dims # <<>> /\ s = Alloc(k)
         \/ HasSingle(d, k) /\ s = Eval(Element(k, 1, 1))
         \/ HasSingle(d, k) /\ d[k].dims # <<>> /\ s = Fill(k, Element(k, 1, 1))
         \/ ~ d[k].init.splat /\ \E e \in ElementsIn(d, k) : s = StoreOf(d, e)
BY DEF Plan, HeadPlan, DimsPlan, ArrayPlan, SinglePlan, StoresAfter

LEMMA DimKeys ==
  ASSUME NEW d \in Programs, NEW k \in DOMAIN d, NEW i \in 1 .. Len(d[k].dims)
  PROVE  i \in Nat /\ Key(d, Eval(Dimension(k, i))) = <<k, 0, i>>
<1>1. Len(d[k].dims) \in Nat
  BY DecFacts
<1>2. Key(d, Eval(Dimension(k, i))) = Dimension(k, i)
  BY Statements
<1> QED BY <1>1, <1>2 DEF Dimension

LEMMA KeyFacts ==
  ASSUME NEW d \in Programs, NEW sc, NEW k \in DOMAIN d, NEW s \in Plan(d, sc, k)
  PROVE  Key(d, s) \in Triple /\ Key(d, s)[1] = k /\ ~ Early(sc, Key(d, s))
<1>1. k \in Nat
  BY DecFacts
<1>2. ASSUME sc = "local", NEW i \in 1 .. Len(d[k].dims), s = Eval(Dimension(k, i))
      PROVE  Key(d, s) \in Triple /\ Key(d, s)[1] = k /\ ~ Early(sc, Key(d, s))
  <2>1. Key(d, s) = << k, 0, i >> /\ i \in Nat
    BY <1>2, DimKeys
  <2> QED BY <1>1, <1>2, <2>1 DEF Triple, Early
<1>3. ASSUME NEW i \in Nat, Key(d, s) = << k, 1, i >>
      PROVE  Key(d, s) \in Triple /\ Key(d, s)[1] = k /\ ~ Early(sc, Key(d, s))
  BY <1>1, <1>3 DEF Triple, Early
<1>4. ASSUME NEW e \in ElementsIn(d, k), s = StoreOf(d, e)
      PROVE  Key(d, s) \in Triple /\ Key(d, s)[1] = k /\ ~ Early(sc, Key(d, s))
  <2>1. Key(d, s) = e
    BY <1>4, Statements DEF StoreOf
  <2>2. e \in Triple /\ e[1] = k /\ e[2] # 0
    BY ElementFacts
  <2> QED BY <2>1, <2>2 DEF Early
<1>5. 0 \in Nat /\ 1 \in Nat /\ 2 \in Nat /\ 3 \in Nat
  OBVIOUS
<1>6. CASE s = Alloc(k)
  BY <1>3, <1>5, <1>6, Statements
<1>7. CASE s = Eval(Element(k, 1, 1))
  BY <1>3, <1>5, <1>7, Statements DEF Element
<1>8. CASE s = Fill(k, Element(k, 1, 1))
  BY <1>3, <1>5, <1>8, Statements
<1> QED BY <1>2, <1>4, <1>6, <1>7, <1>8, PlanCases

LEMMA PlansPrior ==
  ASSUME NEW d \in Programs, NEW sc, NEW k \in DOMAIN d, NEW l \in DOMAIN d, k < l,
         NEW x \in Plan(d, sc, k), NEW y \in Plan(d, sc, l)
  PROVE  Prior(sc, Key(d, x), Key(d, y))
BY KeyFacts DEF Prior, InText

(* Places within one declaration.                                          *)
LEMMA PriorWithin ==
  ASSUME NEW sc, NEW k, NEW a \in Nat, NEW b \in Nat, NEW i \in Nat, NEW j \in Nat,
         a < b \/ (a = b /\ i < j), sc = "local" \/ a # 0
  PROVE  Prior(sc, <<k, a, i>>, <<k, b, j>>)
<1>1. b # 0 \/ sc = "local"
  OBVIOUS
<1> DEFINE e == << k, a, i >>
           f == << k, b, j >>
<1>2. e[1] = k /\ e[2] = a /\ e[3] = i /\ f[1] = k /\ f[2] = b /\ f[3] = j
  OBVIOUS
<1> HIDE DEF e, f
<1>3. ~ Early(sc, e) /\ ~ Early(sc, f)
  BY <1>1, <1>2 DEF Early
<1>4. InText(e, f)
  BY <1>2 DEF InText
<1>5. Prior(sc, e, f)
  BY <1>3, <1>4 DEF Prior
<1> QED BY <1>5 DEF e, f

LEMMA PriorInLiteral ==
  ASSUME NEW sc, NEW k
  PROVE  /\ Prior(sc, <<k, 1, 0>>, <<k, 1, 1>>) /\ Prior(sc, <<k, 1, 1>>, <<k, 1, 2>>)
         /\ Prior(sc, <<k, 1, 1>>, <<k, 1, 3>>) /\ Prior(sc, <<k, 1, 2>>, <<k, 1, 3>>)
<1> DEFINE one == 1
<1>1. ASSUME NEW i \in Nat, NEW j \in Nat, i < j PROVE Prior(sc, << k, one, i >>, << k, one, j >>)
  <2>1. one \in Nat /\ one # 0
    OBVIOUS
  <2> HIDE DEF one
  <2> QED BY <1>1, <2>1, PriorWithin
<1>2. 0 \in Nat /\ 1 \in Nat /\ 2 \in Nat /\ 3 \in Nat /\ 0 < 1 /\ 1 < 2 /\ 1 < 3 /\ 2 < 3
  OBVIOUS
<1>3. /\ Prior(sc, << k, one, 0 >>, << k, one, 1 >>) /\ Prior(sc, << k, one, 1 >>, << k, one, 2 >>)
      /\ Prior(sc, << k, one, 1 >>, << k, one, 3 >>) /\ Prior(sc, << k, one, 2 >>, << k, one, 3 >>)
  <2> HIDE DEF one
  <2> QED BY <1>1, <1>2
<1> QED BY <1>3

LEMMA LocalDimsFacts ==
  ASSUME decs \in Programs, scope \in {"local", "global"}, NEW k \in DOMAIN decs
  PROVE  /\ IsList(LocalDims(k)) /\ Ordered(decs, scope, LocalDims(k))
         /\ ToSet(LocalDims(k)) = IF scope = "local" THEN DimsPlan(decs, k) ELSE {}
<1>1. CASE scope # "local"
  BY <1>1, ListOf, NoneOrdered DEF LocalDims
<1>2. CASE scope = "local"
  <2> DEFINE n == Len(decs[k].dims)
             f == [i \in 1 .. n |-> Eval(Dimension(k, i))]
  <2>1. LocalDims(k) = f
    BY <1>2 DEF LocalDims, Depth, Dims
  <2>2. n \in Nat
    BY DecFacts
  <2>3. \A i \in 1 .. n : f[i] = Eval(Dimension(k, i))
    OBVIOUS
  <2>4. f = [i \in 1 .. n |-> f[i]]
    OBVIOUS
  <2> HIDE DEF n, f
  <2>5. IsList(f) /\ Len(f) = n /\ \A x : x \in ToSet(f) <=> \E i \in 1 .. n : f[i] = x
    BY <2>2, <2>4, ListMade
  <2>6. ToSet(f) = DimsPlan(decs, k)
    <3>1. \A x : x \in DimsPlan(decs, k) <=> \E i \in 1 .. n : f[i] = x
      BY <2>3 DEF DimsPlan, n
    <3> QED BY <2>5, <3>1
  <2>7. Ordered(decs, scope, f)
    <3> SUFFICES ASSUME NEW i \in 1 .. n, NEW j \in 1 .. n, i < j
                 PROVE  Prior(scope, Key(decs, f[i]), Key(decs, f[j]))
      BY <2>5 DEF Ordered
    <3>1. /\ Key(decs, f[i]) = << k, 0, i >> /\ Key(decs, f[j]) = << k, 0, j >>
          /\ i \in Nat /\ j \in Nat
      BY <2>3, DimKeys DEF n
    <3>2. Prior(scope, << k, 0, i >>, << k, 0, j >>)
      BY <1>2, <3>1, PriorWithin
    <3> QED BY <3>1, <3>2
  <2> QED BY <1>2, <2>1, <2>5, <2>6, <2>7
<1> QED BY <1>1, <1>2

LEMMA GenArrayInitFacts ==
  ASSUME decs \in Programs, scope \in {"local", "global"}, NEW k \in DOMAIN decs, Dims(k) # <<>>
  PROVE  /\ IsList(genArrayInit(k)) /\ Ordered(decs, scope, genArrayInit(k))
         /\ ToSet(genArrayInit(k)) = ArrayPlan(decs, k)
<1>1. CASE HasSingle(decs, k)
  <2> DEFINE x == Eval(Element(k, 1, 1))
             y == Alloc(k)
             z == Fill(k, Element(k, 1, 1))
  <2>1. genArrayInit(k) = << x, y, z >>
    BY <1>1 DEF genArrayInit, HasSingle, Lit, Splat
  <2>2. ArrayPlan(decs, k) = {x, y, z}
    BY <1>1 DEF ArrayPlan, SinglePlan, Dims
  <2>3. /\ Key(decs, x) = << k, 1, 1 >> /\ Key(decs, y) = << k, 1, 2 >> /\ Key(decs, z) = << k, 1, 3 >>
    BY <1>1, Statements DEF Element
  <2> HIDE DEF x, y, z
  <2>0. /\ Prior(scope, << k, 1, 1 >>, << k, 1, 2 >>) /\ Prior(scope, << k, 1, 1 >>, << k, 1, 3 >>)
        /\ Prior(scope, << k, 1, 2 >>, << k, 1, 3 >>)
    BY PriorInLiteral
  <2>4. Prior(scope, Key(decs, x), Key(decs, y))
    BY <2>0, <2>3
  <2>5. Prior(scope, Key(decs, x), Key(decs, z))
    BY <2>0, <2>3
  <2>6. Prior(scope, Key(decs, y), Key(decs, z))
    BY <2>0, <2>3
  <2>7. /\ IsList(<< x, y, z >>) /\ Len(<< x, y, z >>) = 3 /\ ToSet(<< x, y, z >>) = {x, y, z}
        /\ << x, y, z >>[1] = x /\ << x, y, z >>[2] = y /\ << x, y, z >>[3] = z
    BY ListOf
  <2>8. \A i, j \in 1 .. 3 : i < j => (i = 1 /\ j = 2) \/ (i = 1 /\ j = 3) \/ (i = 2 /\ j = 3)
    OBVIOUS
  <2>9. Ordered(decs, scope, << x, y, z >>)
    BY <2>4, <2>5, <2>6, <2>7, <2>8 DEF Ordered
  <2> QED BY <2>1, <2>2, <2>7, <2>9
<1>2. CASE ~ HasSingle(decs, k)
  <2>1. genArrayInit(k) = << Alloc(k) >>
    BY <1>2 DEF genArrayInit, HasSingle, Lit, Splat
  <2> DEFINE x == Alloc(k)
  <2>2. ArrayPlan(decs, k) = {x}
    BY <1>2 DEF ArrayPlan, SinglePlan, Dims
  <2>3. genArrayInit(k) = << x >>
    BY <2>1
  <2> HIDE DEF x
  <2>4. IsList(<< x >>) /\ ToSet(<< x >>) = {x}
    BY ListOf
  <2>5. Ordered(decs, scope, << x >>)
    BY NoneOrdered
  <2> QED BY <2>2, <2>3, <2>4, <2>5
<1> QED BY <1>1, <1>2

LEMMA InitOfFacts ==
  ASSUME decs \in Programs, scope \in {"local", "global"}, NEW k \in DOMAIN decs
  PROVE  /\ IsList(InitOf(k)) /\ Ordered(decs, scope, InitOf(k))
         /\ ToSet(InitOf(k)) = HeadPlan(decs, scope, k)
<1>1. CASE Dims(k) # <<>>
  <2> DEFINE a == LocalDims(k)
             b == genArrayInit(k)
  <2>1. InitOf(k) = a \o b
    BY <1>1 DEF InitOf
  <2>2. /\ IsList(a) /\ Ordered(decs, scope, a)
        /\ ToSet(a) = IF scope = "local" THEN DimsPlan(decs, k) ELSE {}
    BY LocalDimsFacts
  <2>3. IsList(b) /\ Ordered(decs, scope, b) /\ ToSet(b) = ArrayPlan(decs, k)
    BY <1>1, GenArrayInitFacts
  <2> HIDE DEF a, b
  <2>4. ASSUME NEW x \in ToSet(a), NEW y \in ToSet(b)
        PROVE  Prior(scope, Key(decs, x), Key(decs, y))
    <3>1. scope = "local" /\ x \in DimsPlan(decs, k)
      BY <2>2
    <3>2. PICK i \in 1 .. Len(decs[k].dims) : x = Eval(Dimension(k, i))
      BY <3>1 DEF DimsPlan
    <3>3. Key(decs, x) = << k, 0, i >> /\ i \in Nat
      BY <3>2, DimKeys
    <3>4. \/ y = Alloc(k) \/ y = Eval(Element(k, 1, 1)) \/ y = Fill(k, Element(k, 1, 1))
      BY <2>3 DEF ArrayPlan, SinglePlan
    <3>5. PICK j \in Nat : Key(decs, y) = << k, 1, j >>
      BY <3>4, Statements DEF Element
    <3>6. Prior(scope, << k, 0, i >>, << k, 1, j >>)
      BY <3>1, <3>3, PriorWithin
    <3> QED BY <3>3, <3>5, <3>6
  <2>5. Ordered(decs, scope, a \o b)
    BY <2>2, <2>3, <2>4, OrderedConcat
  <2>6. IsList(a \o b) /\ ToSet(a \o b) = ToSet(a) \cup ToSet(b)
    BY <2>2, <2>3, ListConcat
  <2>7. ToSet(a \o b) = HeadPlan(decs, scope, k)
    BY <2>2, <2>3, <2>6 DEF HeadPlan
  <2> QED BY <2>1, <2>5, <2>6, <2>7
<1>2. CASE Dims(k) = <<>>
  <2>1. DimsPlan(decs, k) = {}
    BY <1>2 DEF DimsPlan, Dims
  <2>2. HeadPlan(decs, scope, k) = IF HasSingle(decs, k) THEN {Eval(Element(k, 1, 1))} ELSE {}
    BY <1>2, <2>1 DEF HeadPlan, ArrayPlan, SinglePlan, Dims
  <2>3. Lit(k) # <<>> <=> HasSingle(decs, k)
    BY <1>2, DecFacts DEF HasSingle, Lit, Dims
  <2>4. InitOf(k) = IF HasSingle(decs, k) THEN << Eval(Element(k, 1, 1)) >> ELSE <<>>
    BY <1>2, <2>3 DEF InitOf
  <2> DEFINE x == Eval(Element(k, 1, 1))
  <2>5. /\ HeadPlan(decs, scope, k) = IF HasSingle(decs, k) THEN {x} ELSE {}
        /\ InitOf(k) = IF HasSingle(decs, k) THEN << x >> ELSE <<>>
    BY <2>2, <2>4
  <2> HIDE DEF x
  <2>6. /\ IsList(<< x >>) /\ ToSet(<< x >>) = {x} /\ Ordered(decs, scope, << x >>)
        /\ IsList(<<>>) /\ ToSet(<<>>) = {} /\ Ordered(decs, scope, <<>>)
    BY ListOf, NoneOrdered
  <2> QED BY <2>5, <2>6
<1> QED BY <1>1, <1>2

-----------------------------------------------------------------------------
(***************************************************************************)
(* The invariant: what has been generated and what is still to come.       *)
(***************************************************************************)
(* The calls that are to come stand for the nodes 1 .. m, the last first.  *)
IsCall(lit, c) ==
  /\ c.node \in 1 .. Len(lit) /\ c.outer \in Seq(Nat) /\ c.start \in Nat
  /\ lit[c.node].at = Append(c.outer, c.start)

Tiles(lit, cs, m) ==
  /\ IsList(cs)
  /\ \A i \in 1 .. Len(cs) : IsCall(lit, cs[i])
  /\ \A i \in 1 .. Len(cs) : i < Len(cs) => cs[i + 1].node = lit[cs[i].node].first - 1
  /\ IF cs = <<>> THEN m = 0 ELSE cs[1].node = m /\ lit[cs[Len(cs)].node].first = 1

Plans(d, sc, l)      == UNION {Plan(d, sc, k) : k \in l + 1 .. Len(d)}
GlobalDims(d, sc, l) == IF sc = "global" THEN UNION {DimsPlan(d, k) : k \in 1 .. l} ELSE {}
Everything(d, sc)    == GlobalDims(d, sc, Len(d)) \cup Plans(d, sc, 0)

Extracted(n) ==
  IsList(extracted) /\ Ordered(decs, scope, extracted) /\ ToSet(extracted) = GlobalDims(decs, scope, n)

NotRun == memory = [k \in DOMAIN decs |-> None] /\ evaluated = <<>>

Checking   == left = Len(decs) /\ stmts = <<>> /\ extracted = <<>> /\ NotRun
Extracting == stmts = <<>> /\ Extracted(Len(decs) - left) /\ NotRun
Generating == ToSet(stmts) = Plans(decs, scope, left) /\ Extracted(Len(decs)) /\ NotRun
Storing ==
  /\ left > 0 /\ HasElements(left)
  /\ \E m \in 0 .. Len(Lit(left)) :
       /\ Tiles(Lit(left), calls, m)
       /\ ToSet(stmts) = Plans(decs, scope, left) \cup StoresAfter(decs, left, m)
  /\ Extracted(Len(decs)) /\ NotRun
Generated == ToSet(stmts) = Everything(decs, scope) /\ NotRun

LoweredBy(d, s)  == IF s.do = "store" THEN Store(s.dec, reduced(s.at, d[s.dec].dims), s.what) ELSE s
Planned(d, sc)   == {LoweredBy(d, s) : s \in Everything(d, sc)}

(* A statement is gone when it is not pending any more.                    *)
Gone             == Planned(decs, scope) \ ToSet(stmts)
Evaluates(s)     == s.do \in {"eval", "store"}

RunningInv ==
  /\ ToSet(stmts) \subseteq Planned(decs, scope)
  /\ \A s \in Gone : \A t \in ToSet(stmts) : Prior(scope, Key(decs, s), Key(decs, t))
  /\ IsList(evaluated)
  /\ ToSet(evaluated) = {s.what : s \in {x \in Gone : Evaluates(x)}}
  /\ \A i, j \in 1 .. Len(evaluated) : i < j => Prior(scope, evaluated[i], evaluated[j])
  /\ OnlyDeepLiterals

OrderInv ==
  /\ decs \in Programs /\ scope \in {"local", "global"}
  /\ left \in 0 .. Len(decs)
  /\ IsList(stmts) /\ Ordered(decs, scope, stmts)
  /\ phase \in {"CheckArrDims", "ExtractIndices", "InitVars", "Elements", "ParamDims", "running", "rejected"}
  /\ phase = "CheckArrDims"   => Checking
  /\ phase = "ExtractIndices" => Extracting
  /\ phase = "InitVars"       => Generating
  /\ phase = "Elements"       => Storing
  /\ phase = "ParamDims"      => Generated
  /\ phase = "running"        => RunningInv
  /\ phase # "running"        => evaluated = <<>>

(* An element has its value as soon as the statement that writes it has    *)
(* run, and none before.                                                   *)
Writer(d, k, e) ==
  IF d[k].init.splat THEN Fill(k, e)
  ELSE Store(k, reduced(Indices(d[k].init.lit[e[2]], e[3]), d[k].dims), e)

GivenIn(d, k, at) ==
  {e \in ElementsIn(d, k) : d[k].init.splat \/ Indices(d[k].init.lit[e[2]], e[3]) = at}

Cells(d, k, cells, pending) ==
  /\ cells = [i \in 0 .. sizeexprs(d[k].dims) - 1 |-> cells[i]]
  /\ \A at \in Box(d[k].dims) :
       LET value == cells[reduced(at, d[k].dims)]
       IN  /\ GivenIn(d, k, at) = {} => value = None
           /\ \A e \in GivenIn(d, k, at) : value = IF Writer(d, k, e) \in pending THEN None ELSE e

MemoryInv ==
  phase = "running" =>
    /\ memory = [k \in DOMAIN decs |-> memory[k]]
    /\ \A k \in DOMAIN decs :
         decs[k].dims # <<>> /\ Alloc(k) \notin ToSet(stmts) => Cells(decs, k, memory[k], ToSet(stmts))

LEMMA PlansSplit ==
  ASSUME NEW d \in Programs, NEW sc, NEW l \in 1 .. Len(d)
  PROVE  /\ Plans(d, sc, l - 1) = HeadPlan(d, sc, l) \cup Plans(d, sc, l) \cup StoresAfter(d, l, 0)
         /\ l \in DOMAIN d
         /\ \A y \in Plans(d, sc, l) : \E k \in DOMAIN d : l < k /\ y \in Plan(d, sc, k)
<1>1. Len(d) \in Nat /\ DOMAIN d = 1 .. Len(d)
  <2>1. l \in DOMAIN d
    <3>1. d \in Seq(Declaration)
      BY ProgramsAssumption
    <3> QED BY <3>1
  <2> QED BY <2>1, DecFacts
<1>2. \A k : k \in (l - 1) + 1 .. Len(d) <=> k = l \/ k \in l + 1 .. Len(d)
  BY <1>1
<1>3. Plans(d, sc, l - 1) = Plan(d, sc, l) \cup Plans(d, sc, l)
  BY <1>2, Zenon DEF Plans
<1>4. ASSUME NEW y \in Plans(d, sc, l)
      PROVE  \E k \in DOMAIN d : l < k /\ y \in Plan(d, sc, k)
  <2>1. PICK k \in l + 1 .. Len(d) : y \in Plan(d, sc, k)
    BY DEF Plans
  <2>2. k \in DOMAIN d /\ l < k
    BY <1>1
  <2> QED BY <2>1, <2>2
<1> QED BY <1>1, <1>3, <1>4 DEF Plan

LEMMA PlansPriorAll ==
  ASSUME NEW d \in Programs, NEW sc, NEW l \in 1 .. Len(d),
         NEW x \in Plan(d, sc, l), NEW y \in Plans(d, sc, l)
  PROVE  Prior(sc, Key(d, x), Key(d, y))
<1>1. l \in DOMAIN d /\ \E k \in DOMAIN d : l < k /\ y \in Plan(d, sc, k)
  BY PlansSplit
<1> QED BY <1>1, PlansPrior

LEMMA StoresFacts ==
  ASSUME NEW d \in Programs, NEW k \in DOMAIN d
  PROVE  /\ \A m, y : y \in StoresAfter(d, k, m) <=>
                        ~ d[k].init.splat /\ \E e \in ElementsIn(d, k) : e[2] > m /\ y = StoreOf(d, e)
         /\ \A e : Key(d, StoreOf(d, e)) = e
         /\ StoresAfter(d, k, Len(d[k].init.lit)) = {}
<1>1. \A m, y : y \in StoresAfter(d, k, m) <=>
                  ~ d[k].init.splat /\ \E e \in ElementsIn(d, k) : e[2] > m /\ y = StoreOf(d, e)
  BY DEF StoresAfter
<1>2. \A e : Key(d, StoreOf(d, e)) = e
  BY Statements DEF StoreOf
<1>3. \A e \in ElementsIn(d, k) : ~ (e[2] > Len(d[k].init.lit))
  <2> SUFFICES ASSUME NEW e \in ElementsIn(d, k) PROVE ~ (e[2] > Len(d[k].init.lit))
    OBVIOUS
  <2> DEFINE n == Len(d[k].init.lit)
  <2>1. e[2] \in 1 .. n /\ n \in Nat
    BY DecFacts, ElementFacts
  <2> HIDE DEF n
  <2>2. ~ (e[2] > n)
    BY <2>1
  <2> QED BY <2>2 DEF n
<1>4. StoresAfter(d, k, Len(d[k].init.lit)) = {}
  BY <1>1, <1>3
<1> QED BY <1>1, <1>2, <1>4

LEMMA HeadPrior ==
  ASSUME NEW d \in Programs, NEW sc \in {"local", "global"}, NEW k \in DOMAIN d, NEW x \in HeadPlan(d, sc, k),
         NEW y \in StoresAfter(d, k, 0)
  PROVE  Prior(sc, Key(d, x), Key(d, y))
<1>1. PICK e \in ElementsIn(d, k) : ~ d[k].init.splat /\ y = StoreOf(d, e) /\ Key(d, y) = e
  BY StoresFacts
<1>2. /\ e[2] \in Nat /\ e[2] > 0 /\ e[3] \in Nat /\ e[3] > 0 /\ e[1] = k
      /\ e = << e[1], e[2], e[3] >>
  BY ElementFacts
<1> DEFINE n == e[2]
           j == e[3]
<1>3. n \in Nat /\ n > 0 /\ j \in Nat /\ j > 0 /\ Key(d, y) = << k, n, j >>
  BY <1>1, <1>2
<1>4. \/ sc = "local" /\ x \in DimsPlan(d, k)
      \/ x = Alloc(k)
  BY <1>1 DEF HeadPlan, ArrayPlan, SinglePlan, HasSingle
<1> HIDE DEF n, j
<1>5. CASE sc = "local" /\ x \in DimsPlan(d, k)
  <2>1. PICK i \in 1 .. Len(d[k].dims) : x = Eval(Dimension(k, i))
    BY <1>5 DEF DimsPlan
  <2>2. Key(d, x) = << k, 0, i >> /\ i \in Nat
    BY <2>1, DimKeys
  <2>3. 0 \in Nat /\ 0 < n
    BY <1>3
  <2>4. Prior(sc, << k, 0, i >>, << k, n, j >>)
    BY <1>3, <1>5, <2>2, <2>3, PriorWithin
  <2> QED BY <1>3, <2>2, <2>4
<1>6. CASE x = Alloc(k)
  <2>1. Key(d, x) = << k, 1, 0 >>
    <3>1. ~ HasSingle(d, k)
      BY <1>1 DEF HasSingle
    <3>2. Key(d, Alloc(k)) = << k, 1, IF HasSingle(d, k) THEN 2 ELSE 0 >>
      BY Statements
    <3> QED BY <1>6, <3>1, <3>2
  <2> DEFINE one == 1
             nil == 0
  <2>2. one \in Nat /\ nil \in Nat /\ (one < n \/ (one = n /\ nil < j)) /\ one # 0
    BY <1>3
  <2>3. Key(d, x) = << k, one, nil >>
    BY <2>1
  <2> HIDE DEF one, nil
  <2>4. Prior(sc, << k, one, nil >>, << k, n, j >>)
    BY <1>3, <2>2, PriorWithin
  <2> QED BY <1>3, <2>3, <2>4
<1> QED BY <1>4, <1>5, <1>6

LEMMA NoStores ==
  ASSUME decs \in Programs, NEW k \in DOMAIN decs, ~ HasElements(k)
  PROVE  StoresAfter(decs, k, 0) = {}
<1>1. decs[k].init.splat \/ decs[k].init.lit = <<>>
  BY DecFacts DEF HasElements, Dims, Lit, Splat
<1>2. CASE decs[k].init.splat
  BY <1>2 DEF StoresAfter
<1>3. CASE decs[k].init.lit = <<>>
  <2>1. DOMAIN decs[k].init.lit = {}
    BY <1>3
  <2>2. ElementsIn(decs, k) = {}
    BY <2>1 DEF ElementsIn
  <2> QED BY <2>2 DEF StoresAfter
<1> QED BY <1>1, <1>2, <1>3

-----------------------------------------------------------------------------
(***************************************************************************)
(* genIndividualInit takes the nodes from the last one to the first.       *)
(***************************************************************************)
LEMMA TilesPush ==
  ASSUME NEW lit \in Seq(Node), Parsed(lit), NEW cs, NEW c, IsCall(lit, c),
         Tiles(lit, cs, lit[c.node].first - 1)
  PROVE  Tiles(lit, <<c>> \o cs, c.node)
<1> DEFINE a == << c >>
           s == a \o cs
           m == lit[c.node].first - 1
<1>1. IsList(a) /\ Len(a) = 1 /\ a[1] = c
  BY ListOf
<1>2. IsList(cs) /\ Len(cs) \in Nat /\ (Len(cs) = 0 <=> cs = <<>>)
  BY ListFacts DEF Tiles
<1>3. c.node \in 1 .. Len(lit) /\ lit[c.node].first \in 1 .. c.node
  <2>1. c.node \in 1 .. Len(lit)
    BY DEF IsCall
  <2>2. NodeShape(lit, c.node)
    BY <2>1, NodeFacts
  <2> QED BY <2>1, <2>2 DEF NodeShape
<1>4. m \in Nat /\ (m = 0 => lit[c.node].first = 1)
  BY <1>3
<1> HIDE DEF a, m
<1>5. /\ IsList(s) /\ Len(s) = 1 + Len(cs)
      /\ \A i \in 1 .. 1 + Len(cs) : s[i] = IF i <= 1 THEN a[i] ELSE cs[i - 1]
  <2>1. /\ IsList(s) /\ Len(s) = Len(a) + Len(cs)
        /\ \A i \in 1 .. Len(a) + Len(cs) : s[i] = IF i <= Len(a) THEN a[i] ELSE cs[i - Len(a)]
    BY <1>1, <1>2, ListConcat
  <2> HIDE DEF s
  <2> QED BY <1>1, <2>1
<1> HIDE DEF s
<1>6. s[1] = c /\ \A i \in 1 .. Len(cs) : i + 1 \in 1 .. Len(s) /\ s[i + 1] = cs[i]
  <2>1. 1 \in 1 .. 1 + Len(cs) /\ 1 <= 1
    BY <1>2
  <2>2. \A i \in 1 .. Len(cs) : i + 1 \in 1 .. 1 + Len(cs) /\ ~ (i + 1 <= 1) /\ (i + 1) - 1 = i
    BY <1>2
  <2> QED BY <1>1, <1>5, <2>1, <2>2
<1>7. \A i \in 1 .. Len(s) : i = 1 \/ (i - 1 \in 1 .. Len(cs) /\ (i - 1) + 1 = i)
  BY <1>2, <1>5
<1>8. \A i \in 1 .. Len(s) : IsCall(lit, s[i])
  <2> SUFFICES ASSUME NEW i \in 1 .. Len(s) PROVE IsCall(lit, s[i])
    OBVIOUS
  <2>1. CASE i = 1
    BY <1>6, <2>1
  <2>2. CASE i - 1 \in 1 .. Len(cs) /\ (i - 1) + 1 = i
    <3>1. s[i] = cs[i - 1]
      BY <1>6, <2>2
    <3> QED BY <2>2, <3>1 DEF Tiles
  <2> QED BY <1>7, <2>1, <2>2
<1>9. ASSUME NEW i \in 1 .. Len(s), i < Len(s) PROVE s[i + 1].node = lit[s[i].node].first - 1
  <2>1. CASE i = 1
    <3>1. cs # <<>> /\ 1 \in 1 .. Len(cs)
      BY <1>2, <1>5, <1>9, <2>1
    <3>2. s[1 + 1] = cs[1]
      BY <1>6, <3>1
    <3>3. cs[1].node = m
      BY <3>1 DEF Tiles, m
    <3> QED BY <1>6, <2>1, <3>2, <3>3 DEF m
  <2>2. CASE i - 1 \in 1 .. Len(cs) /\ (i - 1) + 1 = i
    <3>1. i \in 1 .. Len(cs) /\ i - 1 < Len(cs)
      BY <1>2, <1>5, <1>9, <2>2
    <3>2. s[i + 1] = cs[i] /\ s[i] = cs[i - 1]
      BY <1>6, <2>2, <3>1
    <3>3. cs[(i - 1) + 1].node = lit[cs[i - 1].node].first - 1
      BY <2>2, <3>1 DEF Tiles
    <3> QED BY <2>2, <3>2, <3>3
  <2> QED BY <1>7, <2>1, <2>2
<1>10. s # <<>> /\ s[1].node = c.node
  <2>1. Len(s) # 0
    BY <1>2, <1>5
  <2> QED BY <1>5, <1>6, <2>1, ListFacts
<1>11. lit[s[Len(s)].node].first = 1
  <2>1. CASE cs = <<>>
    <3>1. Len(s) = 1 /\ m = 0
      BY <1>2, <1>5, <2>1 DEF Tiles, m
    <3> QED BY <1>4, <1>6, <3>1
  <2>2. CASE cs # <<>>
    <3>1. Len(cs) \in 1 .. Len(cs) /\ Len(s) = Len(cs) + 1
      BY <1>2, <1>5, <2>2
    <3>2. s[Len(s)] = cs[Len(cs)]
      BY <1>6, <3>1
    <3>3. lit[cs[Len(cs)].node].first = 1
      BY <2>2 DEF Tiles
    <3> QED BY <3>2, <3>3
  <2> QED BY <2>1, <2>2
<1>12. Tiles(lit, s, c.node)
  BY <1>5, <1>8, <1>9, <1>10, <1>11 DEF Tiles
<1> QED BY <1>12 DEF s, a

LEMMA TilesPop ==
  ASSUME NEW lit \in Seq(Node), Parsed(lit), NEW cs, NEW m, Tiles(lit, cs, m), cs # <<>>
  PROVE  /\ IsCall(lit, Head(cs)) /\ Head(cs).node = m /\ m \in 1 .. Len(lit)
         /\ Tiles(lit, Tail(cs), lit[m].first - 1)
<1> DEFINE t == Tail(cs)
           h == Head(cs)
<1>1. /\ IsList(t) /\ h = cs[1] /\ Len(cs) \in Nat \ {0} /\ Len(t) = Len(cs) - 1
      /\ \A i \in 1 .. Len(cs) - 1 : t[i] = cs[i + 1]
  BY ListTail DEF Tiles
<1> HIDE DEF t, h
<1>2. IsCall(lit, h) /\ h.node = m /\ m \in 1 .. Len(lit)
  <2>1. 1 \in 1 .. Len(cs)
    BY <1>1
  <2> QED BY <1>1, <2>1 DEF Tiles, IsCall
<1>3. \A i \in 1 .. Len(t) : IsCall(lit, t[i])
  <2>1. \A i \in 1 .. Len(t) : i + 1 \in 1 .. Len(cs) /\ t[i] = cs[i + 1]
    BY <1>1
  <2> QED BY <2>1 DEF Tiles
<1>4. ASSUME NEW i \in 1 .. Len(t), i < Len(t) PROVE t[i + 1].node = lit[t[i].node].first - 1
  <2>1. i + 1 \in 1 .. Len(cs) /\ i + 1 < Len(cs) /\ i + 1 \in 1 .. Len(cs) - 1 /\ i \in 1 .. Len(cs) - 1
    BY <1>1, <1>4
  <2>2. t[i] = cs[i + 1] /\ t[i + 1] = cs[(i + 1) + 1]
    BY <1>1, <2>1
  <2>3. cs[(i + 1) + 1].node = lit[cs[i + 1].node].first - 1
    BY <2>1 DEF Tiles
  <2> QED BY <2>2, <2>3
<1>5. CASE t = <<>>
  <2>1. Len(t) = 0
    BY <1>5
  <2>2. Len(cs) = 1
    BY <1>1, <2>1
  <2>3. lit[m].first = 1
    BY <1>1, <1>2, <2>2 DEF Tiles
  <2>4. lit[m].first - 1 = 0
    BY <2>3
  <2> QED BY <1>1, <1>2, <1>3, <1>4, <1>5, <2>4 DEF Tiles, t, h
<1>6. CASE t # <<>>
  <2>1. Len(t) \in Nat \ {0}
    BY <1>1, <1>6, ListFacts
  <2>2. 1 \in 1 .. Len(cs) /\ 1 < Len(cs) /\ 1 \in 1 .. Len(cs) - 1 /\ Len(t) \in 1 .. Len(cs) - 1
        /\ Len(t) + 1 = Len(cs)
    BY <1>1, <2>1
  <2>3. t[1] = cs[1 + 1] /\ t[Len(t)] = cs[Len(cs)]
    BY <1>1, <2>2
  <2>4. cs[1 + 1].node = lit[cs[1].node].first - 1
    BY <2>2 DEF Tiles
  <2>5. t[1].node = lit[m].first - 1
    BY <1>1, <1>2, <2>3, <2>4
  <2>6. lit[t[Len(t)].node].first = 1
    BY <2>3 DEF Tiles
  <2> QED BY <1>1, <1>2, <1>3, <1>4, <1>6, <2>5, <2>6 DEF Tiles, t, h
<1> QED BY <1>5, <1>6

LEMMA WithCallTiles ==
  ASSUME NEW lit \in Seq(Node), Parsed(lit), NEW n, NEW outer \in Seq(Nat), NEW start \in Nat, NEW rest,
         NEW m, IF n = 0 THEN m = 0 \/ Tiles(lit, rest, m)
                ELSE /\ n \in 1 .. Len(lit) /\ lit[n].at = Append(outer, start)
                     /\ Tiles(lit, rest, lit[n].first - 1)
  PROVE  IF n = 0 THEN WithCall(n, outer, start, rest) = rest
         ELSE Tiles(lit, WithCall(n, outer, start, rest), n)
<1> DEFINE c == [node |-> n, outer |-> outer, start |-> start]
<1>1. CASE n = 0
  BY <1>1 DEF WithCall
<1>2. CASE n # 0
  <2>1. IsCall(lit, c) /\ c.node = n
    BY <1>2 DEF IsCall
  <2>2. WithCall(n, outer, start, rest) = << c >> \o rest
    BY <1>2 DEF WithCall
  <2> HIDE DEF c
  <2>3. Tiles(lit, rest, lit[c.node].first - 1)
    BY <1>2, <2>1
  <2> QED BY <1>2, <2>1, <2>2, <2>3, TilesPush
<1> QED BY <1>1, <1>2

LEMMA RowsTile ==
  ASSUME NEW lit \in Seq(Node), lit = Lit(left), Parsed(lit), NEW m \in 1 .. Len(lit),
         Tiles(lit, calls, m), calls # <<>>
  PROVE  /\ Head(calls).node = m /\ IsCall(lit, Head(calls))
         /\ lit[m].exprs > 0 => Tiles(lit, Tail(calls), m - 1)
         /\ Tiles(lit, RowsOf(Head(calls), Tail(calls)), m - 1)
<1> DEFINE node == lit[m]
           c    == Head(calls)
           rest == Tail(calls)
           after == IF node.siblings = 0 THEN m ELSE lit[node.siblings].first
           inner == WithCall(node.next, Append(c.outer, c.start), 0, rest)
<1>1. c.node = m /\ m \in 1 .. Len(lit) /\ IsCall(lit, c) /\ Tiles(lit, rest, node.first - 1)
  BY TilesPop
<1>2. /\ node.at \in Seq(Nat) /\ Len(node.at) \in Nat \ {0} /\ m \in Nat /\ node.exprs \in Nat
      /\ node.exprs > 0 => node.next = 0 /\ node.siblings = 0
      /\ node.siblings # 0 => /\ node.siblings = m - 1 /\ m - 1 \in 1 .. Len(lit)
                              /\ lit[m - 1].at = [node.at EXCEPT ![Len(node.at)] = @ + 1]
      /\ after \in 1 .. m
      /\ node.next # 0 => /\ node.next = after - 1 /\ node.next \in 1 .. Len(lit)
                          /\ lit[node.next].at = Append(node.at, 0)
                          /\ node.first = lit[node.next].first
      /\ node.next = 0 => node.first = after
  <2>1. NodeShape(lit, m)
    BY NodeFacts
  <2> QED BY <2>1 DEF NodeShape
<1>3. c.outer \in Seq(Nat) /\ c.start \in Nat /\ node.at = Append(c.outer, c.start)
  BY <1>1 DEF IsCall
<1>4. node.siblings = 0 => after = m
  OBVIOUS
<1>5. node.siblings # 0 => after = lit[m - 1].first
  BY <1>2
<1>6. node.exprs > 0 => Tiles(lit, rest, m - 1)
  BY <1>1, <1>2, <1>4
<1>7. RowsOf(c, rest) = WithCall(node.siblings, c.outer, c.start + 1, inner)
  BY <1>1 DEF RowsOf
<1>8. [node.at EXCEPT ![Len(node.at)] = @ + 1] = Append(c.outer, c.start + 1)
  <2> DEFINE o == c.outer
             s == c.start
             x == Append(o, s)
  <2>1. o \in Seq(Nat) /\ s \in Nat /\ s + 1 \in Nat /\ node.at = x
    BY <1>3
  <2> HIDE DEF o, s
  <2>2. /\ x \in Seq(Nat) /\ Len(x) = Len(o) + 1 /\ Len(o) \in Nat /\ x[Len(o) + 1] = s
        /\ \A i \in 1 .. Len(o) : x[i] = o[i]
    BY <2>1, AppendProperties
  <2> DEFINE y == [x EXCEPT ![Len(x)] = @ + 1]
             z == Append(o, s + 1)
  <2>3. /\ z \in Seq(Nat) /\ Len(z) = Len(o) + 1 /\ z[Len(o) + 1] = s + 1
        /\ \A i \in 1 .. Len(o) : z[i] = o[i]
    BY <2>1, AppendProperties
  <2>4. /\ y \in Seq(Nat) /\ Len(y) = Len(o) + 1 /\ y[Len(o) + 1] = s + 1
        /\ \A i \in 1 .. Len(o) : y[i] = o[i]
    <3> HIDE DEF x
    <3>1. y \in Seq(Nat) /\ Len(y) = Len(x)
      BY <2>1, <2>2
    <3>2. Len(o) + 1 \in 1 .. Len(x) /\ \A i \in 1 .. Len(o) : i \in 1 .. Len(x) /\ i # Len(o) + 1
      BY <2>2
    <3>3. DOMAIN x = 1 .. Len(x)
      BY <2>2
    <3> QED BY <2>2, <3>1, <3>2, <3>3
  <2> HIDE DEF x, y, z
  <2>5. \A i \in 1 .. Len(y) : y[i] = z[i]
    <3>1. \A i \in 1 .. Len(o) + 1 : i \in 1 .. Len(o) \/ i = Len(o) + 1
      BY <2>2
    <3> QED BY <2>3, <2>4, <3>1
  <2>6. y = z
    BY <2>3, <2>4, <2>5, SeqEqual
  <2> QED BY <2>1, <2>6 DEF y, z, o, s
<1> HIDE DEF after, node, c, rest
<1>9. Tiles(lit, inner, after - 1)
  <2>1. CASE node.next = 0
    <3>1. inner = rest
      BY <2>1 DEF WithCall
    <3> QED BY <1>1, <1>2, <2>1, <3>1
  <2>2. CASE node.next # 0
    <3>1. /\ node.next \in 1 .. Len(lit) /\ lit[node.next].at = Append(Append(c.outer, c.start), 0)
          /\ Tiles(lit, rest, lit[node.next].first - 1) /\ node.next = after - 1
      BY <1>1, <1>2, <1>3, <2>2
    <3>2. lit \in Seq(Node) /\ Parsed(lit) /\ Append(c.outer, c.start) \in Seq(Nat) /\ 0 \in Nat
      BY <1>2, <1>3
    <3> DEFINE n == node.next
               o == Append(c.outer, c.start)
    <3>3. n # 0 /\ n \in 1 .. Len(lit) /\ lit[n].at = Append(o, 0) /\ Tiles(lit, rest, lit[n].first - 1)
          /\ o \in Seq(Nat) /\ inner = WithCall(n, o, 0, rest)
      BY <2>2, <3>1, <3>2
    <3> HIDE DEF n, o, inner
    <3>4. Tiles(lit, WithCall(n, o, 0, rest), n)
      BY <3>2, <3>3, WithCallTiles
    <3> QED BY <3>1, <3>3, <3>4 DEF n
  <2> QED BY <2>1, <2>2
<1> HIDE DEF inner
<1>10. Tiles(lit, RowsOf(c, rest), m - 1)
  <2>1. CASE node.siblings = 0
    <3>1. RowsOf(c, rest) = inner
      BY <1>7, <2>1 DEF WithCall
    <3> QED BY <1>4, <1>9, <2>1, <3>1
  <2>2. CASE node.siblings # 0
    <3> DEFINE n == node.siblings
               s == c.start + 1
    <3>1. /\ n # 0 /\ n \in 1 .. Len(lit) /\ n = m - 1
          /\ lit[n].at = Append(c.outer, s) /\ Tiles(lit, inner, lit[n].first - 1)
      BY <1>2, <1>5, <1>8, <1>9, <2>2
    <3>2. lit \in Seq(Node) /\ Parsed(lit) /\ c.outer \in Seq(Nat) /\ s \in Nat
      BY <1>3
    <3>3. RowsOf(c, rest) = WithCall(n, c.outer, s, inner)
      BY <1>7
    <3> HIDE DEF n, s
    <3>4. Tiles(lit, WithCall(n, c.outer, s, inner), n)
      BY <3>1, <3>2, WithCallTiles
    <3> QED BY <3>1, <3>3, <3>4
  <2> QED BY <2>1, <2>2
<1> QED BY <1>1, <1>6, <1>10 DEF node, c, rest

-----------------------------------------------------------------------------
(***************************************************************************)
(* Every statement is put before those that come after it in the text.     *)
(***************************************************************************)
LEMMA Prepended ==
  ASSUME IsList(stmts), Ordered(decs, scope, stmts),
         NEW new, IsList(new), Ordered(decs, scope, new),
         \A x \in ToSet(new), y \in ToSet(stmts) : Prior(scope, Key(decs, x), Key(decs, y))
  PROVE  /\ IsList(prependInit(new)) /\ Ordered(decs, scope, prependInit(new))
         /\ ToSet(prependInit(new)) = ToSet(new) \cup ToSet(stmts)
<1>1. IsList(new \o stmts) /\ ToSet(new \o stmts) = ToSet(new) \cup ToSet(stmts)
  BY ListConcat
<1>2. Ordered(decs, scope, new \o stmts)
  BY OrderedConcat
<1> QED BY <1>1, <1>2 DEF prependInit

LEMMA EarlyDims ==
  ASSUME NEW d \in Programs, NEW k \in DOMAIN d, NEW x \in DimsPlan(d, k)
  PROVE  \E i \in 1 .. Len(d[k].dims) :
           x = Eval(Dimension(k, i)) /\ Key(d, x) = <<k, 0, i>> /\ Early("global", Key(d, x))
<1>1. PICK i \in 1 .. Len(d[k].dims) : x = Eval(Dimension(k, i))
  BY DEF DimsPlan
<1>2. Key(d, x) = << k, 0, i >>
  BY <1>1, DimKeys
<1>3. Early("global", << k, 0, i >>)
  BY DEF Early
<1> QED BY <1>1, <1>2, <1>3

LEMMA ExtractedFirst ==
  ASSUME NEW d \in Programs, NEW sc \in {"local", "global"}, NEW x \in GlobalDims(d, sc, Len(d)),
         NEW y \in Plans(d, sc, 0)
  PROVE  Prior(sc, Key(d, x), Key(d, y))
<1>1. DOMAIN d = 1 .. Len(d) /\ Len(d) \in Nat
  <2>1. d \in Seq(Declaration)
    BY ProgramsAssumption
  <2> QED BY <2>1
<1>2. sc = "global" /\ \E k \in 1 .. Len(d) : x \in DimsPlan(d, k)
  BY DEF GlobalDims
<1>3. Early(sc, Key(d, x))
  BY <1>1, <1>2, EarlyDims
<1>4. PICK l \in 0 + 1 .. Len(d) : y \in Plan(d, sc, l)
  BY DEF Plans
<1>5. l \in DOMAIN d
  BY <1>1
<1>6. ~ Early(sc, Key(d, y))
  BY <1>4, <1>5, KeyFacts
<1> QED BY <1>3, <1>6 DEF Prior

LEMMA MkGlobalDefExprsFacts ==
  ASSUME decs \in Programs, scope = "global", NEW k \in DOMAIN decs
  PROVE  /\ IsList(mkGlobalDefExprs(k)) /\ Ordered(decs, scope, mkGlobalDefExprs(k))
         /\ ToSet(mkGlobalDefExprs(k)) = DimsPlan(decs, k)
<1> DEFINE n == Len(decs[k].dims)
           f == [i \in 1 .. n |-> Eval(Dimension(k, n + 1 - i))]
<1>1. mkGlobalDefExprs(k) = f
  BY DEF mkGlobalDefExprs, Depth, Dims
<1>2. n \in Nat
  BY DecFacts
<1>3. \A i \in 1 .. n : f[i] = Eval(Dimension(k, n + 1 - i))
  OBVIOUS
<1>4. f = [i \in 1 .. n |-> f[i]]
  OBVIOUS
<1>5. \A i \in 1 .. n : f[i] \in DimsPlan(decs, k)
  <2> SUFFICES ASSUME NEW i \in 1 .. n PROVE f[i] \in DimsPlan(decs, k)
    OBVIOUS
  <2>1. n + 1 - i \in 1 .. n
    <3> HIDE DEF n
    <3> QED BY <1>2
  <2> QED BY <1>3, <2>1 DEF DimsPlan
<1>6. \A x \in DimsPlan(decs, k) : \E i \in 1 .. n : f[i] = x
  <2> SUFFICES ASSUME NEW x \in DimsPlan(decs, k) PROVE \E i \in 1 .. n : f[i] = x
    OBVIOUS
  <2>1. PICK j \in 1 .. n : x = Eval(Dimension(k, j))
    BY DEF DimsPlan
  <2>2. n + 1 - j \in 1 .. n /\ n + 1 - (n + 1 - j) = j
    <3> HIDE DEF n
    <3> QED BY <1>2
  <2>3. f[n + 1 - j] = Eval(Dimension(k, n + 1 - (n + 1 - j)))
    BY <1>3, <2>2
  <2>4. f[n + 1 - j] = x
    BY <2>1, <2>2, <2>3
  <2> QED BY <2>2, <2>4
<1>7. \A i \in 1 .. n : Key(decs, f[i]) = << k, 0, n + 1 - i >> /\ Early("global", Key(decs, f[i]))
  <2> SUFFICES ASSUME NEW i \in 1 .. n
               PROVE  Key(decs, f[i]) = << k, 0, n + 1 - i >> /\ Early("global", Key(decs, f[i]))
    OBVIOUS
  <2>1. n + 1 - i \in 1 .. n
    <3> HIDE DEF n
    <3> QED BY <1>2
  <2>2. Key(decs, f[i]) = << k, 0, n + 1 - i >>
    BY <1>3, <2>1, DimKeys
  <2>3. Early("global", << k, 0, n + 1 - i >>)
    BY DEF Early
  <2> QED BY <2>2, <2>3
<1> HIDE DEF n, f
<1>8. IsList(f) /\ Len(f) = n /\ \A x : x \in ToSet(f) <=> \E i \in 1 .. n : f[i] = x
  BY <1>2, <1>4, ListMade
<1>9. ToSet(f) = DimsPlan(decs, k)
  BY <1>5, <1>6, <1>8
<1>10. Ordered(decs, scope, f)
  <2> SUFFICES ASSUME NEW i \in 1 .. n, NEW j \in 1 .. n, i < j
               PROVE  Prior(scope, Key(decs, f[i]), Key(decs, f[j]))
    BY <1>8 DEF Ordered
  <2>1. n + 1 - i # n + 1 - j
    BY <1>2
  <2>2. << k, 0, n + 1 - i >> # << k, 0, n + 1 - j >>
    BY <2>1
  <2> QED BY <1>7, <2>2 DEF Prior
<1> QED BY <1>1, <1>8, <1>9, <1>10

LEMMA ExtractOne ==
  ASSUME decs \in Programs, scope = "global", NEW k \in DOMAIN decs, Extracted(k - 1)
  PROVE  LET ex == mkGlobalDefExprs(k) \o extracted
         IN  IsList(ex) /\ Ordered(decs, scope, ex) /\ ToSet(ex) = GlobalDims(decs, scope, k)
<1> DEFINE a == mkGlobalDefExprs(k)
           ex == a \o extracted
<1>1. IsList(a) /\ Ordered(decs, scope, a) /\ ToSet(a) = DimsPlan(decs, k)
  BY MkGlobalDefExprsFacts
<1>2. /\ IsList(extracted) /\ Ordered(decs, scope, extracted)
      /\ ToSet(extracted) = GlobalDims(decs, scope, k - 1)
  BY DEF Extracted
<1>3. k \in Nat /\ k > 0 /\ DOMAIN decs = 1 .. Len(decs) /\ Len(decs) \in Nat
  BY DecFacts
<1> HIDE DEF a
<1>4. ASSUME NEW x \in ToSet(a), NEW y \in ToSet(extracted)
      PROVE  Prior(scope, Key(decs, x), Key(decs, y))
  <2>1. PICK l \in 1 .. k - 1 : y \in DimsPlan(decs, l)
    BY <1>2 DEF GlobalDims
  <2>2. l \in DOMAIN decs /\ l # k
    BY <1>3
  <2>3. PICK i : Key(decs, x) = << k, 0, i >> /\ Early("global", Key(decs, x))
    BY <1>1, EarlyDims
  <2>4. PICK j : Key(decs, y) = << l, 0, j >> /\ Early("global", Key(decs, y))
    BY <2>1, <2>2, EarlyDims
  <2>5. << k, 0, i >> # << l, 0, j >>
    BY <2>2
  <2> QED BY <2>3, <2>4, <2>5 DEF Prior
<1>5. IsList(ex) /\ ToSet(ex) = ToSet(a) \cup ToSet(extracted)
  BY <1>1, <1>2, ListConcat
<1>6. Ordered(decs, scope, ex)
  BY <1>1, <1>2, <1>4, OrderedConcat
<1>7. GlobalDims(decs, scope, k) = DimsPlan(decs, k) \cup GlobalDims(decs, scope, k - 1)
  <2>1. \A i : i \in 1 .. k <=> i = k \/ i \in 1 .. k - 1
    BY <1>3
  <2> QED BY <2>1 DEF GlobalDims
<1> QED BY <1>1, <1>2, <1>5, <1>6, <1>7 DEF a

LEMMA InitOfPrepended ==
  ASSUME decs \in Programs, scope \in {"local", "global"}, NEW k \in 1 .. Len(decs),
         IsList(stmts), Ordered(decs, scope, stmts),
         ToSet(stmts) = Plans(decs, scope, k) \cup StoresAfter(decs, k, 0)
  PROVE  /\ IsList(prependInit(InitOf(k))) /\ Ordered(decs, scope, prependInit(InitOf(k)))
         /\ ToSet(prependInit(InitOf(k))) = Plans(decs, scope, k - 1)
<1>1. k \in DOMAIN decs /\ Plans(decs, scope, k - 1) =
        HeadPlan(decs, scope, k) \cup Plans(decs, scope, k) \cup StoresAfter(decs, k, 0)
  BY PlansSplit
<1> DEFINE new == InitOf(k)
<1>2. IsList(new) /\ Ordered(decs, scope, new) /\ ToSet(new) = HeadPlan(decs, scope, k)
  BY <1>1, InitOfFacts
<1> HIDE DEF new
<1>3. ASSUME NEW x \in ToSet(new), NEW y \in ToSet(stmts)
      PROVE  Prior(scope, Key(decs, x), Key(decs, y))
  <2>1. x \in HeadPlan(decs, scope, k) /\ x \in Plan(decs, scope, k)
    BY <1>2 DEF Plan
  <2>2. CASE y \in Plans(decs, scope, k)
    BY <2>1, <2>2, PlansPriorAll
  <2>3. CASE y \in StoresAfter(decs, k, 0)
    BY <1>1, <2>1, <2>3, HeadPrior
  <2> QED BY <2>2, <2>3
<1>4. /\ IsList(prependInit(new)) /\ Ordered(decs, scope, prependInit(new))
      /\ ToSet(prependInit(new)) = ToSet(new) \cup ToSet(stmts)
  BY <1>2, <1>3, Prepended
<1> QED BY <1>1, <1>2, <1>4 DEF new

LEMMA IndicesOfCall ==
  ASSUME NEW outer \in Seq(Nat), NEW start \in Nat, NEW i \in Nat
  PROVE  LET at == Append(outer, start) IN [at EXCEPT ![Len(at)] = i] = Append(outer, i)
<1> DEFINE at == Append(outer, start)
           y  == [at EXCEPT ![Len(at)] = i]
           z  == Append(outer, i)
<1>1. /\ at \in Seq(Nat) /\ Len(at) = Len(outer) + 1 /\ Len(outer) \in Nat
      /\ \A j \in 1 .. Len(outer) : at[j] = outer[j]
  BY AppendProperties
<1>2. /\ z \in Seq(Nat) /\ Len(z) = Len(outer) + 1 /\ z[Len(outer) + 1] = i
      /\ \A j \in 1 .. Len(outer) : z[j] = outer[j]
  BY AppendProperties
<1>3. /\ y \in Seq(Nat) /\ Len(y) = Len(outer) + 1 /\ y[Len(outer) + 1] = i
      /\ \A j \in 1 .. Len(outer) : y[j] = outer[j]
  <2> HIDE DEF at
  <2>1. y \in Seq(Nat) /\ Len(y) = Len(at) /\ DOMAIN at = 1 .. Len(at)
    BY <1>1
  <2>2. Len(outer) + 1 \in 1 .. Len(at) /\ \A j \in 1 .. Len(outer) : j \in 1 .. Len(at) /\ j # Len(outer) + 1
    BY <1>1
  <2> QED BY <1>1, <2>1, <2>2
<1> HIDE DEF at, y, z
<1>4. \A j \in 1 .. Len(y) : y[j] = z[j]
  <2>1. \A j \in 1 .. Len(outer) + 1 : j \in 1 .. Len(outer) \/ j = Len(outer) + 1
    BY <1>1
  <2> QED BY <1>2, <1>3, <2>1
<1>5. y = z
  BY <1>2, <1>3, <1>4, SeqEqual
<1> QED BY <1>5 DEF y, z, at

LEMMA RowStored ==
  ASSUME decs \in Programs, scope \in {"local", "global"}, NEW k \in 1 .. Len(decs), HasElements(k),
         IsList(stmts), Ordered(decs, scope, stmts),
         NEW m \in 1 .. Len(Lit(k)), NEW c, IsCall(Lit(k), c), c.node = m,
         ToSet(stmts) = Plans(decs, scope, k) \cup StoresAfter(decs, k, m)
  PROVE  LET st == prependInit(genIndividualInit1D(k, m, c.outer))
         IN  /\ IsList(st) /\ Ordered(decs, scope, st)
             /\ ToSet(st) = Plans(decs, scope, k) \cup StoresAfter(decs, k, m - 1)
<1> DEFINE n == Lit(k)[m].exprs
           f == [j \in 1 .. n |-> Store(k, Append(c.outer, j - 1), Element(k, m, j))]
<1>1. genIndividualInit1D(k, m, c.outer) = f
  BY DEF genIndividualInit1D
<1>2. k \in DOMAIN decs
  BY PlansSplit
<1>3. ~ decs[k].init.splat /\ Lit(k) = decs[k].init.lit
  BY DEF HasElements, Splat, Lit
<1>4. n \in Nat /\ m \in DOMAIN Lit(k) /\ m \in Nat
  <2> DEFINE lit == decs[k].init.lit
  <2>1. Len(lit) \in Nat /\ DOMAIN lit = 1 .. Len(lit) /\ \A i \in DOMAIN lit : lit[i].exprs \in Nat
    BY <1>2, DecFacts
  <2>2. Lit(k) = lit
    BY <1>3
  <2> HIDE DEF lit
  <2> QED BY <2>1, <2>2
<1>5. \A j \in 1 .. n : f[j] = StoreOf(decs, Element(k, m, j))
  <2> SUFFICES ASSUME NEW j \in 1 .. n PROVE f[j] = StoreOf(decs, Element(k, m, j))
    OBVIOUS
  <2>1. f[j] = Store(k, Append(c.outer, j - 1), Element(k, m, j))
    OBVIOUS
  <2>2. Indices(Lit(k)[m], j) = Append(c.outer, j - 1)
    <3>1. c.outer \in Seq(Nat) /\ c.start \in Nat /\ Lit(k)[m].at = Append(c.outer, c.start)
      BY DEF IsCall
    <3>2. j - 1 \in Nat
      BY <1>4
    <3> DEFINE o == c.outer
               s == c.start
               i == j - 1
               to == Append(o, s)
    <3>3. o \in Seq(Nat) /\ s \in Nat /\ i \in Nat
      BY <3>1, <3>2
    <3>4. Indices(Lit(k)[m], j) = [to EXCEPT ![Len(to)] = i]
      BY <3>1 DEF Indices
    <3> HIDE DEF o, s, i
    <3>5. [to EXCEPT ![Len(to)] = i] = Append(o, i)
      BY <3>3, IndicesOfCall
    <3> QED BY <3>4, <3>5 DEF o, i
  <2>3. << k, m, j >>[1] = k /\ << k, m, j >>[2] = m /\ << k, m, j >>[3] = j
    OBVIOUS
  <2> QED BY <1>3, <2>1, <2>2, <2>3 DEF StoreOf, Element
<1>6. f = [j \in 1 .. n |-> f[j]]
  OBVIOUS
<1> HIDE DEF f
<1>7. IsList(f) /\ Len(f) = n /\ \A x : x \in ToSet(f) <=> \E j \in 1 .. n : f[j] = x
  BY <1>4, <1>6, ListMade
<1>8. \A j \in 1 .. n : /\ Element(k, m, j) \in ElementsIn(decs, k) /\ Key(decs, f[j]) = << k, m, j >>
                        /\ j \in Nat
  <2> SUFFICES ASSUME NEW j \in 1 .. n
               PROVE  /\ Element(k, m, j) \in ElementsIn(decs, k) /\ Key(decs, f[j]) = << k, m, j >>
                      /\ j \in Nat
    OBVIOUS
  <2>1. Element(k, m, j) \in ElementsIn(decs, k)
    BY <1>3, <1>4, IsElement
  <2>2. Key(decs, f[j]) = Element(k, m, j)
    BY <1>2, <1>5, StoresFacts
  <2> QED BY <1>4, <2>1, <2>2 DEF Element
<1>9. Ordered(decs, scope, f)
  <2> SUFFICES ASSUME NEW i \in 1 .. n, NEW j \in 1 .. n, i < j
               PROVE  Prior(scope, Key(decs, f[i]), Key(decs, f[j]))
    BY <1>7 DEF Ordered
  <2>1. m # 0 /\ i \in Nat /\ j \in Nat
    BY <1>8
  <2>2. Prior(scope, << k, m, i >>, << k, m, j >>)
    BY <1>4, <2>1, PriorWithin
  <2> QED BY <1>8, <2>2
<1>10. ASSUME NEW x \in ToSet(f), NEW y \in ToSet(stmts)
       PROVE  Prior(scope, Key(decs, x), Key(decs, y))
  <2>1. PICK j \in 1 .. n : f[j] = x
    BY <1>7
  <2>2. CASE y \in Plans(decs, scope, k)
    <3>1. Element(k, m, j)[2] > 0
      BY DEF Element
    <3>2. x \in StoresAfter(decs, k, 0)
      BY <1>2, <1>3, <1>5, <1>8, <2>1, <3>1, StoresFacts
    <3>3. x \in Plan(decs, scope, k)
      BY <3>2 DEF Plan
    <3> QED BY <2>2, <3>3, PlansPriorAll
  <2>3. CASE y \in StoresAfter(decs, k, m)
    <3>1. PICK e \in ElementsIn(decs, k) : e[2] > m /\ Key(decs, y) = e
      BY <1>2, <2>3, StoresFacts
    <3>2. e[1] = k /\ e[2] \in Nat /\ e[3] \in Nat /\ e = << e[1], e[2], e[3] >>
      BY <1>2, ElementFacts
    <3> DEFINE b == e[2]
               i == e[3]
    <3>3. Key(decs, y) = << k, b, i >> /\ b \in Nat /\ i \in Nat /\ m < b /\ m # 0 /\ j \in Nat
      BY <1>4, <1>8, <3>1, <3>2
    <3> HIDE DEF b, i
    <3>4. Prior(scope, << k, m, j >>, << k, b, i >>)
      BY <1>4, <3>3, PriorWithin
    <3> QED BY <1>8, <2>1, <3>3, <3>4
  <2> QED BY <2>2, <2>3
<1>11. /\ IsList(prependInit(f)) /\ Ordered(decs, scope, prependInit(f))
       /\ ToSet(prependInit(f)) = ToSet(f) \cup ToSet(stmts)
  BY <1>7, <1>9, <1>10, Prepended
<1>12. StoresAfter(decs, k, m - 1) = ToSet(f) \cup StoresAfter(decs, k, m)
  <2>1. ASSUME NEW x \in StoresAfter(decs, k, m - 1) PROVE x \in ToSet(f) \/ x \in StoresAfter(decs, k, m)
    <3>1. PICK e \in ElementsIn(decs, k) : e[2] > m - 1 /\ x = StoreOf(decs, e)
      BY <1>2, StoresFacts
    <3>2. /\ e[1] = k /\ e[2] \in Nat /\ e[3] \in 1 .. decs[k].init.lit[e[2]].exprs
          /\ e = << e[1], e[2], e[3] >>
      BY <1>2, ElementFacts
    <3>3. e[2] > m \/ e[2] = m
      BY <1>4, <3>1, <3>2
    <3>4. CASE e[2] > m
      BY <1>2, <1>3, <3>1, <3>4, StoresFacts
    <3>5. CASE e[2] = m
      <4>1. e[3] \in 1 .. n /\ e = Element(k, m, e[3])
        BY <1>3, <3>2, <3>5 DEF Element
      <4>2. f[e[3]] = x
        BY <1>5, <3>1, <4>1
      <4> QED BY <1>7, <4>1, <4>2
    <3> QED BY <3>3, <3>4, <3>5
  <2>2. ASSUME NEW x \in ToSet(f) PROVE x \in StoresAfter(decs, k, m - 1)
    <3>1. PICK j \in 1 .. n : f[j] = x
      BY <1>7
    <3>2. Element(k, m, j)[2] > m - 1
      BY <1>4 DEF Element
    <3> QED BY <1>2, <1>3, <1>5, <1>8, <3>1, <3>2, StoresFacts
  <2>3. ASSUME NEW x \in StoresAfter(decs, k, m) PROVE x \in StoresAfter(decs, k, m - 1)
    <3>1. PICK e \in ElementsIn(decs, k) : e[2] > m /\ x = StoreOf(decs, e)
      BY <1>2, <2>3, StoresFacts
    <3>2. e[2] > m - 1
      BY <1>2, <1>4, <3>1, ElementFacts
    <3> QED BY <1>2, <1>3, <3>1, <3>2, StoresFacts
  <2> QED BY <2>1, <2>2, <2>3
<1>13. ToSet(prependInit(f)) = Plans(decs, scope, k) \cup StoresAfter(decs, k, m - 1)
  BY <1>11, <1>12
<1> QED BY <1>1, <1>11, <1>13

(* A node without expressions stands for no stores.                        *)
LEMMA RowWithout ==
  ASSUME NEW d \in Programs, NEW k \in DOMAIN d, NEW m \in 1 .. Len(d[k].init.lit),
         ~ (d[k].init.lit[m].exprs > 0)
  PROVE  StoresAfter(d, k, m - 1) = StoresAfter(d, k, m)
<1>1. \A e \in ElementsIn(d, k) : e[2] > m - 1 <=> e[2] > m
  <2> SUFFICES ASSUME NEW e \in ElementsIn(d, k) PROVE e[2] > m - 1 <=> e[2] > m
    OBVIOUS
  <2>1. /\ e[2] \in Nat /\ e[3] \in 1 .. d[k].init.lit[e[2]].exprs /\ e[2] \in DOMAIN d[k].init.lit
    BY ElementFacts
  <2>2. d[k].init.lit[e[2]].exprs \in Nat
    BY <2>1, DecFacts
  <2> DEFINE x == d[k].init.lit[e[2]].exprs
             b == e[2]
  <2>3. x > 0
    <3>1. x \in Nat /\ e[3] \in 1 .. x
      BY <2>1, <2>2
    <3> HIDE DEF x
    <3> QED BY <3>1
  <2>4. b # m /\ b \in Nat /\ m \in Int
    BY <2>1, <2>3
  <2> HIDE DEF b
  <2>5. b > m - 1 <=> b > m
    BY <2>4
  <2> QED BY <2>5 DEF b
<1> QED BY <1>1, StoresFacts DEF StoresAfter

-----------------------------------------------------------------------------
(***************************************************************************)
(* The statements that run are the ones that were generated.               *)
(***************************************************************************)
LEMMA LoweredFacts ==
  ASSUME NEW d, NEW s
  PROVE  /\ LoweredBy(d, s).do = s.do /\ Key(d, LoweredBy(d, s)) = Key(d, s)
         /\ s.do = "store" => /\ LoweredBy(d, s) = Store(s.dec, reduced(s.at, d[s.dec].dims), s.what)
                              /\ LoweredBy(d, s).what = s.what /\ LoweredBy(d, s).dec = s.dec
                              /\ LoweredBy(d, s).at = reduced(s.at, d[s.dec].dims)
         /\ s.do # "store" => LoweredBy(d, s) = s
<1>1. CASE s.do = "store"
  <2> DEFINE t == Store(s.dec, reduced(s.at, d[s.dec].dims), s.what)
  <2>1. LoweredBy(d, s) = t
    BY <1>1 DEF LoweredBy
  <2>2. t.do = "store" /\ t.dec = s.dec /\ t.what = s.what /\ t.at = reduced(s.at, d[s.dec].dims)
    BY Statements
  <2> HIDE DEF t
  <2>3. Key(d, t) = t.what /\ Key(d, s) = s.what
    BY <1>1, <2>2 DEF Key
  <2> QED BY <1>1, <2>1, <2>2, <2>3 DEF t
<1>2. CASE s.do # "store"
  BY <1>2 DEF LoweredBy
<1> QED BY <1>1, <1>2

LEMMA PlannedFacts ==
  ASSUME NEW d \in Programs, NEW sc \in {"local", "global"}, NEW s \in Planned(d, sc)
  PROVE  /\ Key(d, s) \in Triple
         /\ Evaluates(s) => Key(d, s) = s.what
<1>1. PICK x \in Everything(d, sc) : s = LoweredBy(d, x)
  BY DEF Planned
<1>2. Key(d, s) = Key(d, x)
  BY <1>1, LoweredFacts
<1>3. DOMAIN d = 1 .. Len(d) /\ Len(d) \in Nat
  <2>1. d \in Seq(Declaration)
    BY ProgramsAssumption
  <2> QED BY <2>1
<1>4. CASE x \in GlobalDims(d, sc, Len(d))
  <2>1. PICK k \in 1 .. Len(d) : x \in DimsPlan(d, k)
    BY <1>4 DEF GlobalDims
  <2>2. k \in DOMAIN d
    BY <1>3
  <2>3. PICK i \in 1 .. Len(d[k].dims) : x = Eval(Dimension(k, i))
    BY <2>1 DEF DimsPlan
  <2>4. k \in Nat /\ i \in Nat /\ Key(d, x) = << k, 0, i >>
    BY <1>3, <2>2, <2>3, DimKeys
  <2> QED BY <1>2, <2>4 DEF Triple, Evaluates, Key
<1>5. CASE x \in Plans(d, sc, 0)
  <2>1. PICK k \in 0 + 1 .. Len(d) : x \in Plan(d, sc, k)
    BY <1>5 DEF Plans
  <2>2. k \in DOMAIN d
    BY <1>3
  <2> QED BY <1>2, <2>1, <2>2, KeyFacts DEF Evaluates, Key
<1> QED BY <1>1, <1>4, <1>5 DEF Everything

LEMMA Deep ==
  ASSUME decs \in Programs, IsList(stmts), ToSet(stmts) = Everything(decs, scope), ~ MismatchedIndices
  PROVE  \A k \in Arrays : ~ Splat(k) =>
           \A n \in DOMAIN Lit(k) : Lit(k)[n].exprs > 0 => Len(Lit(k)[n].at) = Depth(k)
<1> SUFFICES ASSUME NEW k \in DOMAIN decs, ~ decs[k].init.splat,
                    NEW n \in DOMAIN decs[k].init.lit, decs[k].init.lit[n].exprs > 0
             PROVE  Len(decs[k].init.lit[n].at) = Depth(k)
  BY DEF Arrays, Splat, Lit
<1> DEFINE node == decs[k].init.lit[n]
           e    == Element(k, n, 1)
           s    == StoreOf(decs, e)
<1>1. 1 \in 1 .. node.exprs /\ node.at \in Seq(Nat) /\ Len(node.at) \in Nat \ {0}
  <2>1. /\ decs[k].init.lit \in Seq(Node) /\ Parsed(decs[k].init.lit) /\ node.exprs \in Nat
        /\ n \in 1 .. Len(decs[k].init.lit)
    BY DecFacts
  <2>2. node.at \in Seq(Nat) /\ Len(node.at) \in Nat \ {0}
    <3> DEFINE lit == decs[k].init.lit
    <3>1. lit \in Seq(Node) /\ Parsed(lit) /\ n \in 1 .. Len(lit) /\ node = lit[n]
      BY <2>1
    <3> HIDE DEF lit, node
    <3>2. lit[n].at \in Seq(Nat) /\ Len(lit[n].at) \in Nat \ {0}
      <4>1. NodeShape(lit, n)
        BY <3>1, NodeFacts
      <4> QED BY <4>1 DEF NodeShape
    <3> QED BY <3>1, <3>2
  <2> HIDE DEF node
  <2>3. node.exprs > 0 /\ node.exprs \in Nat
    BY <2>1 DEF node
  <2> DEFINE x == node.exprs
  <2>4. x > 0 /\ x \in Nat
    BY <2>3
  <2> HIDE DEF x
  <2>5. 1 \in 1 .. x
    BY <2>4
  <2> QED BY <2>2, <2>5 DEF x
<1>2. e \in ElementsIn(decs, k) /\ e[1] = k /\ e[2] = n /\ e[3] = 1
  BY <1>1, IsElement DEF Element
<1>3. n > 0
  BY <1>2, ElementFacts
<1>4. s \in StoresAfter(decs, k, 0)
  BY <1>2, <1>3, StoresFacts
<1>5. s \in Everything(decs, scope)
  <2>1. DOMAIN decs = 1 .. Len(decs) /\ Len(decs) \in Nat
    BY DecFacts
  <2>2. k \in 0 + 1 .. Len(decs)
    BY <2>1
  <2>3. s \in Plan(decs, scope, k)
    BY <1>4 DEF Plan
  <2> QED BY <2>2, <2>3 DEF Everything, Plans
<1>6. s.do = "store" /\ s.dec = k /\ s.at = Indices(node, 1)
  <2>1. s = Store(k, Indices(node, 1), e)
    BY <1>2 DEF StoreOf
  <2> HIDE DEF s, node, e
  <2> QED BY <2>1, Statements
<1> HIDE DEF s, e
<1>7. PICK j \in 1 .. Len(stmts) : stmts[j] = s
  BY <1>5, ListFacts
<1>8. j \in DOMAIN stmts
  BY ListFacts
<1>9. Len(s.at) = Depth(k)
  BY <1>6, <1>7, <1>8 DEF MismatchedIndices
<1>10. Len(Indices(node, 1)) = Len(node.at)
  <2> DEFINE a == node.at
  <2>1. a \in Seq(Nat) /\ Indices(node, 1) = [a EXCEPT ![Len(a)] = 0]
    BY <1>1 DEF Indices
  <2> HIDE DEF a
  <2>2. Len([a EXCEPT ![Len(a)] = 0]) = Len(a)
    BY <2>1
  <2> QED BY <2>1, <2>2 DEF a
<1> QED BY <1>6, <1>9, <1>10

LEMMA LoweredStmts ==
  ASSUME decs \in Programs, scope \in {"local", "global"}, IsList(stmts), Ordered(decs, scope, stmts),
         ToSet(stmts) = Everything(decs, scope)
  PROVE  LET st == [j \in DOMAIN stmts |-> Lowered(stmts[j])]
         IN  IsList(st) /\ Ordered(decs, scope, st) /\ ToSet(st) = Planned(decs, scope)
<1> DEFINE n  == Len(stmts)
           st == [j \in DOMAIN stmts |-> Lowered(stmts[j])]
<1>1. n \in Nat /\ DOMAIN stmts = 1 .. n /\ \A x : x \in ToSet(stmts) <=> \E i \in 1 .. n : stmts[i] = x
  BY ListFacts
<1>2. \A j \in 1 .. n : st[j] = LoweredBy(decs, stmts[j])
  BY <1>1 DEF Lowered, LoweredBy, Dims
<1>3. st = [j \in 1 .. n |-> st[j]]
  BY <1>1
<1> HIDE DEF st, n
<1>4. IsList(st) /\ Len(st) = n /\ \A x : x \in ToSet(st) <=> \E i \in 1 .. n : st[i] = x
  BY <1>1, <1>3, ListMade
<1>5. ToSet(st) = Planned(decs, scope)
  <2>1. \A x : x \in Planned(decs, scope) <=> \E y \in ToSet(stmts) : x = LoweredBy(decs, y)
    BY DEF Planned
  <2>2. \A x : x \in ToSet(st) <=> \E i \in 1 .. n : x = LoweredBy(decs, stmts[i])
    BY <1>2, <1>4
  <2>3. \A x : x \in Planned(decs, scope) <=> \E i \in 1 .. n : x = LoweredBy(decs, stmts[i])
    <3>1. ASSUME NEW x \in Planned(decs, scope) PROVE \E i \in 1 .. n : x = LoweredBy(decs, stmts[i])
      <4>1. PICK y \in ToSet(stmts) : x = LoweredBy(decs, y)
        BY <2>1
      <4>2. PICK i \in 1 .. n : stmts[i] = y
        BY <1>1
      <4> QED BY <4>1, <4>2
    <3>2. ASSUME NEW i \in 1 .. n PROVE LoweredBy(decs, stmts[i]) \in Planned(decs, scope)
      BY <1>1, <2>1
    <3> QED BY <3>1, <3>2
  <2> QED BY <2>2, <2>3
<1>6. Ordered(decs, scope, st)
  BY <1>1, <1>2, <1>4, LoweredFacts DEF Ordered, n
<1> QED BY <1>4, <1>5, <1>6 DEF st

LEMMA RunOne ==
  ASSUME decs \in Programs, scope \in {"local", "global"}, IsList(stmts), Ordered(decs, scope, stmts),
         stmts # <<>>, RunningInv,
         NEW ev, ev = IF Evaluates(Head(stmts)) THEN Append(evaluated, Head(stmts).what) ELSE evaluated
  PROVE  LET rest == Tail(stmts)
             gone == Planned(decs, scope) \ ToSet(rest)
         IN  /\ IsList(rest) /\ Ordered(decs, scope, rest) /\ ToSet(rest) \subseteq Planned(decs, scope)
             /\ gone = Gone \cup {Head(stmts)} /\ Head(stmts) \notin ToSet(rest)
             /\ \A s \in gone : \A t \in ToSet(rest) : Prior(scope, Key(decs, s), Key(decs, t))
             /\ IsList(ev) /\ ToSet(ev) = {s.what : s \in {x \in gone : Evaluates(x)}}
             /\ \A i, j \in 1 .. Len(ev) : i < j => Prior(scope, ev[i], ev[j])
<1> DEFINE rest == Tail(stmts)
           gone == Planned(decs, scope) \ ToSet(rest)
           h    == Head(stmts)
<1>1. IsList(rest) /\ h \in ToSet(stmts) /\ ToSet(stmts) = {h} \cup ToSet(rest)
  BY ListTail
<1>2. Ordered(decs, scope, rest) /\ \A y \in ToSet(rest) : Prior(scope, Key(decs, h), Key(decs, y))
  BY OrderedTail
<1>3. ToSet(stmts) \subseteq Planned(decs, scope) /\ h \in Planned(decs, scope)
  BY <1>1 DEF RunningInv
<1>4. h \notin ToSet(rest)
  BY <1>2, <1>3, PlannedFacts, NeverPrior
<1>5. gone = Gone \cup {h}
  BY <1>1, <1>3, <1>4 DEF Gone
<1>6. \A s \in gone : \A t \in ToSet(rest) : Prior(scope, Key(decs, s), Key(decs, t))
  BY <1>1, <1>2, <1>5 DEF RunningInv
<1>7. /\ IsList(evaluated) /\ ToSet(evaluated) = {s.what : s \in {x \in Gone : Evaluates(x)}}
      /\ \A i, j \in 1 .. Len(evaluated) : i < j => Prior(scope, evaluated[i], evaluated[j])
  BY DEF RunningInv
<1> HIDE DEF rest, gone, h
<1>8. CASE ~ Evaluates(h)
  <2>1. ev = evaluated
    BY <1>8 DEF h
  <2>2. ToSet(ev) = {s.what : s \in {x \in gone : Evaluates(x)}}
    BY <1>5, <1>7, <1>8, <2>1
  <2> QED BY <1>1, <1>2, <1>3, <1>4, <1>5, <1>6, <1>7, <2>1, <2>2 DEF rest, gone, h
<1>9. CASE Evaluates(h)
  <2> DEFINE n == Len(evaluated)
  <2>1. ev = Append(evaluated, h.what)
    BY <1>9 DEF h
  <2>2. /\ IsList(ev) /\ ToSet(ev) = ToSet(evaluated) \cup {h.what} /\ n \in Nat /\ Len(ev) = n + 1
        /\ \A i \in 1 .. n : ev[i] = evaluated[i]
        /\ ev[n + 1] = h.what
    BY <1>7, <2>1, ListAppend
  <2>3. ToSet(ev) = {s.what : s \in {x \in gone : Evaluates(x)}}
    BY <1>5, <1>7, <1>9, <2>2
  <2>4. ASSUME NEW e \in ToSet(evaluated) PROVE Prior(scope, e, h.what)
    <3>1. PICK s \in Gone : Evaluates(s) /\ e = s.what
      BY <1>7
    <3>2. Prior(scope, Key(decs, s), Key(decs, h))
      BY <1>1 DEF RunningInv
    <3>3. s \in Planned(decs, scope)
      BY DEF Gone
    <3> QED BY <1>3, <1>9, <3>1, <3>2, <3>3, PlannedFacts
  <2>5. ASSUME NEW i \in 1 .. Len(ev), NEW j \in 1 .. Len(ev), i < j PROVE Prior(scope, ev[i], ev[j])
    <3>1. i \in 1 .. n /\ (j \in 1 .. n \/ j = n + 1)
      <4> HIDE DEF n
      <4> QED BY <2>2, <2>5
    <3>2. evaluated[i] \in ToSet(evaluated)
      BY <1>7, <3>1, ListFacts
    <3>3. CASE j \in 1 .. n
      BY <1>7, <2>2, <2>5, <3>1, <3>3
    <3>4. CASE j = n + 1
      BY <2>2, <2>4, <3>1, <3>2, <3>4
    <3> QED BY <3>1, <3>3, <3>4
  <2> QED BY <1>1, <1>2, <1>3, <1>4, <1>5, <1>6, <2>2, <2>3, <2>5 DEF rest, gone, h
<1> QED BY <1>8, <1>9

-----------------------------------------------------------------------------
(***************************************************************************)
(* The steps keep the invariant.                                           *)
(***************************************************************************)
LEMMA OrderInitially == Init => OrderInv
<1> SUFFICES ASSUME Init PROVE OrderInv
  OBVIOUS
<1>1. decs \in Seq(Declaration)
  BY ProgramsAssumption DEF Init
<1>2. Len(decs) \in 0 .. Len(decs)
  BY <1>1
<1>3. IsList(<<>>) /\ Ordered(decs, scope, <<>>)
  BY ListOf, NoneOrdered
<1> QED BY <1>2, <1>3 DEF Init, OrderInv, Checking, NotRun

LEMMA Everywhere ==
  ASSUME NEW d \in Programs, NEW sc
  PROVE  /\ Len(d) \in Nat /\ DOMAIN d = 1 .. Len(d)
         /\ GlobalDims(d, sc, 0) = {} /\ Plans(d, sc, Len(d)) = {}
         /\ \A n : sc # "global" => GlobalDims(d, sc, n) = {}
<1>1. d \in Seq(Declaration)
  BY ProgramsAssumption
<1>2. Len(d) \in Nat /\ DOMAIN d = 1 .. Len(d)
  BY <1>1
<1>3. 1 .. 0 = {} /\ Len(d) + 1 .. Len(d) = {}
  <2> DEFINE n == Len(d)
  <2>1. n \in Nat
    BY <1>2
  <2> HIDE DEF n
  <2>2. 1 .. 0 = {} /\ n + 1 .. n = {}
    BY <2>1
  <2> QED BY <2>2 DEF n
<1> QED BY <1>2, <1>3 DEF GlobalDims, Plans

LEMMA CheckKeepsOrder ==
  ASSUME OrderInv, CheckArrDims \/ CheckArrDimsDone
  PROVE  OrderInv'
<1>1. decs' = decs /\ scope' = scope /\ left' = left /\ stmts' = stmts /\ extracted' = extracted
      /\ memory' = memory /\ evaluated' = evaluated /\ phase = "CheckArrDims"
      /\ phase' \in {"CheckArrDims", "ExtractIndices", "rejected"}
  BY DEF CheckArrDims, CheckArrDimsDone, OrderInv
<1>2. Checking
  BY <1>1 DEF OrderInv
<1>3. NotRun'
  BY <1>1, <1>2 DEF Checking, NotRun
<1>4. Checking'
  BY <1>1, <1>2, <1>3 DEF Checking
<1>5. Extracting'
  <2>1. decs \in Programs
    BY DEF OrderInv
  <2>2. Len(decs) - left = 0
    BY <1>2, <2>1, Everywhere DEF Checking
  <2>3. Extracted(0)
    BY <1>2, <2>1, ListOf, NoneOrdered, Everywhere DEF Checking, Extracted
  <2>4. Extracted(Len(decs) - left)'
    BY <1>1, <2>2, <2>3 DEF Extracted
  <2> QED BY <1>1, <1>2, <1>3, <2>4 DEF Extracting, Checking
<1>6. evaluated' = <<>>
  BY <1>3 DEF NotRun
<1> QED BY <1>1, <1>4, <1>5, <1>6 DEF OrderInv

LEMMA ExtractKeepsOrder ==
  ASSUME OrderInv, ExtractIndices \/ ExtractIndicesDone
  PROVE  OrderInv'
<1>1. decs' = decs /\ scope' = scope /\ stmts' = stmts /\ memory' = memory /\ evaluated' = evaluated
      /\ phase = "ExtractIndices"
  BY DEF ExtractIndices, ExtractIndicesDone
<1>2. Extracting /\ decs \in Programs /\ scope \in {"local", "global"} /\ left \in 0 .. Len(decs)
      /\ Len(decs) \in Nat /\ DOMAIN decs = 1 .. Len(decs)
  BY <1>1, Everywhere DEF OrderInv
<1>3. NotRun' /\ evaluated' = <<>>
  BY <1>1, <1>2 DEF Extracting, NotRun
<1>4. CASE ExtractIndices
  <2>1. left > 0 /\ left' = left - 1 /\ phase' = "ExtractIndices"
    BY <1>1, <1>4 DEF ExtractIndices
  <2>2. left' \in 0 .. Len(decs)
    BY <1>2, <2>1
  <2> DEFINE k == Len(decs) + 1 - left
  <2>3. k \in DOMAIN decs /\ k - 1 = Len(decs) - left /\ Len(decs) - left' = k
    BY <1>2, <2>1
  <2>4. Extracted(k - 1)
    BY <1>2, <2>3 DEF Extracting
  <2>5. extracted' = IF scope = "global" THEN mkGlobalDefExprs(k) \o extracted ELSE extracted
    BY <1>4 DEF ExtractIndices
  <2> HIDE DEF k
  <2>6. IsList(extracted') /\ Ordered(decs, scope, extracted') /\ ToSet(extracted') = GlobalDims(decs, scope, k)
    <3>1. CASE scope = "global"
      BY <1>2, <2>3, <2>4, <2>5, <3>1, ExtractOne
    <3>2. CASE scope # "global"
      <4>1. GlobalDims(decs, scope, k) = {} /\ GlobalDims(decs, scope, k - 1) = {}
        BY <1>2, <3>2, Everywhere
      <4> QED BY <2>4, <2>5, <3>2, <4>1 DEF Extracted
    <3> QED BY <3>1, <3>2
  <2>7. Extracted(Len(decs) - left)'
    BY <1>1, <2>3, <2>6 DEF Extracted
  <2>8. Extracting'
    BY <1>1, <1>2, <1>3, <2>7 DEF Extracting
  <2> QED BY <1>1, <1>3, <2>1, <2>2, <2>8 DEF OrderInv
<1>5. CASE ExtractIndicesDone
  <2>1. left = 0 /\ left' = Len(decs) /\ phase' = "InitVars" /\ extracted' = extracted
    BY <1>5 DEF ExtractIndicesDone
  <2>2. left' \in 0 .. Len(decs) /\ Len(decs) - left = Len(decs)
    BY <1>2, <2>1
  <2>3. Extracted(Len(decs))'
    BY <1>1, <1>2, <2>1, <2>2 DEF Extracting, Extracted
  <2>4. ToSet(stmts') = Plans(decs, scope, left')
    BY <1>1, <1>2, <2>1, ListOf, Everywhere DEF Extracting
  <2>5. Generating'
    BY <1>1, <1>3, <2>3, <2>4 DEF Generating
  <2> QED BY <1>1, <1>3, <2>1, <2>2, <2>5 DEF OrderInv
<1> QED BY <1>4, <1>5

LEMMA InitVarKeepsOrder ==
  ASSUME OrderInv, InitVar
  PROVE  OrderInv'
<1>1. /\ decs' = decs /\ scope' = scope /\ memory' = memory /\ evaluated' = evaluated
      /\ extracted' = extracted /\ phase = "InitVars" /\ left > 0
  BY DEF InitVar
<1>2. /\ Generating /\ decs \in Programs /\ scope \in {"local", "global"} /\ left \in 0 .. Len(decs)
      /\ Len(decs) \in Nat /\ DOMAIN decs = 1 .. Len(decs)
      /\ IsList(stmts) /\ Ordered(decs, scope, stmts)
  BY <1>1, Everywhere DEF OrderInv
<1>3. left \in 1 .. Len(decs) /\ left \in DOMAIN decs /\ left - 1 \in 0 .. Len(decs)
  BY <1>1, <1>2
<1>4. NotRun' /\ evaluated' = <<>> /\ Extracted(Len(decs))'
  BY <1>1, <1>2 DEF Generating, NotRun, Extracted
<1>5. CASE HasElements(left)
  <2>1. phase' = "Elements" /\ calls' = WithCall(Len(Lit(left)), <<>>, 0, <<>>) /\ left' = left /\ stmts' = stmts
    BY <1>5 DEF InitVar
  <2> DEFINE lit == Lit(left)
             n   == Len(lit)
  <2>2. lit = decs[left].init.lit /\ lit # <<>> /\ ~ decs[left].init.splat
    BY <1>5 DEF HasElements, Lit, Splat
  <2>3. lit \in Seq(Node) /\ Parsed(lit)
    BY <1>2, <1>3, <2>2, DecFacts
  <2>4. n \in Nat \ {0} /\ lit[n].first = 1 /\ lit[n].at = << 0 >>
    BY <2>2, <2>3 DEF Parsed
  <2>5. StoresAfter(decs, left, n) = {}
    BY <1>2, <1>3, <2>2, StoresFacts
  <2>6. Tiles(lit, calls', n)
    <3>1. lit[n].first - 1 = 0
      BY <2>4
    <3>2. Tiles(lit, <<>>, lit[n].first - 1)
      BY <3>1, ListOf DEF Tiles
    <3>3. n \in 1 .. Len(lit) /\ n # 0 /\ lit[n].at = Append(<<>>, 0) /\ <<>> \in Seq(Nat) /\ 0 \in Nat
      <4>1. Append(<<>>, 0) = << 0 >> /\ <<>> \in Seq(Nat)
        OBVIOUS
      <4> QED BY <2>4, <4>1
    <3>4. calls' = WithCall(n, <<>>, 0, <<>>)
      BY <2>1
    <3> HIDE DEF n, lit
    <3> DEFINE o == <<>>
    <3>5. o \in Seq(Nat) /\ Tiles(lit, o, lit[n].first - 1) /\ lit[n].at = Append(o, 0)
          /\ calls' = WithCall(n, o, 0, o)
      BY <3>2, <3>3, <3>4
    <3> HIDE DEF o
    <3>6. Tiles(lit, WithCall(n, o, 0, o), n)
      BY <2>3, <3>3, <3>5, WithCallTiles
    <3> QED BY <3>5, <3>6
  <2>7. /\ n \in 0 .. Len(Lit(left)) /\ ToSet(stmts) = Plans(decs, scope, left) \cup StoresAfter(decs, left, n)
    BY <1>2, <2>4, <2>5 DEF Generating
  <2>8. Lit(left)' = Lit(left) /\ HasElements(left)' /\ (left > 0)'
    BY <1>1, <1>5, <2>1 DEF Lit, HasElements, Dims, Splat
  <2> HIDE DEF n
  <2>9. Storing'
    BY <1>1, <1>4, <2>1, <2>6, <2>7, <2>8 DEF Storing
  <2> QED BY <1>1, <1>2, <1>4, <2>1, <2>9 DEF OrderInv
<1>6. CASE ~ HasElements(left)
  <2>1. phase' = "InitVars" /\ left' = left - 1 /\ stmts' = prependInit(InitOf(left))
    BY <1>1, <1>6 DEF InitVar
  <2>2. ToSet(stmts) = Plans(decs, scope, left) \cup StoresAfter(decs, left, 0)
    BY <1>2, <1>3, <1>6, NoStores DEF Generating
  <2>3. /\ IsList(stmts') /\ Ordered(decs, scope, stmts')
        /\ ToSet(stmts') = Plans(decs, scope, left - 1)
    BY <1>2, <1>3, <2>1, <2>2, InitOfPrepended
  <2>4. Generating'
    BY <1>1, <1>4, <2>1, <2>3 DEF Generating
  <2> QED BY <1>1, <1>2, <1>3, <1>4, <2>1, <2>3, <2>4 DEF OrderInv
<1> QED BY <1>5, <1>6

LEMMA IndividualKeepsOrder ==
  ASSUME OrderInv, genIndividualInit
  PROVE  OrderInv'
<1>1. /\ decs' = decs /\ scope' = scope /\ memory' = memory /\ evaluated' = evaluated /\ left' = left
      /\ extracted' = extracted /\ phase = "Elements" /\ phase' = "Elements" /\ calls # <<>>
  BY DEF genIndividualInit
<1>2. /\ Storing /\ decs \in Programs /\ scope \in {"local", "global"} /\ left \in 0 .. Len(decs)
      /\ Len(decs) \in Nat /\ DOMAIN decs = 1 .. Len(decs)
      /\ IsList(stmts) /\ Ordered(decs, scope, stmts)
  BY <1>1, Everywhere DEF OrderInv
<1>3. left \in 1 .. Len(decs) /\ left \in DOMAIN decs /\ HasElements(left)
  BY <1>2 DEF Storing
<1>4. NotRun' /\ evaluated' = <<>> /\ Extracted(Len(decs))'
  BY <1>1, <1>2 DEF Storing, NotRun, Extracted
<1>5. PICK m \in 0 .. Len(Lit(left)) :
        /\ Tiles(Lit(left), calls, m)
        /\ ToSet(stmts) = Plans(decs, scope, left) \cup StoresAfter(decs, left, m)
  BY <1>2 DEF Storing
<1> DEFINE lit == Lit(left)
           c   == Head(calls)
<1>6. lit = decs[left].init.lit /\ ~ decs[left].init.splat
  BY <1>3 DEF HasElements, Lit, Splat
<1>7. lit \in Seq(Node) /\ Parsed(lit) /\ Len(lit) \in Nat
  BY <1>2, <1>3, <1>6, DecFacts
<1>8. /\ c.node = m /\ m \in 1 .. Len(lit) /\ IsCall(lit, c)
      /\ lit[m].exprs > 0 => Tiles(lit, Tail(calls), m - 1)
      /\ Tiles(lit, RowsOf(c, Tail(calls)), m - 1)
  <2> SUFFICES ASSUME NEW l, l = Lit(left)
               PROVE  /\ c.node = m /\ m \in 1 .. Len(l) /\ IsCall(l, c)
                      /\ l[m].exprs > 0 => Tiles(l, Tail(calls), m - 1)
                      /\ Tiles(l, RowsOf(c, Tail(calls)), m - 1)
    OBVIOUS
  <2>1. l \in Seq(Node) /\ Parsed(l) /\ Tiles(l, calls, m)
    BY <1>5, <1>7
  <2>2. m \in 1 .. Len(l)
    BY <1>1, <2>1, TilesPop
  <2> QED BY <1>1, <2>1, <2>2, RowsTile
<1>9. Lit(left)' = Lit(left) /\ HasElements(left)' /\ (left > 0)'
  BY <1>1, <1>2, <1>3 DEF Lit, HasElements, Dims, Splat, Storing
<1>10. ASSUME Tiles(lit, calls', m - 1), IsList(stmts'), Ordered(decs, scope, stmts'),
              ToSet(stmts') = Plans(decs, scope, left) \cup StoresAfter(decs, left, m - 1)
       PROVE  OrderInv'
  <2>1. m - 1 \in 0 .. Len(lit)
    <3> DEFINE n == Len(lit)
    <3>1. n \in Nat /\ m \in 1 .. n
      BY <1>7, <1>8
    <3> HIDE DEF n
    <3>2. m - 1 \in 0 .. n
      BY <3>1
    <3> QED BY <3>2 DEF n
  <2> DEFINE p == m - 1
  <2>2. /\ p \in 0 .. Len(Lit(left)) /\ Tiles(Lit(left), calls', p)
        /\ ToSet(stmts') = Plans(decs, scope, left) \cup StoresAfter(decs, left, p)
    BY <1>10, <2>1
  <2> HIDE DEF p
  <2>3. Storing'
    BY <1>1, <1>4, <1>9, <2>2 DEF Storing
  <2> QED BY <1>1, <1>2, <1>4, <1>10, <2>3 DEF OrderInv
<1>11. CASE lit[m].exprs > 0
  <2>1. calls' = Tail(calls) /\ stmts' = prependInit(genIndividualInit1D(left, m, c.outer))
    BY <1>8, <1>11 DEF genIndividualInit
  <2>2. Tiles(lit, calls', m - 1)
    BY <1>8, <1>11, <2>1
  <2>3. /\ IsList(stmts') /\ Ordered(decs, scope, stmts')
        /\ ToSet(stmts') = Plans(decs, scope, left) \cup StoresAfter(decs, left, m - 1)
    BY <1>2, <1>3, <1>5, <1>8, <2>1, RowStored
  <2> QED BY <1>10, <2>2, <2>3
<1>12. CASE ~ (lit[m].exprs > 0)
  <2>1. calls' = RowsOf(c, Tail(calls)) /\ stmts' = stmts
    BY <1>8, <1>12 DEF genIndividualInit
  <2>2. Tiles(lit, calls', m - 1)
    BY <1>8, <2>1
  <2>3. StoresAfter(decs, left, m - 1) = StoresAfter(decs, left, m)
    BY <1>2, <1>3, <1>6, <1>8, <1>12, RowWithout
  <2> QED BY <1>2, <1>5, <1>10, <2>1, <2>2, <2>3
<1> QED BY <1>11, <1>12

LEMMA InitArrayKeepsOrder ==
  ASSUME OrderInv, InitArray
  PROVE  OrderInv'
<1>1. /\ decs' = decs /\ scope' = scope /\ memory' = memory /\ evaluated' = evaluated
      /\ extracted' = extracted /\ phase = "Elements" /\ calls = <<>> /\ phase' = "InitVars"
      /\ left' = left - 1 /\ stmts' = prependInit(InitOf(left))
  BY DEF InitArray
<1>2. /\ Storing /\ decs \in Programs /\ scope \in {"local", "global"} /\ left \in 0 .. Len(decs)
      /\ Len(decs) \in Nat /\ IsList(stmts) /\ Ordered(decs, scope, stmts)
  BY <1>1, Everywhere DEF OrderInv
<1>3. left \in 1 .. Len(decs) /\ left - 1 \in 0 .. Len(decs)
  BY <1>2 DEF Storing
<1>4. NotRun' /\ evaluated' = <<>> /\ Extracted(Len(decs))'
  BY <1>1, <1>2 DEF Storing, NotRun, Extracted
<1>5. ToSet(stmts) = Plans(decs, scope, left) \cup StoresAfter(decs, left, 0)
  BY <1>1, <1>2 DEF Storing, Tiles
<1>6. /\ IsList(stmts') /\ Ordered(decs, scope, stmts') /\ ToSet(stmts') = Plans(decs, scope, left - 1)
  BY <1>1, <1>2, <1>3, <1>5, InitOfPrepended
<1>7. Generating'
  BY <1>1, <1>4, <1>6 DEF Generating
<1> QED BY <1>1, <1>2, <1>3, <1>4, <1>6, <1>7 DEF OrderInv

LEMMA InitVarsDoneKeepsOrder ==
  ASSUME OrderInv, InitVarsDone
  PROVE  OrderInv'
<1>1. /\ decs' = decs /\ scope' = scope /\ memory' = memory /\ evaluated' = evaluated
      /\ left' = left /\ left = 0 /\ phase = "InitVars" /\ phase' = "ParamDims"
      /\ stmts' = prependInit(extracted)
  BY DEF InitVarsDone
<1>2. /\ Generating /\ decs \in Programs /\ scope \in {"local", "global"} /\ left \in 0 .. Len(decs)
      /\ IsList(stmts) /\ Ordered(decs, scope, stmts)
  BY <1>1 DEF OrderInv
<1>3. /\ IsList(extracted) /\ Ordered(decs, scope, extracted)
      /\ ToSet(extracted) = GlobalDims(decs, scope, Len(decs)) /\ ToSet(stmts) = Plans(decs, scope, 0)
  BY <1>1, <1>2 DEF Generating, Extracted
<1>4. \A x \in ToSet(extracted), y \in ToSet(stmts) : Prior(scope, Key(decs, x), Key(decs, y))
  BY <1>2, <1>3, ExtractedFirst
<1>5. /\ IsList(stmts') /\ Ordered(decs, scope, stmts') /\ ToSet(stmts') = ToSet(extracted) \cup ToSet(stmts)
  BY <1>1, <1>2, <1>3, <1>4, Prepended
<1>6. Generated' /\ evaluated' = <<>>
  BY <1>1, <1>2, <1>3, <1>5 DEF Generated, Generating, NotRun, Everything
<1> QED BY <1>1, <1>2, <1>5, <1>6 DEF OrderInv

LEMMA ParamDimsKeepsOrder ==
  ASSUME OrderInv, ParamDims
  PROVE  OrderInv'
<1>1. /\ decs' = decs /\ scope' = scope /\ memory' = memory /\ evaluated' = evaluated
      /\ left' = left /\ phase = "ParamDims"
  BY DEF ParamDims
<1>2. /\ Generated /\ decs \in Programs /\ scope \in {"local", "global"} /\ left \in 0 .. Len(decs)
      /\ IsList(stmts) /\ Ordered(decs, scope, stmts) /\ evaluated = <<>>
  BY <1>1 DEF OrderInv, Generated, NotRun
<1>3. CASE MismatchedIndices
  <2>1. phase' = "rejected" /\ stmts' = stmts
    BY <1>3 DEF ParamDims
  <2> QED BY <1>1, <1>2, <2>1 DEF OrderInv
<1>4. CASE ~ MismatchedIndices
  <2>1. phase' = "running" /\ stmts' = [j \in DOMAIN stmts |-> Lowered(stmts[j])]
    BY <1>4 DEF ParamDims
  <2>2. ToSet(stmts) = Everything(decs, scope)
    BY <1>2 DEF Generated
  <2>3. /\ IsList(stmts') /\ Ordered(decs, scope, stmts') /\ ToSet(stmts') = Planned(decs, scope)
    BY <1>2, <2>1, <2>2, LoweredStmts
  <2>4. Gone' = {}
    BY <1>1, <2>3 DEF Gone
  <2>5. OnlyDeepLiterals'
    <3>1. \A k \in Arrays : ~ Splat(k) =>
            \A n \in DOMAIN Lit(k) : Lit(k)[n].exprs > 0 => Len(Lit(k)[n].at) = Depth(k)
      BY <1>2, <1>4, <2>2, Deep
    <3> QED BY <1>1, <3>1 DEF OnlyDeepLiterals, Arrays, Splat, Lit, Depth, Dims
  <2>6. /\ IsList(evaluated') /\ ToSet(evaluated') = {} /\ Len(evaluated') = 0
    BY <1>1, <1>2, ListOf
  <2>7. RunningInv'
    <3>1. \A i, j \in 1 .. 0 : FALSE
      OBVIOUS
    <3>2. \A i, j \in 1 .. Len(evaluated') : i < j => Prior(scope', evaluated'[i], evaluated'[j])
      BY <2>6, <3>1
    <3> QED BY <1>1, <2>3, <2>4, <2>5, <2>6, <3>2 DEF RunningInv
  <2> QED BY <1>1, <1>2, <2>1, <2>3, <2>7 DEF OrderInv
<1> QED BY <1>3, <1>4

LEMMA RunKeepsOrder ==
  ASSUME OrderInv, RunEval \/ RunAlloc \/ RunStore \/ RunFill
  PROVE  OrderInv'
<1>1. /\ decs' = decs /\ scope' = scope /\ left' = left /\ phase = "running" /\ phase' = "running"
      /\ stmts # <<>> /\ stmts' = Tail(stmts)
  BY DEF RunEval, RunAlloc, RunStore, RunFill, Running
<1>2. evaluated' = IF Evaluates(Head(stmts)) THEN Append(evaluated, Head(stmts).what) ELSE evaluated
  BY DEF RunEval, RunAlloc, RunStore, RunFill, Running, Current, Evaluates
<1>3. /\ RunningInv /\ decs \in Programs /\ scope \in {"local", "global"} /\ left \in 0 .. Len(decs)
      /\ IsList(stmts) /\ Ordered(decs, scope, stmts)
  BY <1>1 DEF OrderInv
<1> DEFINE rest == Tail(stmts)
           gone == Planned(decs, scope) \ ToSet(rest)
<1>4. /\ IsList(rest) /\ Ordered(decs, scope, rest) /\ ToSet(rest) \subseteq Planned(decs, scope)
      /\ \A s \in gone : \A t \in ToSet(rest) : Prior(scope, Key(decs, s), Key(decs, t))
      /\ IsList(evaluated') /\ ToSet(evaluated') = {s.what : s \in {x \in gone : Evaluates(x)}}
      /\ \A i, j \in 1 .. Len(evaluated') : i < j => Prior(scope, evaluated'[i], evaluated'[j])
  <2> SUFFICES ASSUME NEW ev, ev = evaluated'
               PROVE  /\ IsList(rest) /\ Ordered(decs, scope, rest)
                      /\ ToSet(rest) \subseteq Planned(decs, scope)
                      /\ \A s \in gone : \A t \in ToSet(rest) : Prior(scope, Key(decs, s), Key(decs, t))
                      /\ IsList(ev) /\ ToSet(ev) = {s.what : s \in {x \in gone : Evaluates(x)}}
                      /\ \A i, j \in 1 .. Len(ev) : i < j => Prior(scope, ev[i], ev[j])
    OBVIOUS
  <2> QED BY <1>1, <1>2, <1>3, RunOne
<1>5. Gone' = gone
  BY <1>1 DEF Gone
<1>6. OnlyDeepLiterals'
  BY <1>1, <1>3 DEF RunningInv, OnlyDeepLiterals, Arrays, Splat, Lit, Depth, Dims
<1>7. RunningInv'
  BY <1>1, <1>4, <1>5, <1>6 DEF RunningInv
<1> QED BY <1>1, <1>3, <1>4, <1>7 DEF OrderInv

LEMMA StutterKeepsOrder ==
  ASSUME OrderInv, UNCHANGED vars
  PROVE  OrderInv'
BY DEF OrderInv, vars, Checking, Extracting, Generating, Storing, Generated, RunningInv, NotRun, Extracted,
       Gone, OnlyDeepLiterals, HasElements, Arrays, Splat, Lit, Depth, Dims

(* For all programs, what each pass has generated is what the text calls   *)
(* for from there on, in its order, whichever way the pass walks.          *)
THEOREM OrderInvHolds == Spec => []OrderInv
<1>1. Init => OrderInv
  BY OrderInitially
<1>2. OrderInv /\ [Next]_vars => OrderInv'
  BY CheckKeepsOrder, ExtractKeepsOrder, InitVarKeepsOrder, IndividualKeepsOrder, InitArrayKeepsOrder,
     InitVarsDoneKeepsOrder, ParamDimsKeepsOrder, RunKeepsOrder, StutterKeepsOrder
     DEF Next
<1> QED BY <1>1, <1>2, PTL DEF Spec

(* For all programs, only literals get through whose expressions are as    *)
(* deep as the array has dimensions.                                       *)
THEOREM OnlyDeepLiteralsPass == Spec => []OnlyDeepLiterals
<1>1. OrderInv => OnlyDeepLiterals
  BY DEF OrderInv, RunningInv, OnlyDeepLiterals
<1> QED BY <1>1, OrderInvHolds, PTL

(* What the text holds is what has been planned.                           *)
LEMMA ExpressionsPlanned ==
  ASSUME decs \in Programs, scope \in {"local", "global"}
  PROVE  Expressions = {s.what : s \in {x \in Planned(decs, scope) : Evaluates(x)}}
<1>1. Len(decs) \in Nat /\ DOMAIN decs = 1 .. Len(decs)
  BY Everywhere
<1>2. \A k \in DOMAIN decs : ElementsOf(k) = ElementsIn(decs, k)
  BY DEF ElementsOf, ElementsIn, Lit
<1>3. \A k \in DOMAIN decs : k \in 0 + 1 .. Len(decs)
  BY <1>1
<1>4. ASSUME NEW k \in DOMAIN decs, NEW e \in ElementsIn(decs, k)
      PROVE  \E s \in Planned(decs, scope) : Evaluates(s) /\ s.what = e
  <2>1. CASE decs[k].init.splat
    <3>1. decs[k].init.lit # <<>>
      <4>1. e[2] \in DOMAIN decs[k].init.lit
        BY ElementFacts
      <4>2. DOMAIN <<>> = {}
        OBVIOUS
      <4> QED BY <4>1, <4>2
    <3>2. HasSingle(decs, k)
      BY <2>1, <3>1 DEF HasSingle
    <3>3. e = Element(k, 1, 1)
      BY <3>2, SingleElement
    <3> DEFINE s == Eval(e)
    <3>4. s \in Plan(decs, scope, k)
      BY <3>2, <3>3 DEF Plan, HeadPlan, ArrayPlan, SinglePlan
    <3>5. s.do = "eval" /\ s.what = e
      BY Statements
    <3> HIDE DEF s
    <3>6. s \in Everything(decs, scope)
      BY <1>3, <3>4 DEF Everything, Plans
    <3>7. LoweredBy(decs, s) = s /\ LoweredBy(decs, s) \in Planned(decs, scope)
      BY <3>5, <3>6, LoweredFacts DEF Planned
    <3> QED BY <3>5, <3>7 DEF Evaluates
  <2>2. CASE ~ decs[k].init.splat
    <3> DEFINE s == StoreOf(decs, e)
    <3>1. e[2] > 0
      BY ElementFacts
    <3>2. s \in StoresAfter(decs, k, 0)
      BY <2>2, <3>1, StoresFacts
    <3>3. s.do = "store" /\ s.what = e
      BY Statements DEF StoreOf
    <3> HIDE DEF s
    <3>4. s \in Everything(decs, scope)
      BY <1>3, <3>2 DEF Everything, Plans, Plan
    <3>5. LoweredBy(decs, s) \in Planned(decs, scope)
      BY <3>4 DEF Planned
    <3>6. LoweredBy(decs, s).do = "store" /\ LoweredBy(decs, s).what = e
      BY <3>3, LoweredFacts
    <3> QED BY <3>5, <3>6 DEF Evaluates
  <2> QED BY <2>1, <2>2
<1>5. ASSUME NEW k \in DOMAIN decs, NEW i \in DOMAIN Dims(k)
      PROVE  \E s \in Planned(decs, scope) : Evaluates(s) /\ s.what = Dimension(k, i)
  <2> DEFINE s == Eval(Dimension(k, i))
  <2>1. i \in 1 .. Len(decs[k].dims)
    BY DecFacts DEF Dims
  <2>2. s \in DimsPlan(decs, k)
    BY <2>1 DEF DimsPlan
  <2>3. s.do = "eval" /\ s.what = Dimension(k, i)
    BY Statements
  <2> HIDE DEF s
  <2>4. s \in Everything(decs, scope)
    <3>1. CASE scope = "global"
      BY <1>1, <2>2, <3>1 DEF Everything, GlobalDims
    <3>2. CASE scope = "local"
      BY <1>3, <2>2, <3>2 DEF Everything, Plans, Plan, HeadPlan
    <3> QED BY <3>1, <3>2
  <2>5. LoweredBy(decs, s) = s /\ LoweredBy(decs, s) \in Planned(decs, scope)
    BY <2>3, <2>4, LoweredFacts DEF Planned
  <2> QED BY <2>3, <2>5 DEF Evaluates
<1>6. ASSUME NEW s \in Planned(decs, scope), Evaluates(s) PROVE s.what \in Expressions
  <2>1. PICK x \in Everything(decs, scope) : s = LoweredBy(decs, x)
    BY DEF Planned
  <2>2. s.what = x.what /\ (x.do = "eval" \/ x.do = "store")
    BY <1>6, <2>1, LoweredFacts DEF Evaluates
  <2>3. \E k \in DOMAIN decs : x \in DimsPlan(decs, k) \/ x \in Plan(decs, scope, k)
    <3>1. CASE x \in GlobalDims(decs, scope, Len(decs))
      BY <1>1, <3>1 DEF GlobalDims
    <3>2. CASE x \in Plans(decs, scope, 0)
      <4>1. PICK k \in 0 + 1 .. Len(decs) : x \in Plan(decs, scope, k)
        BY <3>2 DEF Plans
      <4>2. k \in DOMAIN decs
        BY <1>1
      <4> QED BY <4>1, <4>2
    <3> QED BY <2>1, <3>1, <3>2 DEF Everything
  <2>4. PICK k \in DOMAIN decs : x \in DimsPlan(decs, k) \/ x \in Plan(decs, scope, k)
    BY <2>3
  <2>5. ASSUME NEW i \in 1 .. Len(decs[k].dims), x = Eval(Dimension(k, i)) PROVE s.what \in Expressions
    <3>1. i \in DOMAIN Dims(k)
      BY DecFacts DEF Dims
    <3>2. s.what = Dimension(k, i)
      BY <2>2, <2>5, Statements
    <3> QED BY <3>1, <3>2 DEF Expressions
  <2>6. ASSUME NEW e \in ElementsIn(decs, k), x.what = e PROVE s.what \in Expressions
    BY <1>2, <2>2, <2>6 DEF Expressions
  <2>7. CASE x \in DimsPlan(decs, k)
    BY <2>5, <2>7 DEF DimsPlan
  <2>8. CASE x \in Plan(decs, scope, k)
    <3>1. CASE x = Alloc(k) \/ x = Fill(k, Element(k, 1, 1))
      BY <2>2, <3>1, Statements
    <3>2. CASE HasSingle(decs, k) /\ x = Eval(Element(k, 1, 1))
      <4>1. Element(k, 1, 1) \in ElementsIn(decs, k)
        BY <3>2, SingleElement
      <4>2. x.what = Element(k, 1, 1)
        BY <3>2, Statements
      <4> QED BY <2>6, <4>1, <4>2
    <3>3. CASE \E e \in ElementsIn(decs, k) : x = StoreOf(decs, e)
      <4>1. PICK e \in ElementsIn(decs, k) : x = StoreOf(decs, e)
        BY <3>3
      <4>2. x.what = e
        BY <4>1, Statements DEF StoreOf
      <4> QED BY <2>6, <4>2
    <3> QED BY <2>5, <2>8, <3>1, <3>2, <3>3, PlanCases
  <2> QED BY <2>4, <2>7, <2>8
<1>7. ASSUME NEW e \in Expressions
      PROVE  \E s \in Planned(decs, scope) : Evaluates(s) /\ s.what = e
  <2>1. PICK k \in DOMAIN decs : e \in ElementsOf(k) \/ e \in {Dimension(k, d) : d \in DOMAIN Dims(k)}
    BY DEF Expressions
  <2> QED BY <1>2, <1>4, <1>5, <2>1
<1> QED BY <1>6, <1>7

(* For all programs, the initializers of locals are evaluated in the order *)
(* of the text and the dimensions of globals before all values, each once, *)
(* and none is forgotten.                                                  *)
THEOREM InitializersInOrder == Spec => []EvaluatedInOrder
<1>1. ASSUME OrderInv PROVE EvaluatedInOrder
  <2>1. CASE phase # "running"
    <3>1. evaluated = <<>> /\ DOMAIN evaluated = {}
      BY <1>1, <2>1 DEF OrderInv
    <3> QED BY <2>1, <3>1 DEF EvaluatedInOrder, Done
  <2>2. CASE phase = "running"
    <3>1. RunningInv /\ decs \in Programs /\ scope \in {"local", "global"}
      BY <1>1, <2>2 DEF OrderInv
    <3>2. DOMAIN evaluated = 1 .. Len(evaluated)
      BY <3>1, ListFacts DEF RunningInv
    <3>3. \A i, j \in DOMAIN evaluated : i < j => Before(evaluated[i], evaluated[j])
      BY <3>1, <3>2, BeforeIsPrior DEF RunningInv
    <3>4. stmts = <<>> => ToSet(evaluated) = Expressions
      <4> SUFFICES ASSUME stmts = <<>> PROVE ToSet(evaluated) = Expressions
        OBVIOUS
      <4>1. Gone = Planned(decs, scope)
        BY ListOf DEF Gone
      <4> QED BY <3>1, <4>1, ExpressionsPlanned DEF RunningInv
    <3> QED BY <3>3, <3>4 DEF EvaluatedInOrder, Done
  <2> QED BY <2>1, <2>2
<1> QED BY <1>1, OrderInvHolds, PTL

-----------------------------------------------------------------------------
(***************************************************************************)
(* The places of the elements of an array of one or two dimensions.        *)
(***************************************************************************)
LEMMA OneOrTwo ==
  ASSUME NEW dims \in Seq(Nat), dims # <<>>, Len(dims) <= 2
  PROVE  (\E n \in Nat : dims = <<n>>) \/ (\E m, n \in Nat : dims = <<m, n>>)
<1>1. Len(dims) = 1 \/ Len(dims) = 2
  <2>1. Len(dims) \in Nat /\ Len(dims) # 0
    BY EmptySeq
  <2> DEFINE n == Len(dims)
  <2>2. n \in Nat /\ n # 0 /\ n <= 2
    BY <2>1
  <2> HIDE DEF n
  <2>3. n = 1 \/ n = 2
    BY <2>2
  <2> QED BY <2>3 DEF n
<1>2. CASE Len(dims) = 1
  <2>1. dims[1] \in Nat /\ dims = << dims[1] >>
    BY <1>2
  <2> QED BY <2>1
<1>3. CASE Len(dims) = 2
  <2>1. 1 \in 1 .. Len(dims) /\ 2 \in 1 .. Len(dims)
    BY <1>3
  <2>2. dims[1] \in Nat /\ dims[2] \in Nat
    BY <2>1, ElementOfSeq
  <2> DEFINE m == dims[1]
             n == dims[2]
             t == << m, n >>
  <2>3. t \in Seq(Nat) /\ Len(t) = 2 /\ t[1] = m /\ t[2] = n
    BY <2>2
  <2> HIDE DEF t
  <2>4. \A i \in 1 .. Len(dims) : dims[i] = t[i]
    <3>1. \A i \in 1 .. 2 : i = 1 \/ i = 2
      OBVIOUS
    <3> QED BY <1>3, <2>3, <3>1
  <2>5. dims = t
    BY <1>3, <2>3, <2>4, SeqEqual
  <2> QED BY <2>2, <2>5 DEF t
<1> QED BY <1>1, <1>2, <1>3

LEMMA Places ==
  ASSUME NEW dims \in Seq(Nat), dims # <<>>, Len(dims) <= 2
  PROVE  /\ Apart(dims) /\ sizeexprs(dims) \in Nat
         /\ \A at \in Box(dims) : reduced(at, dims) \in 0 .. sizeexprs(dims) - 1
         /\ \A at, to \in Box(dims) : reduced(at, dims) = reduced(to, dims) => at = to
         /\ \A at : at \in [DOMAIN dims -> Nat] /\ (\A d \in DOMAIN dims : at[d] < dims[d]) => at \in Box(dims)
<1>1. ASSUME NEW n \in Nat, dims = << n >>
      PROVE  /\ Apart(dims) /\ sizeexprs(dims) \in Nat
             /\ \A at \in Box(dims) : reduced(at, dims) \in Nat
             /\ \A at : at \in [DOMAIN dims -> Nat] /\ (\A d \in DOMAIN dims : at[d] < dims[d]) => at \in Box(dims)
  <2>1. Tail(<< n >>) = << >> /\ DOMAIN << n >> = 1 .. 1 /\ << n >>[1] = n
    OBVIOUS
  <2>2. sizeexprs(<< n >>) = n
    BY SizeOfOne
  <2>3. ASSUME NEW at \in Box(<< n >>) PROVE reduced(at, << n >>) \in Nat
    <3>1. reduced(at, << n >>) = at[1]
      BY <2>1, IndexOfNone DEF reduced
    <3>2. at \in [1 .. 1 -> 0 .. n]
      BY <2>1, <2>2 DEF Box
    <3> QED BY <3>1, <3>2
  <2>4. ASSUME NEW at \in [1 .. 1 -> Nat], \A d \in 1 .. 1 : at[d] < << n >>[d] PROVE at \in Box(<< n >>)
    <3>1. at[1] < n
      BY <2>1, <2>4
    <3>2. at \in [1 .. 1 -> 0 .. n]
      BY <3>1
    <3> QED BY <2>1, <2>2, <2>4, <3>2 DEF Box
  <2>5. Apart(<< n >>)
    BY VectorElementsApart
  <2> QED BY <1>1, <2>1, <2>2, <2>3, <2>4, <2>5
<1>2. ASSUME NEW m \in Nat, NEW n \in Nat, dims = << m, n >>
      PROVE  /\ Apart(dims) /\ sizeexprs(dims) \in Nat
             /\ \A at \in Box(dims) : reduced(at, dims) \in Nat
             /\ \A at : at \in [DOMAIN dims -> Nat] /\ (\A d \in DOMAIN dims : at[d] < dims[d]) => at \in Box(dims)
  <2>1. /\ Tail(<< m, n >>) = << n >> /\ DOMAIN << m, n >> = 1 .. 2
        /\ << m, n >>[1] = m /\ << m, n >>[2] = n
    OBVIOUS
  <2>2. sizeexprs(<< m, n >>) = m * n /\ m * n \in Nat
    BY SizeOfTwo
  <2>3. ASSUME NEW at \in Box(<< m, n >>) PROVE reduced(at, << m, n >>) \in Nat
    <3>1. reduced(at, << m, n >>) = at[1] * n + at[2]
      BY <2>1, IndexOfOne DEF reduced
    <3>2. at \in [1 .. 2 -> 0 .. m * n]
      BY <2>1, <2>2 DEF Box
    <3>3. at[1] \in Nat /\ at[2] \in Nat
      <4> DEFINE s == m * n
      <4>1. at \in [1 .. 2 -> 0 .. s]
        BY <3>2
      <4> HIDE DEF s
      <4> QED BY <4>1
    <3> DEFINE a == at[1]
               b == at[2]
    <3>4. a \in Nat /\ b \in Nat
      BY <3>3
    <3> HIDE DEF a, b
    <3>5. a * n + b \in Nat
      BY <3>4
    <3> QED BY <3>1, <3>5 DEF a, b
  <2>4. ASSUME NEW at \in [1 .. 2 -> Nat], \A d \in 1 .. 2 : at[d] < << m, n >>[d] PROVE at \in Box(<< m, n >>)
    <3>1. at[1] \in Nat /\ at[2] \in Nat /\ at[1] < m /\ at[2] < n
      BY <2>1, <2>4
    <3> DEFINE a == at[1]
               b == at[2]
               s == m * n
    <3>2. a \in 0 .. s /\ b \in 0 .. s
      <4>1. a \in Nat /\ b \in Nat /\ a < m /\ b < n
        BY <3>1
      <4> HIDE DEF a, b
      <4>2. m <= m * n /\ n <= m * n
        <5>1. \E q \in Nat : m = q + 1
          <6>1. m - 1 \in Nat /\ m = (m - 1) + 1
            BY <4>1
          <6> QED BY <6>1
        <5>2. \E q \in Nat : n = q + 1
          <6>1. n - 1 \in Nat /\ n = (n - 1) + 1
            BY <4>1
          <6> QED BY <6>1
        <5>3. PICK p \in Nat : m = p + 1
          BY <5>1
        <5>4. PICK q \in Nat : n = q + 1
          BY <5>2
        <5>5. (p + 1) * (q + 1) = p * q + p + q + 1 /\ p * q \in Nat
          BY SMT
        <5> DEFINE pq == p * q
        <5>6. m * n = pq + p + q + 1 /\ pq \in Nat
          BY <5>3, <5>4, <5>5
        <5> HIDE DEF pq
        <5> QED BY <5>3, <5>4, <5>6
      <4>3. s \in Nat /\ m <= s /\ n <= s
        BY <2>2, <4>2
      <4> HIDE DEF s
      <4>4. a \in 0 .. s /\ b \in 0 .. s
        BY <4>1, <4>3
      <4> QED BY <4>4
    <3>3. at \in [1 .. 2 -> 0 .. s]
      <4>1. \A d \in 1 .. 2 : d = 1 \/ d = 2
        OBVIOUS
      <4>2. \A d \in 1 .. 2 : at[d] \in 0 .. s
        BY <3>2, <4>1
      <4> HIDE DEF s
      <4> QED BY <4>2
    <3> QED BY <2>1, <2>2, <2>4, <3>3 DEF Box
  <2>5. Apart(<< m, n >>)
    BY MatrixElementsApart
  <2> QED BY <1>2, <2>1, <2>2, <2>3, <2>4, <2>5
<1>3. /\ Apart(dims) /\ sizeexprs(dims) \in Nat
      /\ \A at \in Box(dims) : reduced(at, dims) \in Nat
      /\ \A at : at \in [DOMAIN dims -> Nat] /\ (\A d \in DOMAIN dims : at[d] < dims[d]) => at \in Box(dims)
  BY <1>1, <1>2, OneOrTwo
<1>4. \A at, to \in Box(dims) : reduced(at, dims) < sizeexprs(dims) /\ (reduced(at, dims) = reduced(to, dims) => at = to)
  BY <1>3 DEF Apart
<1>5. \A at \in Box(dims) : reduced(at, dims) \in 0 .. sizeexprs(dims) - 1
  <2> SUFFICES ASSUME NEW at \in Box(dims) PROVE reduced(at, dims) \in 0 .. sizeexprs(dims) - 1
    OBVIOUS
  <2> DEFINE r == reduced(at, dims)
             s == sizeexprs(dims)
  <2>1. r \in Nat /\ s \in Nat /\ r < s
    BY <1>3, <1>4
  <2> HIDE DEF r, s
  <2>2. r \in 0 .. s - 1
    BY <2>1
  <2> QED BY <2>2 DEF r, s
<1> QED BY <1>3, <1>4, <1>5

(* The element at the end of a literal that fits stands inside.            *)
LEMMA IndicesInside ==
  ASSUME NEW d \in Programs, NEW k \in DOMAIN d, ~ d[k].init.splat, Len(d[k].dims) <= 2,
         NEW e \in ElementsIn(d, k), Len(d[k].init.lit[e[2]].at) = Len(d[k].dims)
  PROVE  Indices(d[k].init.lit[e[2]], e[3]) \in Box(d[k].dims)
<1> DEFINE dims == d[k].dims
           lit  == d[k].init.lit
           node == lit[e[2]]
           a    == node.at
           j    == e[3]
           x    == Indices(node, j)
<1>1. /\ dims \in Seq(Nat) /\ dims # <<>> /\ lit \in Seq(Node) /\ Parsed(lit) /\ Fits(d[k])
      /\ DOMAIN lit = 1 .. Len(lit)
  BY DecFacts
<1>2. e[2] \in DOMAIN lit /\ j \in 1 .. node.exprs /\ j \in Nat /\ j > 0
  BY ElementFacts
<1>3. a \in Seq(Nat) /\ Len(a) \in Nat \ {0}
  <2> DEFINE n == e[2]
  <2>1. n \in 1 .. Len(lit)
    BY <1>1, <1>2
  <2>2. a = lit[n].at
    OBVIOUS
  <2> HIDE DEF n, lit, a
  <2>3. lit[n].at \in Seq(Nat) /\ Len(lit[n].at) \in Nat \ {0}
    <3>1. NodeShape(lit, n)
      BY <1>1, <2>1, NodeFacts
    <3> QED BY <3>1 DEF NodeShape
  <2> QED BY <2>2, <2>3
<1>4. Len(a) = Len(dims)
  OBVIOUS
<1>5. x = [a EXCEPT ![Len(a)] = j - 1]
  BY DEF Indices
<1>6. \A i \in DOMAIN dims : x[i] < dims[i]
  BY <1>1, <1>2, <1>4 DEF Fits
<1> HIDE DEF x, a, j, dims
<1>7. x \in [DOMAIN dims -> Nat]
  <2>1. DOMAIN a = 1 .. Len(a) /\ DOMAIN dims = 1 .. Len(dims) /\ a \in [1 .. Len(a) -> Nat]
    BY <1>1, <1>3
  <2>2. j - 1 \in Nat
    BY <1>2
  <2> QED BY <1>4, <1>5, <2>1, <2>2
<1>8. x \in Box(dims)
  BY <1>1, <1>6, <1>7, Places DEF dims
<1> QED BY <1>8 DEF x, dims, a, j

-----------------------------------------------------------------------------
(***************************************************************************)
(* The statements that write the elements.                                 *)
(***************************************************************************)
LEMMA WriterFacts ==
  ASSUME NEW d \in Programs, NEW sc \in {"local", "global"}, NEW k \in DOMAIN d, d[k].dims # <<>>,
         NEW e \in ElementsIn(d, k)
  PROVE  /\ Writer(d, k, e).do \in {"store", "fill"} /\ Writer(d, k, e).dec = k /\ Writer(d, k, e).what = e
         /\ Writer(d, k, e) \in Planned(d, sc) /\ Alloc(k) \in Planned(d, sc)
         /\ Prior(sc, Key(d, Alloc(k)), Key(d, Writer(d, k, e)))
<1>1. k \in 0 + 1 .. Len(d)
  BY Everywhere
<1>2. Alloc(k) \in Planned(d, sc)
  <2> DEFINE s == Alloc(k)
  <2>1. s \in Plan(d, sc, k)
    BY DEF Plan, HeadPlan, ArrayPlan
  <2>2. s.do = "alloc"
    BY Statements
  <2> HIDE DEF s
  <2>3. s \in Everything(d, sc)
    BY <1>1, <2>1 DEF Everything, Plans
  <2>4. LoweredBy(d, s) = s
    BY <2>2, LoweredFacts
  <2>5. s \in Planned(d, sc)
    BY <2>3, <2>4 DEF Planned
  <2> QED BY <2>5 DEF s
<1>3. CASE d[k].init.splat
  <2>1. HasSingle(d, k)
    <3>1. e[2] \in DOMAIN d[k].init.lit
      BY ElementFacts
    <3>2. DOMAIN <<>> = {}
      OBVIOUS
    <3> QED BY <1>3, <3>1, <3>2 DEF HasSingle
  <2>2. e = Element(k, 1, 1)
    BY <2>1, SingleElement
  <2> DEFINE s == Fill(k, e)
  <2>3. Writer(d, k, e) = s
    BY <1>3 DEF Writer
  <2>4. s \in Plan(d, sc, k)
    BY <2>1, <2>2 DEF Plan, HeadPlan, ArrayPlan, SinglePlan
  <2>5. s.do = "fill" /\ s.dec = k /\ s.what = e /\ Key(d, s) = << k, 1, 3 >>
    BY Statements
  <2>6. Key(d, Alloc(k)) = << k, 1, 2 >>
    <3>1. Key(d, Alloc(k)) = << k, 1, IF HasSingle(d, k) THEN 2 ELSE 0 >>
      BY Statements
    <3> QED BY <2>1, <3>1
  <2> HIDE DEF s
  <2>7. s \in Everything(d, sc)
    BY <1>1, <2>4 DEF Everything, Plans
  <2>8. LoweredBy(d, s) = s
    BY <2>5, LoweredFacts
  <2>9. s \in Planned(d, sc)
    BY <2>7, <2>8 DEF Planned
  <2>10. Prior(sc, << k, 1, 2 >>, << k, 1, 3 >>)
    BY PriorInLiteral
  <2> QED BY <1>2, <2>3, <2>5, <2>6, <2>9, <2>10
<1>4. CASE ~ d[k].init.splat
  <2> DEFINE s == StoreOf(d, e)
             t == LoweredBy(d, s)
  <2>1. /\ e[1] = k /\ e[2] \in Nat /\ e[2] > 0 /\ e[3] \in Nat /\ e[3] > 0 /\ e = << e[1], e[2], e[3] >>
    BY ElementFacts
  <2>2. s \in StoresAfter(d, k, 0)
    BY <1>4, <2>1, StoresFacts
  <2>3. /\ s.do = "store" /\ s.what = e /\ s.dec = k /\ s.at = Indices(d[k].init.lit[e[2]], e[3])
        /\ Key(d, s) = e
    BY <2>1, Statements DEF StoreOf
  <2>4. t = Store(k, reduced(s.at, d[k].dims), e)
    BY <2>3, LoweredFacts
  <2>5. Writer(d, k, e) = t
    BY <1>4, <2>3, <2>4 DEF Writer
  <2> HIDE DEF s
  <2>6. s \in Everything(d, sc)
    BY <1>1, <2>2 DEF Everything, Plans, Plan
  <2>7. t \in Planned(d, sc)
    BY <2>6 DEF Planned
  <2>8. t.do = "store" /\ t.dec = k /\ t.what = e /\ Key(d, t) = e
    BY <2>3, LoweredFacts
  <2>9. s \in StoresAfter(d, k, 0) /\ Alloc(k) \in HeadPlan(d, sc, k)
    BY <2>2 DEF HeadPlan, ArrayPlan
  <2>10. Prior(sc, Key(d, Alloc(k)), e)
    BY <2>3, <2>9, HeadPrior
  <2> HIDE DEF t
  <2> QED BY <1>2, <2>5, <2>7, <2>8, <2>10
<1> QED BY <1>3, <1>4

LEMMA PlannedCases ==
  ASSUME NEW d \in Programs, NEW sc \in {"local", "global"}, NEW s \in Planned(d, sc)
  PROVE  /\ s.do = "alloc" => \E k \in DOMAIN d : d[k].dims # <<>> /\ s = Alloc(k)
         /\ s.do \in {"store", "fill"} =>
              \E k \in DOMAIN d : \E e \in ElementsIn(d, k) :
                d[k].dims # <<>> /\ s = Writer(d, k, e) /\ (s.do = "store" <=> ~ d[k].init.splat)
<1>1. PICK x \in Everything(d, sc) : s = LoweredBy(d, x)
  BY DEF Planned
<1>2. DOMAIN d = 1 .. Len(d) /\ Len(d) \in Nat
  BY Everywhere
<1>3. CASE x \in GlobalDims(d, sc, Len(d))
  <2>1. \E k \in 1 .. Len(d) : x \in DimsPlan(d, k)
    BY <1>3 DEF GlobalDims
  <2>2. x.do = "eval"
    BY <2>1, Statements DEF DimsPlan
  <2>3. s.do = "eval"
    BY <1>1, <2>2, LoweredFacts
  <2> QED BY <2>3
<1>4. CASE x \in Plans(d, sc, 0)
  <2>1. PICK k \in 0 + 1 .. Len(d) : x \in Plan(d, sc, k)
    BY <1>4 DEF Plans
  <2>2. k \in DOMAIN d
    BY <1>2
  <2>3. CASE (\E i \in 1 .. Len(d[k].dims) : x = Eval(Dimension(k, i))) \/ x = Eval(Element(k, 1, 1))
    <3>1. x.do = "eval"
      BY <2>3, Statements
    <3>2. s.do = "eval"
      BY <1>1, <3>1, LoweredFacts
    <3> QED BY <3>2
  <2>4. CASE d[k].dims # <<>> /\ x = Alloc(k)
    <3>1. x.do = "alloc"
      BY <2>4, Statements
    <3>2. s = x /\ s.do = "alloc"
      BY <1>1, <3>1, LoweredFacts
    <3> QED BY <2>2, <2>4, <3>2
  <2>5. CASE HasSingle(d, k) /\ d[k].dims # <<>> /\ x = Fill(k, Element(k, 1, 1))
    <3>1. x.do = "fill"
      BY <2>5, Statements
    <3>2. s = x /\ s.do = "fill"
      BY <1>1, <3>1, LoweredFacts
    <3>3. Element(k, 1, 1) \in ElementsIn(d, k)
      BY <2>2, <2>5, SingleElement
    <3>4. s = Writer(d, k, Element(k, 1, 1)) /\ d[k].init.splat
      BY <2>5, <3>2 DEF Writer, HasSingle
    <3> QED BY <2>2, <2>5, <3>2, <3>3, <3>4
  <2>6. CASE ~ d[k].init.splat /\ \E e \in ElementsIn(d, k) : x = StoreOf(d, e)
    <3>1. PICK e \in ElementsIn(d, k) : x = StoreOf(d, e)
      BY <2>6
    <3>2. e[1] = k
      BY <2>2, ElementFacts
    <3>3. x.do = "store" /\ x.what = e /\ x.dec = k /\ x.at = Indices(d[k].init.lit[e[2]], e[3])
      BY <3>1, <3>2, Statements DEF StoreOf
    <3>4. s = Store(k, reduced(x.at, d[k].dims), e) /\ s.do = "store"
      BY <1>1, <3>3, LoweredFacts
    <3>5. s = Writer(d, k, e)
      BY <2>6, <3>3, <3>4 DEF Writer
    <3>6. d[k].dims # <<>>
      BY <2>2, <2>6, DecFacts
    <3> QED BY <2>2, <2>6, <3>4, <3>5, <3>6
  <2> QED BY <2>1, <2>2, <2>3, <2>4, <2>5, <2>6, PlanCases
<1> QED BY <1>3, <1>4 DEF Everything

LEMMA GivenOne ==
  ASSUME NEW d \in Programs, NEW k \in DOMAIN d, NEW at, NEW e \in GivenIn(d, k, at),
         NEW f \in GivenIn(d, k, at)
  PROVE  e = f
<1>1. e \in ElementsIn(d, k) /\ f \in ElementsIn(d, k)
  BY DEF GivenIn
<1>2. CASE d[k].init.splat
  <2>1. HasSingle(d, k)
    <3>1. e[2] \in DOMAIN d[k].init.lit
      BY <1>1, ElementFacts
    <3>2. DOMAIN <<>> = {}
      OBVIOUS
    <3> QED BY <1>2, <3>1, <3>2 DEF HasSingle
  <2> QED BY <1>1, <2>1, SingleElement
<1>3. CASE ~ d[k].init.splat
  <2> DEFINE lit == d[k].init.lit
             l == e[2]
             m == f[2]
             i == e[3]
             j == f[3]
  <2>1. lit \in Seq(Node) /\ Parsed(lit) /\ DOMAIN lit = 1 .. Len(lit)
    BY <1>3, DecFacts
  <2>2. /\ l \in DOMAIN lit /\ i \in 1 .. lit[l].exprs /\ e = << k, l, i >>
    BY <1>1, ElementFacts
  <2>3. /\ m \in DOMAIN lit /\ j \in 1 .. lit[m].exprs /\ f = << k, m, j >>
    BY <1>1, ElementFacts
  <2>4. Indices(lit[l], i) = Indices(lit[m], j)
    BY <1>3 DEF GivenIn
  <2> HIDE DEF lit, l, m, i, j
  <2>5. l = m /\ i = j
    BY <2>1, <2>2, <2>3, <2>4, ElementsDiffer
  <2> QED BY <2>2, <2>3, <2>5
<1> QED BY <1>2, <1>3

-----------------------------------------------------------------------------
(***************************************************************************)
(* The elements of one array, step by step.                                *)
(***************************************************************************)
LEMMA CellsSame ==
  ASSUME NEW d, NEW k, NEW cells, NEW before, NEW after, Cells(d, k, cells, before),
         \A e \in ElementsIn(d, k) : Writer(d, k, e) \in after <=> Writer(d, k, e) \in before
  PROVE  Cells(d, k, cells, after)
<1>1. \A at : \A e \in GivenIn(d, k, at) : e \in ElementsIn(d, k)
  BY DEF GivenIn
<1> QED BY <1>1 DEF Cells

LEMMA CellsNew ==
  ASSUME NEW d \in Programs, NEW k \in DOMAIN d, d[k].dims # <<>>, Len(d[k].dims) <= 2, NEW pending,
         \A e \in ElementsIn(d, k) : Writer(d, k, e) \in pending
  PROVE  Cells(d, k, [i \in 0 .. sizeexprs(d[k].dims) - 1 |-> None], pending)
<1> DEFINE dims  == d[k].dims
           cells == [i \in 0 .. sizeexprs(dims) - 1 |-> None]
<1>1. \A at \in Box(dims) : reduced(at, dims) \in 0 .. sizeexprs(dims) - 1
  BY DecFacts, Places
<1>2. \A at \in Box(dims) : cells[reduced(at, dims)] = None
  BY <1>1
<1>3. cells = [i \in 0 .. sizeexprs(dims) - 1 |-> cells[i]]
  OBVIOUS
<1>4. \A at : \A e \in GivenIn(d, k, at) : e \in ElementsIn(d, k)
  BY DEF GivenIn
<1> HIDE DEF cells
<1>5. Cells(d, k, cells, pending)
  BY <1>2, <1>3, <1>4 DEF Cells
<1> QED BY <1>5 DEF cells

LEMMA CellsStore ==
  ASSUME NEW d \in Programs, NEW k \in DOMAIN d, ~ d[k].init.splat, Len(d[k].dims) <= 2,
         NEW cells, NEW before, NEW after, Cells(d, k, cells, before),
         NEW e \in ElementsIn(d, k), Len(d[k].init.lit[e[2]].at) = Len(d[k].dims),
         Writer(d, k, e) \notin after,
         \A f \in ElementsIn(d, k) : f # e => (Writer(d, k, f) \in after <=> Writer(d, k, f) \in before)
  PROVE  Cells(d, k, [cells EXCEPT ![reduced(Indices(d[k].init.lit[e[2]], e[3]), d[k].dims)] = e], after)
<1> DEFINE dims == d[k].dims
           here == Indices(d[k].init.lit[e[2]], e[3])
           new  == [cells EXCEPT ![reduced(here, dims)] = e]
           n    == sizeexprs(dims) - 1
<1>1. here \in Box(dims)
  BY IndicesInside
<1>2. dims \in Seq(Nat) /\ dims # <<>>
  BY DecFacts
<1>3. /\ \A at \in Box(dims) : reduced(at, dims) \in 0 .. n
      /\ \A at, to \in Box(dims) : reduced(at, dims) = reduced(to, dims) => at = to
  BY <1>2, Places
<1>4. cells = [i \in 0 .. n |-> cells[i]]
  BY DEF Cells
<1>5. e \in GivenIn(d, k, here)
  BY DEF GivenIn
<1> HIDE DEF here, dims, n
<1>6. /\ new = [i \in 0 .. n |-> new[i]] /\ new[reduced(here, dims)] = e
      /\ \A i \in 0 .. n : i # reduced(here, dims) => new[i] = cells[i]
  BY <1>1, <1>3, <1>4
<1> HIDE DEF new
<1>7. ASSUME NEW at \in Box(dims)
      PROVE  /\ GivenIn(d, k, at) = {} => new[reduced(at, dims)] = None
             /\ \A f \in GivenIn(d, k, at) :
                  new[reduced(at, dims)] = IF Writer(d, k, f) \in after THEN None ELSE f
  <2>1. CASE at = here
    <3>1. \A f \in GivenIn(d, k, at) : f = e
      BY <1>5, <2>1, GivenOne
    <3> QED BY <1>5, <1>6, <2>1, <3>1
  <2>2. CASE at # here
    <3>1. new[reduced(at, dims)] = cells[reduced(at, dims)]
      BY <1>1, <1>3, <1>6, <2>2
    <3>2. \A f \in GivenIn(d, k, at) : f \in ElementsIn(d, k) /\ f # e
      BY <2>2 DEF GivenIn, here
    <3>3. /\ GivenIn(d, k, at) = {} => cells[reduced(at, dims)] = None
          /\ \A f \in GivenIn(d, k, at) :
               cells[reduced(at, dims)] = IF Writer(d, k, f) \in before THEN None ELSE f
      BY DEF Cells, dims
    <3> QED BY <3>1, <3>2, <3>3
  <2> QED BY <2>1, <2>2
<1>8. Cells(d, k, new, after)
  BY <1>6, <1>7 DEF Cells, dims, n
<1> QED BY <1>8 DEF new, here, dims

LEMMA CellsFill ==
  ASSUME NEW d \in Programs, NEW k \in DOMAIN d, d[k].init.splat, d[k].dims # <<>>, Len(d[k].dims) <= 2,
         NEW cells, NEW before, NEW after, Cells(d, k, cells, before),
         NEW e \in ElementsIn(d, k), Writer(d, k, e) \notin after,
         NEW places, places = {reduced(at, d[k].dims) : at \in Box(d[k].dims)},
         NEW new, new = [i \in DOMAIN cells |-> IF i \in places THEN e ELSE cells[i]]
  PROVE  Cells(d, k, new, after)
<1> DEFINE dims == d[k].dims
           n    == sizeexprs(dims) - 1
<1>1. \A at \in Box(dims) : reduced(at, dims) \in 0 .. n
  BY DecFacts, Places
<1>2. \A at \in Box(dims) : reduced(at, dims) \in places
  OBVIOUS
<1>3. DOMAIN cells = 0 .. n
  BY DEF Cells
<1> HIDE DEF dims, n
<1>4. new = [i \in 0 .. n |-> new[i]] /\ \A at \in Box(dims) : new[reduced(at, dims)] = e
  BY <1>1, <1>2, <1>3
<1>5. ASSUME NEW at PROVE GivenIn(d, k, at) # {} /\ \A f \in GivenIn(d, k, at) : f = e
  <2>1. e \in GivenIn(d, k, at)
    BY DEF GivenIn
  <2> QED BY <2>1, GivenOne
<1>6. Cells(d, k, new, after)
  BY <1>4, <1>5 DEF Cells, dims, n
<1> QED BY <1>6

-----------------------------------------------------------------------------
(***************************************************************************)
(* The memory, for programs whose arrays have one or two dimensions.       *)
(***************************************************************************)
Planar == \A prog \in Programs : \A k \in DOMAIN prog : Len(prog[k].dims) <= 2

LEMMA PriorAsymmetric ==
  ASSUME NEW sc, NEW e \in Triple, NEW f \in Triple, ~ Early(sc, e) \/ ~ Early(sc, f), Prior(sc, e, f)
  PROVE  ~ Prior(sc, f, e)
<1>1. /\ e[1] \in Nat /\ e[2] \in Nat /\ e[3] \in Nat
      /\ f[1] \in Nat /\ f[2] \in Nat /\ f[3] \in Nat
  BY DEF Triple
<1> QED BY <1>1 DEF Prior, InText

(* What a step of the run leaves: no writer but the one that runs leaves   *)
(* the statements, and none before its array is made.                      *)
LEMMA RunningFacts ==
  ASSUME OrderInv, MemoryInv, phase = "running", stmts # <<>>
  PROVE  LET h == Head(stmts)
         IN  /\ decs \in Programs /\ scope \in {"local", "global"} /\ h \in Planned(decs, scope)
             /\ memory = [k \in DOMAIN decs |-> memory[k]]
             /\ \A s : s \in ToSet(stmts) <=> s = h \/ s \in ToSet(Tail(stmts))
             /\ h \notin ToSet(Tail(stmts))
             /\ \A k \in DOMAIN decs : decs[k].dims # <<>> /\ Alloc(k) \notin ToSet(stmts) =>
                  Cells(decs, k, memory[k], ToSet(stmts))
             /\ \A k \in DOMAIN decs : \A e \in ElementsIn(decs, k) :
                  decs[k].dims # <<>> /\ Alloc(k) \in ToSet(stmts) =>
                    Writer(decs, k, e) \in ToSet(stmts) /\ h # Writer(decs, k, e)
<1>1. /\ decs \in Programs /\ scope \in {"local", "global"} /\ IsList(stmts)
      /\ Ordered(decs, scope, stmts) /\ RunningInv
  BY DEF OrderInv
<1> DEFINE h == Head(stmts)
           t == Tail(stmts)
<1>2. IsList(t) /\ h \in ToSet(stmts) /\ ToSet(stmts) = {h} \cup ToSet(t)
  BY <1>1, ListTail
<1>3. h \notin ToSet(t) /\ \A y \in ToSet(t) : Prior(scope, Key(decs, h), Key(decs, y))
  <2>1. h \in Planned(decs, scope)
    BY <1>1, <1>2 DEF RunningInv
  <2>2. \A y \in ToSet(t) : Prior(scope, Key(decs, h), Key(decs, y))
    BY <1>1, OrderedTail
  <2> HIDE DEF h, t
  <2> QED BY <1>1, <2>1, <2>2, PlannedFacts, NeverPrior
<1>4. h \in Planned(decs, scope)
  BY <1>1, <1>2 DEF RunningInv
<1> HIDE DEF h, t
<1>5. ASSUME NEW k \in DOMAIN decs, NEW e \in ElementsIn(decs, k),
             decs[k].dims # <<>>, Alloc(k) \in ToSet(stmts)
      PROVE  Writer(decs, k, e) \in ToSet(stmts) /\ h # Writer(decs, k, e)
  <2> DEFINE w == Writer(decs, k, e)
             a == Alloc(k)
  <2>1. /\ w \in Planned(decs, scope) /\ a \in Planned(decs, scope)
        /\ Prior(scope, Key(decs, a), Key(decs, w)) /\ w.do \in {"store", "fill"}
    BY <1>1, <1>5, WriterFacts
  <2>2. a # w
    <3>1. a.do = "alloc"
      BY Statements
    <3> QED BY <2>1, <3>1
  <2>6. ~ Early(scope, Key(decs, a))
    <3>1. Key(decs, a) = << k, 1, IF HasSingle(decs, k) THEN 2 ELSE 0 >>
      BY Statements
    <3> QED BY <3>1 DEF Early
  <2> HIDE DEF w, a
  <2>7. Key(decs, w) \in Triple /\ Key(decs, a) \in Triple
    BY <1>1, <2>1, PlannedFacts
  <2>3. ~ Prior(scope, Key(decs, w), Key(decs, a))
    BY <2>1, <2>6, <2>7, PriorAsymmetric
  <2>4. w \in ToSet(stmts)
    <3>1. \A s \in Gone : \A y \in ToSet(stmts) : Prior(scope, Key(decs, s), Key(decs, y))
      BY <1>1 DEF RunningInv
    <3>2. a \in ToSet(stmts)
      BY <1>5 DEF a
    <3>3. w \notin Gone
      BY <2>3, <3>1, <3>2
    <3> QED BY <2>1, <3>3 DEF Gone
  <2>5. h # w
    BY <1>2, <1>3, <1>5, <2>2, <2>3 DEF a
  <2> QED BY <2>4, <2>5 DEF w
<1>6. /\ memory = [k \in DOMAIN decs |-> memory[k]]
      /\ \A k \in DOMAIN decs : decs[k].dims # <<>> /\ Alloc(k) \notin ToSet(stmts) =>
           Cells(decs, k, memory[k], ToSet(stmts))
  BY DEF MemoryInv
<1> QED BY <1>1, <1>2, <1>3, <1>4, <1>5, <1>6 DEF h, t

LEMMA MemoryInitially ==
  ASSUME OrderInv, ParamDims
  PROVE  MemoryInv'
<1>1. /\ decs' = decs /\ scope' = scope /\ memory' = memory /\ phase = "ParamDims"
  BY DEF ParamDims
<1>2. Generated /\ decs \in Programs /\ scope \in {"local", "global"} /\ IsList(stmts) /\ Ordered(decs, scope, stmts)
  BY <1>1 DEF OrderInv
<1>3. CASE MismatchedIndices
  <2>1. phase' = "rejected"
    BY <1>3 DEF ParamDims
  <2> QED BY <2>1 DEF MemoryInv
<1>4. CASE ~ MismatchedIndices
  <2>1. stmts' = [j \in DOMAIN stmts |-> Lowered(stmts[j])]
    BY <1>4 DEF ParamDims
  <2>2. ToSet(stmts') = Planned(decs, scope)
    BY <1>2, <2>1, LoweredStmts DEF Generated
  <2>3. memory = [k \in DOMAIN decs |-> None]
    BY <1>2 DEF Generated, NotRun
  <2>4. \A k \in DOMAIN decs : memory[k] = None
    BY <2>3
  <2>5. memory = [k \in DOMAIN decs |-> memory[k]]
    BY <2>3, <2>4
  <2>6. \A k \in DOMAIN decs : decs[k].dims # <<>> => Alloc(k) \in Planned(decs, scope)
    <3> SUFFICES ASSUME NEW k \in DOMAIN decs, decs[k].dims # <<>> PROVE Alloc(k) \in Planned(decs, scope)
      OBVIOUS
    <3> DEFINE s == Alloc(k)
    <3>1. s \in Plan(decs, scope, k) /\ s.do = "alloc" /\ k \in 0 + 1 .. Len(decs)
      BY <1>2, Statements, Everywhere DEF Plan, HeadPlan, ArrayPlan
    <3> HIDE DEF s
    <3>2. s \in Everything(decs, scope)
      BY <3>1 DEF Everything, Plans
    <3>3. LoweredBy(decs, s) = s
      BY <3>1, LoweredFacts
    <3>4. s \in Planned(decs, scope)
      BY <3>2, <3>3 DEF Planned
    <3> QED BY <3>4 DEF s
  <2> QED BY <1>1, <2>2, <2>5, <2>6 DEF MemoryInv
<1> QED BY <1>3, <1>4

(* A statement that is not an alloc, for an array whose memory it leaves.  *)
LEMMA Untouched ==
  ASSUME NEW d \in Programs, NEW k \in DOMAIN d, NEW cells, NEW h, NEW before, NEW after,
         d[k].dims # <<>>, \A s : s \in before <=> s = h \/ s \in after,
         Alloc(k) \notin after, h # Alloc(k),
         Alloc(k) \notin before => Cells(d, k, cells, before),
         \A e \in ElementsIn(d, k) : h # Writer(d, k, e)
  PROVE  Cells(d, k, cells, after)
<1>1. Alloc(k) \notin before
  OBVIOUS
<1>2. \A e \in ElementsIn(d, k) : Writer(d, k, e) \in after <=> Writer(d, k, e) \in before
  OBVIOUS
<1> QED BY <1>1, <1>2, CellsSame

LEMMA RunEvalKeepsMemory ==
  ASSUME OrderInv, MemoryInv, RunEval
  PROVE  MemoryInv'
<1> DEFINE h == Head(stmts)
           t == Tail(stmts)
<1>1. /\ decs' = decs /\ memory' = memory /\ phase = "running" /\ stmts # <<>> /\ stmts' = t
      /\ h.do = "eval"
  BY DEF RunEval, Running, Current
<1>2. /\ decs \in Programs /\ scope \in {"local", "global"}
      /\ memory = [k \in DOMAIN decs |-> memory[k]]
      /\ \A s : s \in ToSet(stmts) <=> s = h \/ s \in ToSet(t)
      /\ \A k \in DOMAIN decs : decs[k].dims # <<>> /\ Alloc(k) \notin ToSet(stmts) =>
           Cells(decs, k, memory[k], ToSet(stmts))
  BY <1>1, RunningFacts
<1>3. ASSUME NEW k \in DOMAIN decs, decs[k].dims # <<>>, Alloc(k) \notin ToSet(t)
      PROVE  Cells(decs, k, memory[k], ToSet(t))
  <2>1. h # Alloc(k)
    <3>1. Alloc(k).do = "alloc"
      BY Statements
    <3> QED BY <1>1, <3>1
  <2>2. \A e \in ElementsIn(decs, k) : h # Writer(decs, k, e)
    BY <1>1, <1>2, <1>3, WriterFacts
  <2> HIDE DEF h, t
  <2> QED BY <1>2, <1>3, <2>1, <2>2, Untouched
<1> QED BY <1>1, <1>2, <1>3 DEF MemoryInv

LEMMA RunAllocKeepsMemory ==
  ASSUME Planar, OrderInv, MemoryInv, RunAlloc
  PROVE  MemoryInv'
<1> DEFINE h == Head(stmts)
           t == Tail(stmts)
<1>1. /\ decs' = decs /\ phase = "running" /\ stmts # <<>> /\ stmts' = t /\ h.do = "alloc"
      /\ memory' = [memory EXCEPT ![h.dec] = [i \in 0 .. sizeexprs(Dims(h.dec)) - 1 |-> None]]
  BY DEF RunAlloc, Running, Current
<1>2. /\ decs \in Programs /\ scope \in {"local", "global"} /\ h \in Planned(decs, scope)
      /\ memory = [k \in DOMAIN decs |-> memory[k]]
      /\ h \in ToSet(stmts)
      /\ \A s : s \in ToSet(stmts) <=> s = h \/ s \in ToSet(t)
      /\ \A k \in DOMAIN decs : decs[k].dims # <<>> /\ Alloc(k) \notin ToSet(stmts) =>
           Cells(decs, k, memory[k], ToSet(stmts))
      /\ \A k \in DOMAIN decs : \A e \in ElementsIn(decs, k) :
           decs[k].dims # <<>> /\ Alloc(k) \in ToSet(stmts) =>
             Writer(decs, k, e) \in ToSet(stmts) /\ h # Writer(decs, k, e)
  BY <1>1, RunningFacts
<1>3. PICK l \in DOMAIN decs : decs[l].dims # <<>> /\ h = Alloc(l)
  BY <1>1, <1>2, PlannedCases
<1>4. h.dec = l /\ Len(decs[l].dims) <= 2
  <2>1. Alloc(l).dec = l
    BY Statements
  <2>2. Len(decs[l].dims) <= 2
    BY <1>2 DEF Planar
  <2> QED BY <1>3, <2>1, <2>2
<1> DEFINE new == [i \in 0 .. sizeexprs(decs[l].dims) - 1 |-> None]
<1>5. /\ memory' = [k \in DOMAIN decs |-> memory'[k]]
      /\ memory'[l] = new /\ \A k \in DOMAIN decs : k # l => memory'[k] = memory[k]
  <2>1. memory' = [memory EXCEPT ![l] = new]
    BY <1>1, <1>4 DEF Dims
  <2> HIDE DEF new
  <2>2. DOMAIN memory = DOMAIN decs
    BY <1>2
  <2> QED BY <2>1, <2>2
<1>6. Cells(decs, l, new, ToSet(t))
  <2>1. \A e \in ElementsIn(decs, l) : Writer(decs, l, e) \in ToSet(t)
    BY <1>2, <1>3
  <2> QED BY <1>2, <1>3, <1>4, <2>1, CellsNew
<1> HIDE DEF new
<1>7. ASSUME NEW k \in DOMAIN decs, k # l, decs[k].dims # <<>>, Alloc(k) \notin ToSet(t)
      PROVE  Cells(decs, k, memory'[k], ToSet(t))
  <2>1. h # Alloc(k)
    <3>1. Alloc(k).dec = k
      BY Statements
    <3> QED BY <1>4, <1>7, <3>1
  <2>2. \A e \in ElementsIn(decs, k) : h # Writer(decs, k, e)
    BY <1>1, <1>2, <1>7, WriterFacts
  <2>3. Alloc(k) \notin ToSet(stmts) => Cells(decs, k, memory[k], ToSet(stmts))
    BY <1>2, <1>7
  <2> HIDE DEF h, t
  <2>4. Cells(decs, k, memory[k], ToSet(t))
    BY <1>2, <1>7, <2>1, <2>2, <2>3, Untouched
  <2> QED BY <1>5, <1>7, <2>4
<1>8. \A k \in DOMAIN decs : decs[k].dims # <<>> /\ Alloc(k) \notin ToSet(t) => Cells(decs, k, memory'[k], ToSet(t))
  BY <1>5, <1>6, <1>7
<1> QED BY <1>1, <1>5, <1>8 DEF MemoryInv

(* The statement that writes an element, when it comes to run.             *)
LEMMA RunWriterKeepsMemory ==
  ASSUME Planar, OrderInv, MemoryInv, phase = "running", stmts # <<>>,
         decs' = decs, stmts' = Tail(stmts),
         NEW k \in DOMAIN decs, NEW e \in ElementsIn(decs, k), decs[k].dims # <<>>,
         Head(stmts) = Writer(decs, k, e),
         NEW new, memory' = [memory EXCEPT ![k] = new],
         Cells(decs, k, memory[k], ToSet(stmts)) /\ Writer(decs, k, e) \notin ToSet(Tail(stmts))
           /\ (\A f \in ElementsIn(decs, k) : f # e =>
                 (Writer(decs, k, f) \in ToSet(Tail(stmts)) <=> Writer(decs, k, f) \in ToSet(stmts)))
         => Cells(decs, k, new, ToSet(Tail(stmts)))
  PROVE  MemoryInv'
<1> DEFINE h == Head(stmts)
           t == Tail(stmts)
<1>1. /\ decs \in Programs /\ scope \in {"local", "global"}
      /\ memory = [l \in DOMAIN decs |-> memory[l]]
      /\ \A s : s \in ToSet(stmts) <=> s = h \/ s \in ToSet(t)
      /\ h \notin ToSet(t)
      /\ \A l \in DOMAIN decs : decs[l].dims # <<>> /\ Alloc(l) \notin ToSet(stmts) =>
           Cells(decs, l, memory[l], ToSet(stmts))
      /\ \A l \in DOMAIN decs : \A f \in ElementsIn(decs, l) :
           decs[l].dims # <<>> /\ Alloc(l) \in ToSet(stmts) =>
             Writer(decs, l, f) \in ToSet(stmts) /\ h # Writer(decs, l, f)
  BY RunningFacts
<1>2. h.do \in {"store", "fill"} /\ h.dec = k /\ h.what = e
  BY <1>1, WriterFacts
<1>3. /\ memory' = [l \in DOMAIN decs |-> memory'[l]]
      /\ memory'[k] = new /\ \A l \in DOMAIN decs : l # k => memory'[l] = memory[l]
  <2>1. DOMAIN memory = DOMAIN decs
    BY <1>1
  <2> QED BY <2>1
<1>4. Alloc(k) \notin ToSet(stmts)
  BY <1>1
<1>5. \A f \in ElementsIn(decs, k) : f # e =>
        (Writer(decs, k, f) \in ToSet(t) <=> Writer(decs, k, f) \in ToSet(stmts))
  <2> SUFFICES ASSUME NEW f \in ElementsIn(decs, k), f # e PROVE h # Writer(decs, k, f)
    BY <1>1
  <2>1. Writer(decs, k, f).what = f
    BY <1>1, WriterFacts
  <2> QED BY <1>2, <2>1
<1>6. Cells(decs, k, new, ToSet(t))
  BY <1>1, <1>4, <1>5
<1>7. ASSUME NEW l \in DOMAIN decs, l # k, decs[l].dims # <<>>, Alloc(l) \notin ToSet(t)
      PROVE  Cells(decs, l, memory'[l], ToSet(t))
  <2>1. h # Alloc(l)
    <3>1. Alloc(l).do = "alloc"
      BY Statements
    <3> QED BY <1>2, <3>1
  <2>2. \A f \in ElementsIn(decs, l) : h # Writer(decs, l, f)
    <3> SUFFICES ASSUME NEW f \in ElementsIn(decs, l) PROVE h # Writer(decs, l, f)
      OBVIOUS
    <3>1. Writer(decs, l, f).dec = l
      BY <1>1, <1>7, WriterFacts
    <3> QED BY <1>2, <1>7, <3>1
  <2>3. Alloc(l) \notin ToSet(stmts) => Cells(decs, l, memory[l], ToSet(stmts))
    BY <1>1, <1>7
  <2> HIDE DEF h, t
  <2>4. Cells(decs, l, memory[l], ToSet(t))
    BY <1>1, <1>7, <2>1, <2>2, <2>3, Untouched
  <2> QED BY <1>3, <1>7, <2>4
<1>8. \A l \in DOMAIN decs : decs[l].dims # <<>> /\ Alloc(l) \notin ToSet(t) => Cells(decs, l, memory'[l], ToSet(t))
  BY <1>3, <1>6, <1>7
<1> QED BY <1>3, <1>8 DEF MemoryInv

LEMMA RunStoreKeepsMemory ==
  ASSUME Planar, OrderInv, MemoryInv, RunStore
  PROVE  MemoryInv'
<1> DEFINE h == Head(stmts)
           t == Tail(stmts)
<1>1. /\ decs' = decs /\ phase = "running" /\ stmts # <<>> /\ stmts' = t /\ h.do = "store"
      /\ memory' = [memory EXCEPT ![h.dec][h.at] = h.what]
  BY DEF RunStore, Running, Current
<1>2. decs \in Programs /\ scope \in {"local", "global"} /\ h \in Planned(decs, scope)
      /\ memory = [k \in DOMAIN decs |-> memory[k]] /\ OnlyDeepLiterals
  BY <1>1, RunningFacts DEF OrderInv, RunningInv
<1>3. PICK k \in DOMAIN decs : \E e \in ElementsIn(decs, k) :
        decs[k].dims # <<>> /\ h = Writer(decs, k, e) /\ ~ decs[k].init.splat
  BY <1>1, <1>2, PlannedCases
<1>4. PICK e \in ElementsIn(decs, k) : decs[k].dims # <<>> /\ h = Writer(decs, k, e)
  BY <1>3
<1> DEFINE place == reduced(Indices(decs[k].init.lit[e[2]], e[3]), decs[k].dims)
           new   == [memory[k] EXCEPT ![place] = e]
<1>5. h.dec = k /\ h.what = e /\ h.at = place
  <2>1. h = Store(k, place, e)
    BY <1>3, <1>4 DEF Writer
  <2> HIDE DEF h, place
  <2> QED BY <2>1, Statements
<1>6. memory' = [memory EXCEPT ![k] = new]
  BY <1>1, <1>5
<1>7. Len(decs[k].init.lit[e[2]].at) = Len(decs[k].dims)
  <2>1. e[2] \in DOMAIN decs[k].init.lit /\ e[3] \in 1 .. decs[k].init.lit[e[2]].exprs
    BY <1>2, ElementFacts
  <2>2. \A n \in DOMAIN decs[k].init.lit :
          decs[k].init.lit[n].exprs > 0 => Len(decs[k].init.lit[n].at) = Len(decs[k].dims)
    BY <1>1, <1>2, <1>3 DEF OnlyDeepLiterals, Arrays, Dims, Depth, Lit, Splat
  <2>3. decs[k].init.lit \in Seq(Node)
    BY <1>2, DecFacts
  <2>4. decs[k].init.lit[e[2]].exprs \in Nat
    <3> DEFINE lit == decs[k].init.lit
               n   == e[2]
    <3>1. lit \in Seq(Node) /\ n \in DOMAIN lit
      BY <2>1, <2>3
    <3> HIDE DEF lit, n
    <3>2. lit[n] \in Node
      BY <3>1
    <3>3. lit[n].exprs \in Nat
      BY <3>2 DEF Node
    <3> QED BY <3>3 DEF lit, n
  <2>5. decs[k].init.lit[e[2]].exprs > 0
    BY <2>1, <2>4
  <2> QED BY <2>1, <2>2, <2>5
<1>8. Len(decs[k].dims) <= 2
  BY <1>2 DEF Planar
<1>9. ASSUME Cells(decs, k, memory[k], ToSet(stmts)), Writer(decs, k, e) \notin ToSet(t),
             \A f \in ElementsIn(decs, k) : f # e =>
               (Writer(decs, k, f) \in ToSet(t) <=> Writer(decs, k, f) \in ToSet(stmts))
      PROVE  Cells(decs, k, new, ToSet(t))
  <2> HIDE DEF t
  <2> QED BY <1>2, <1>3, <1>7, <1>8, <1>9, CellsStore
<1> HIDE DEF new
<1> QED BY <1>1, <1>4, <1>6, <1>9, RunWriterKeepsMemory

LEMMA RunFillKeepsMemory ==
  ASSUME Planar, OrderInv, MemoryInv, RunFill
  PROVE  MemoryInv'
<1> DEFINE h == Head(stmts)
           t == Tail(stmts)
           places(k) == {reduced(at, decs[k].dims) : at \in Box(decs[k].dims)}
<1>1. /\ decs' = decs /\ phase = "running" /\ stmts # <<>> /\ stmts' = t /\ h.do = "fill"
      /\ memory' = [memory EXCEPT ![h.dec] = [i \in DOMAIN @ |-> IF i \in places(h.dec) THEN h.what ELSE @[i]]]
  BY DEF RunFill, Running, Current, Dims
<1>2. decs \in Programs /\ scope \in {"local", "global"} /\ h \in Planned(decs, scope)
      /\ memory = [k \in DOMAIN decs |-> memory[k]]
  BY <1>1, RunningFacts
<1>3. PICK k \in DOMAIN decs : \E e \in ElementsIn(decs, k) :
        decs[k].dims # <<>> /\ h = Writer(decs, k, e) /\ decs[k].init.splat
  BY <1>1, <1>2, PlannedCases
<1>4. PICK e \in ElementsIn(decs, k) : decs[k].dims # <<>> /\ h = Writer(decs, k, e)
  BY <1>3
<1>5. h.dec = k /\ h.what = e
  BY <1>2, <1>4, WriterFacts
<1> DEFINE all == places(k)
           new == [i \in DOMAIN memory[k] |-> IF i \in all THEN e ELSE memory[k][i]]
<1>6. memory' = [memory EXCEPT ![k] = new]
  BY <1>1, <1>5
<1>7. Len(decs[k].dims) <= 2
  BY <1>2 DEF Planar
<1>8. ASSUME Cells(decs, k, memory[k], ToSet(stmts)), Writer(decs, k, e) \notin ToSet(t)
      PROVE  Cells(decs, k, new, ToSet(t))
  <2>1. all = {reduced(at, decs[k].dims) : at \in Box(decs[k].dims)}
    OBVIOUS
  <2>2. decs[k].init.splat /\ decs[k].dims # <<>> /\ decs \in Programs
    BY <1>2, <1>3
  <2>3. new = [i \in DOMAIN memory[k] |-> IF i \in all THEN e ELSE memory[k][i]]
    OBVIOUS
  <2> HIDE DEF t, all, new
  <2> QED BY <2>3, <1>7, <1>8, <2>1, <2>2, CellsFill
<1> HIDE DEF new
<1> QED BY <1>1, <1>4, <1>6, <1>8, RunWriterKeepsMemory

LEMMA MemoryStep ==
  ASSUME Planar, OrderInv, MemoryInv, [Next]_vars
  PROVE  MemoryInv'
<1>1. ASSUME phase' # "running" PROVE MemoryInv'
  BY <1>1 DEF MemoryInv
<1>2. CASE CheckArrDims \/ CheckArrDimsDone \/ ExtractIndices \/ ExtractIndicesDone
  <2>1. phase' # "running"
    BY <1>2 DEF CheckArrDims, CheckArrDimsDone, ExtractIndices, ExtractIndicesDone
  <2> QED BY <1>1, <2>1
<1>3. CASE InitVar \/ genIndividualInit \/ InitArray \/ InitVarsDone
  <2>1. phase' # "running"
    BY <1>3 DEF InitVar, genIndividualInit, InitArray, InitVarsDone
  <2> QED BY <1>1, <2>1
<1>4. CASE ParamDims
  BY <1>4, MemoryInitially
<1>5. CASE RunEval
  BY <1>5, RunEvalKeepsMemory
<1>6. CASE RunAlloc
  BY <1>6, RunAllocKeepsMemory
<1>7. CASE RunStore
  BY <1>7, RunStoreKeepsMemory
<1>8. CASE RunFill
  BY <1>8, RunFillKeepsMemory
<1>9. CASE UNCHANGED vars
  <2>1. phase' = phase /\ memory' = memory /\ decs' = decs /\ stmts' = stmts
    BY <1>9 DEF vars
  <2>2. MemoryInv' <=> MemoryInv
    BY <2>1 DEF MemoryInv
  <2> QED BY <2>2
<1> QED BY <1>2, <1>3, <1>4, <1>5, <1>6, <1>7, <1>8, <1>9 DEF Next

(* While the statements run, an allocated array has at each place the      *)
(* value of its element if the statement that writes it has run.           *)
THEOREM MemoryInvHolds ==
  ASSUME Planar
  PROVE  Spec => []MemoryInv
<1>1. Init => MemoryInv
  BY DEF Init, MemoryInv
<1>2. OrderInv /\ MemoryInv /\ [Next]_vars => MemoryInv'
  BY MemoryStep
<1> QED BY <1>1, <1>2, OrderInvHolds, PTL DEF Spec

(* For all programs whose arrays have at most two dimensions, the reduced  *)
(* accesses of dimreduce.c to two elements never share a place, and all    *)
(* lie inside of the array.                                                *)
THEOREM PlanarElementsApart ==
  ASSUME Planar
  PROVE  Spec => []ElementsApart
<1>1. OrderInv => ElementsApart
  <2> SUFFICES ASSUME OrderInv, NEW k \in DOMAIN decs, decs[k].dims # <<>> PROVE Apart(decs[k].dims)
    BY DEF ElementsApart, Arrays, Dims
  <2>1. decs \in Programs
    BY DEF OrderInv
  <2>2. decs[k].dims \in Seq(Nat)
    BY <2>1, DecFacts
  <2>3. Len(decs[k].dims) <= 2
    BY <2>1 DEF Planar
  <2> QED BY <2>2, <2>3, Places
<1> QED BY <1>1, OrderInvHolds, PTL

(* For all programs whose arrays have at most two dimensions and literals  *)
(* of any nesting: genIndividualInit and the loops of genArrayInit put     *)
(* into the place of each element the value that the text gives for its    *)
(* indices, and nothing into the others.                                   *)
THEOREM PlanarElementsInPlace ==
  ASSUME Planar
  PROVE  Spec => []ElementsInPlace
<1>1. OrderInv /\ MemoryInv => ElementsInPlace
  <2> SUFFICES ASSUME OrderInv, MemoryInv, Done, NEW k \in DOMAIN decs, decs[k].dims # <<>>,
                      NEW at \in Box(decs[k].dims)
               PROVE  LET value == memory[k][reduced(at, decs[k].dims)]
                      IN  /\ Given(k, at) = {} => value = None
                          /\ \A e \in Given(k, at) : value = e
    BY DEF ElementsInPlace, Arrays, Dims
  <2>1. phase = "running" /\ ToSet(stmts) = {}
    BY DEF Done, ToSet
  <2>2. Cells(decs, k, memory[k], {})
    BY <2>1 DEF MemoryInv
  <2>3. Given(k, at) = GivenIn(decs, k, at)
    BY DEF Given, GivenIn, ElementsOf, ElementsIn, Lit, Splat
  <2> QED BY <2>2, <2>3 DEF Cells
<1> QED BY <1>1, OrderInvHolds, MemoryInvHolds, PTL
=============================================================================
