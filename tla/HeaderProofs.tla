---------------------------- MODULE HeaderProofs ----------------------------
(***************************************************************************)
(* What holds of the headers of any program, in any order in which the     *)
(* hash table gives the names: numbers, imports and signatures.            *)
(***************************************************************************)
EXTENDS Header, Integers, FiniteSetTheorems, SequenceTheorems, TLAPS

(* Headers, as constants of a lemma.                                       *)
IsHeader(h) == \E S : h \in Seq(S)

Count(h, dir) == Cardinality({q \in 1 .. Len(h) : h[q].dir = dir})

Extends(g, h) == \A p \in DOMAIN g : p \in DOMAIN h /\ h[p] = g[p]

LEMMA HeaderLength ==
  ASSUME NEW h, IsHeader(h)
  PROVE  Len(h) \in Nat /\ DOMAIN h = 1 .. Len(h)
BY DEF IsHeader

LEMMA AppendLine ==
  ASSUME NEW h, IsHeader(h), NEW l
  PROVE  /\ IsHeader(Append(h, l)) /\ Extends(h, Append(h, l))
         /\ Len(Append(h, l)) = Len(h) + 1 /\ Append(h, l)[Len(h) + 1] = l
         /\ h \o <<l>> = Append(h, l)
<1>1. PICK S : h \in Seq(S)
  BY DEF IsHeader
<1>2. h \in Seq(S \cup {l}) /\ l \in S \cup {l}
  BY <1>1
<1>3. Append(h, l) \in Seq(S \cup {l})
  BY <1>2
<1>4. /\ Extends(h, Append(h, l))
      /\ Len(Append(h, l)) = Len(h) + 1 /\ Append(h, l)[Len(h) + 1] = l
  BY <1>2, <1>3 DEF Extends
<1>5. h \o <<l>> = Append(h, l)
  BY <1>2
<1> QED BY <1>3, <1>4, <1>5 DEF IsHeader

LEMMA CountAppend ==
  ASSUME NEW h, IsHeader(h), NEW l, NEW dir
  PROVE  /\ Count(h, dir) \in Nat
         /\ Count(Append(h, l), dir) = IF l.dir = dir THEN Count(h, dir) + 1 ELSE Count(h, dir)
<1> DEFINE Q == {q \in 1 .. Len(h) : h[q].dir = dir}
           R == {q \in 1 .. Len(Append(h, l)) : Append(h, l)[q].dir = dir}
<1>1. Len(h) \in Nat /\ DOMAIN h = 1 .. Len(h)
  BY HeaderLength
<1>2. IsFiniteSet(1 .. Len(h))
  BY <1>1, FS_Interval
<1>3. IsFiniteSet(Q)
  BY <1>2, FS_Subset
<1>4. Cardinality(Q) \in Nat
  BY <1>3, FS_CardinalityType
<1>5. \A q \in 1 .. Len(h) + 1 : Append(h, l)[q] = IF q <= Len(h) THEN h[q] ELSE l
  BY <1>1, AppendLine DEF Extends
<1>6. R = IF l.dir = dir THEN Q \cup {Len(h) + 1} ELSE Q
  BY <1>1, <1>5, AppendLine
<1>7. Len(h) + 1 \notin Q
  BY <1>1
<1>8. Cardinality(Q \cup {Len(h) + 1}) = Cardinality(Q) + 1
  BY <1>3, <1>7, FS_AddElement
<1> QED BY <1>4, <1>6, <1>8 DEF Count

LEMMA NamesKept ==
  ASSUME NEW g, NEW h, IsHeader(g), IsHeader(h), Extends(g, h),
         NEW dir, NEW n, NEW k, Names(g, dir, n, k)
  PROVE  Names(h, dir, n, k)
<1>1. PICK p \in DOMAIN g : IsLine(g, p, dir, n) /\ g[p].key = k
  BY DEF Names
<1>2. p \in DOMAIN h /\ h[p] = g[p] /\ p \in Nat /\ Len(g) \in Nat /\ p <= Len(g)
  BY <1>1, HeaderLength DEF Extends
<1>3. \A q \in 1 .. p - 1 : h[q] = g[q]
  BY <1>2, HeaderLength DEF Extends
<1>4. Numbered(h, p) = Numbered(g, p)
  <2>1. {q \in 1 .. p - 1 : h[q].dir = h[p].dir} = {q \in 1 .. p - 1 : g[q].dir = g[p].dir}
    BY <1>2, <1>3
  <2> QED BY <2>1 DEF Numbered
<1> QED BY <1>1, <1>2, <1>4 DEF Names, IsLine

LEMMA NewLine ==
  ASSUME NEW h, IsHeader(h), NEW l
  PROVE  Names(Append(h, l), l.dir, Count(h, l.dir), l.key)
<1> DEFINE g == Append(h, l)
           p == Len(h) + 1
<1>1. /\ Len(h) \in Nat /\ DOMAIN h = 1 .. Len(h) /\ IsHeader(g) /\ Len(g) = p
      /\ g[p] = l /\ Extends(h, g)
  BY HeaderLength, AppendLine
<1>2. p \in DOMAIN g
  BY <1>1, HeaderLength
<1>3. {q \in 1 .. p - 1 : g[q].dir = g[p].dir} = {q \in 1 .. Len(h) : h[q].dir = l.dir}
  BY <1>1 DEF Extends
<1> QED BY <1>1, <1>2, <1>3 DEF Names, IsLine, Numbered, Count

-----------------------------------------------------------------------------
(* The entries that unit u has in its table, once it has one.              *)
Entries(u) == EntriesOf(Extracted(build[u]))

Tabled(u) == u < unit \/ (u = unit /\ phase \in {"header", "codegen", "linked"})

TableOK(u) ==
  IF Tabled(u)
  THEN /\ \A e \in Entries(u) : e[1] \in DOMAIN table[u] /\ table[u][e[1]] = e[2]
       /\ \A k \in DOMAIN table[u] : <<k, table[u][k]>> \in Entries(u)
  ELSE table[u] = <<>> /\ header[u] = <<>> /\ code[u] = {}

Counters == {"global", "importvar", "importfun"}

VarDir(e) == IF e.linkage = "extern" THEN "importvar" ELSE "global"

HasLine(h, dir, k, e) ==
  \E p \in DOMAIN h : h[p].dir = dir /\ h[p].key = k /\ h[p].user_id = e.user_id

(* What the header of a unit has for a key that was iterated over.         *)
Written(u, k) ==
  LET e == table[u][k] IN
  /\ k[1] = "var" => /\ k \in DOMAIN index[u]
                     /\ Names(header[u], VarDir(e), index[u][k], k)
                     /\ e.linkage = "extern" => HasLine(header[u], "importvar", k, e)
                     /\ e.linkage = "export" => HasLine(header[u], "exportvar", k, e)
  /\ k[1] = "fun" => /\ e.linkage = "extern" => /\ k \in DOMAIN index[u]
                                                /\ Names(header[u], "importfun", index[u][k], k)
                                                /\ HasLine(header[u], "importfun", k, e)
                     /\ e.linkage = "export" => HasLine(header[u], "exportfun", k, e)

Left(u) == IF u = unit THEN pending ELSE {}

UnitsOK ==
  /\ build \in Builds /\ unit \in DOMAIN build
  /\ phase \in {"extract", "symtables", "header", "codegen", "linked"}
  /\ phase = "linked" => unit = Len(build)
  /\ DOMAIN table = DOMAIN build /\ DOMAIN index = DOMAIN build
  /\ header = [u \in DOMAIN build |-> header[u]] /\ DOMAIN code = DOMAIN build
  /\ phase = "extract" => decls = build[unit]
  /\ phase \in {"symtables", "header", "codegen"} => decls = Extracted(build[unit])
  /\ pending \subseteq DOMAIN table[unit]
  /\ phase # "header" => pending = {}
  /\ DOMAIN next = Counters

IInv ==
  /\ UnitsOK
  /\ \A u \in DOMAIN build : /\ IsHeader(header[u])
                             /\ TableOK(u)
                             /\ \A k \in DOMAIN table[u] \ Left(u) : Written(u, k)
  /\ phase = "header" => \A c \in Counters : next[c] = Count(header[unit], c)
  /\ NumbersHitTheirLine

(* What a key and an entry can be.                                         *)
LEMMA EntryShape ==
  ASSUME NEW ds, NEW e \in EntriesOf(ds)
  PROVE  /\ e = <<e[1], e[2]>>
         /\ e[1] = <<e[1][1], e[1][2]>>
         /\ e[1][1] \in {"var", "fun"}
         /\ e[2].linkage \in {"export", "internal", "extern"}
<1>1. ASSUME NEW kind \in {"var", "fun"}, NEW id, NEW linkage \in {"export", "internal", "extern"},
             NEW user_id, NEW type, NEW argtypes,
             e = <<<<kind, id>>, Entry(linkage, user_id, type, argtypes)>>
      PROVE  /\ e = <<e[1], e[2]>>
             /\ e[1] = <<e[1][1], e[1][2]>>
             /\ e[1][1] \in {"var", "fun"}
             /\ e[2].linkage \in {"export", "internal", "extern"}
  BY <1>1 DEF Entry
<1> QED BY <1>1 DEF EntriesOf, Linkage

LEMMA BuildUnits ==
  ASSUME NEW b \in Builds
  PROVE  /\ Len(b) \in Nat \ {0} /\ DOMAIN b = 1 .. Len(b)
         /\ \A u \in DOMAIN b : \A e, f \in EntriesOf(Extracted(b[u])) : e[1] = f[1] => e = f
<1>1. b \in Seq(SUBSET UNION {b[u] : u \in DOMAIN b}) /\ b # <<>>
  BY BuildsAssumption
<1> QED BY <1>1, NamesAssumption

LEMMA InitIInv == Init => IInv
<1> SUFFICES ASSUME Init PROVE IInv
  OBVIOUS
<1>1. Len(build) \in Nat \ {0} /\ DOMAIN build = 1 .. Len(build) /\ 1 \in DOMAIN build
  BY BuildUnits DEF Init
<1>2. UnitsOK
  BY <1>1 DEF Init, UnitsOK, Zero, Counters
<1>3. ASSUME NEW u \in DOMAIN build
      PROVE  IsHeader(header[u]) /\ TableOK(u) /\ DOMAIN table[u] = {}
  <2>1. ~Tabled(u)
    BY <1>1 DEF Init, Tabled
  <2>2. <<>> \in Seq({})
    OBVIOUS
  <2> QED BY <2>1, <2>2 DEF Init, TableOK, IsHeader
<1>4. NumbersHitTheirLine
  BY DEF Init, NumbersHitTheirLine, ToSet
<1> QED BY <1>2, <1>3, <1>4 DEF IInv, Init
LEMMA InitSymtablesStep == IInv /\ InitSymtables => IInv'
<1> SUFFICES ASSUME IInv, InitSymtables PROVE IInv'
  OBVIOUS
<1> USE DEF IInv, InitSymtables
<1>1. /\ unit \in DOMAIN build /\ Len(build) \in Nat /\ DOMAIN build = 1 .. Len(build)
      /\ decls = Extracted(build[unit])
      /\ \A e, f \in Entries(unit) : e[1] = f[1] => e = f
  BY BuildUnits DEF UnitsOK, Entries
<1>2. table[unit] = <<>> /\ header[unit] = <<>> /\ code[unit] = {}
  BY <1>1 DEF TableOK, Tabled
<1> DEFINE entries == Entries(unit)
           keys == {e[1] : e \in entries}
           T == [k \in keys |-> (CHOOSE e \in entries : e[1] = k)[2]]
<1>3. table' = [table EXCEPT ![unit] = T] /\ pending' = keys
  BY <1>1 DEF Entries
<1>4. table'[unit] = T /\ \A u \in DOMAIN build : u # unit => table'[u] = table[u]
  BY <1>1, <1>3 DEF UnitsOK
<1>5. /\ \A e \in entries : e[1] \in DOMAIN T /\ T[e[1]] = e[2]
      /\ \A k \in DOMAIN T : <<k, T[k]>> \in entries
  <2>1. ASSUME NEW k \in keys PROVE \E e \in entries : k = e[1] /\ T[k] = e[2] /\ e = <<k, T[k]>>
    <3>1. PICK e \in entries : k = e[1]
      OBVIOUS
    <3>2. (CHOOSE f \in entries : f[1] = k) = e
      BY <3>1, <1>1
    <3>3. e = <<e[1], e[2]>>
      BY EntryShape DEF Entries
    <3> QED BY <3>1, <3>2, <3>3
  <2>2. DOMAIN T = keys
    OBVIOUS
  <2>3. ASSUME NEW e \in entries PROVE e[1] \in DOMAIN T /\ T[e[1]] = e[2]
    <3>1. e[1] \in keys
      OBVIOUS
    <3>2. PICK f \in entries : e[1] = f[1] /\ T[e[1]] = f[2]
      BY <3>1, <2>1
    <3>3. e = f
      BY <3>2, <1>1
    <3> QED BY <2>2, <3>1, <3>2, <3>3
  <2> HIDE DEF T, keys, entries
  <2> QED BY <2>1, <2>2, <2>3
<1> HIDE DEF T, keys, entries
<1>6. UnitsOK'
  BY <1>1, <1>3, <1>4, <1>5 DEF UnitsOK, T, keys, Zero, Counters
<1>7. ASSUME NEW u \in DOMAIN build' PROVE TableOK(u)'
  <2>1. Entries(u)' = Entries(u)
    BY DEF Entries
  <2>2. CASE u = unit
    BY <2>1, <2>2, <1>4, <1>5 DEF TableOK, Tabled, entries
  <2>3. CASE u # unit
    BY <2>1, <2>3, <1>4 DEF TableOK, Tabled
  <2> QED BY <2>2, <2>3
<1>8. ASSUME NEW u \in DOMAIN build', NEW k \in (DOMAIN table[u] \ Left(u))' PROVE Written(u, k)'
  <2>1. u # unit
    BY <1>3, <1>4, <1>8 DEF T, Left
  <2>2. Written(u, k)
    BY <2>1, <1>4, <1>8 DEF Left
  <2> QED BY <2>1, <2>2, <1>4 DEF Written
<1>9. (\A c \in Counters : next[c] = Count(header[unit], c))'
  <2>1. \A c : {q \in 1 .. 0 : header[unit][q].dir = c} = {}
    OBVIOUS
  <2> QED BY <2>1, <1>2, FS_EmptySet DEF Counters, Zero, Count
<1>10. NumbersHitTheirLine'
  BY DEF NumbersHitTheirLine
<1> QED BY <1>6, <1>7, <1>8, <1>9, <1>10

(* What a step of the iteration has to do for its key.                     *)
LEMMA IterateStep ==
  ASSUME IInv, NEW k \in pending, Iterate(k), NEW h, IsHeader(h), Extends(header[unit], h),
         header' = [header EXCEPT ![unit] = h],
         DOMAIN index' = DOMAIN index,
         \A u \in DOMAIN build \ {unit} : index'[u] = index[u],
         \A l \in DOMAIN index[unit] \ {k} :
           l \in DOMAIN index'[unit] /\ index'[unit][l] = index[unit][l],
         DOMAIN next' = Counters,
         \A c \in Counters : next'[c] = Count(h, c),
         Written(unit, k)',
         \A p \in DOMAIN h \ DOMAIN header[unit] :
           h[p].dir = "exportvar" => Names(h, "global", h[p].global, h[p].key)
  PROVE  IInv'
<1> USE DEF IInv
<1>1. /\ unit \in DOMAIN build /\ phase = "header"
      /\ header'[unit] = h /\ \A u \in DOMAIN build : u # unit => header'[u] = header[u]
  BY DEF UnitsOK, Iterate
<1>2. UnitsOK'
  BY DEF UnitsOK, Iterate
<1>3. ASSUME NEW u \in DOMAIN build PROVE IsHeader(header[u])' /\ TableOK(u)'
  <2>1. Entries(u)' = Entries(u) /\ Tabled(u)' = Tabled(u) /\ (u = unit => Tabled(u))
    BY <1>1 DEF Entries, Tabled, Iterate
  <2> QED BY <2>1, <1>1 DEF TableOK, Iterate
<1>4. ASSUME NEW u \in DOMAIN build, NEW l \in (DOMAIN table[u] \ Left(u))' PROVE Written(u, l)'
  <2>1. CASE u = unit /\ l = k
    BY <2>1 DEF Written, Iterate
  <2>2. CASE ~(u = unit /\ l = k)
    <3>1. Written(u, l)
      BY <2>2, <1>4, <1>1 DEF Left, Iterate
    <3>2. IsHeader(header[u]) /\ IsHeader(header'[u]) /\ Extends(header[u], header'[u])
      BY <1>1 DEF Extends
    <3>3. \A dir, n : Names(header[u], dir, n, l) => Names(header'[u], dir, n, l)
      BY <3>2, NamesKept
    <3>4. \A dir, e : HasLine(header[u], dir, l, e) => HasLine(header'[u], dir, l, e)
      BY <3>2 DEF HasLine, Extends
    <3>5. l \in DOMAIN index[u] => l \in DOMAIN index'[u] /\ index'[u][l] = index[u][l]
      BY <2>2, <1>1
    <3>6. table' = table
      BY DEF Iterate
    <3> QED BY <3>1, <3>3, <3>4, <3>5, <3>6 DEF Written
  <2> QED BY <2>1, <2>2
<1>5. (\A c \in Counters : next[c] = Count(header[unit], c))'
  BY <1>1 DEF Iterate
<1>6. ASSUME NEW u \in DOMAIN build, NEW i \in code[u]
      PROVE  Names(header'[u], i.dir, i.n, i.of)
  <2>1. Names(header[u], i.dir, i.n, i.of) /\ IsHeader(header[u])
    BY DEF NumbersHitTheirLine
  <2>2. IsHeader(header'[u]) /\ Extends(header[u], header'[u])
    BY <1>1 DEF Extends
  <2> QED BY <2>1, <2>2, NamesKept
<1>7. ASSUME NEW u \in DOMAIN build, NEW p \in DOMAIN header'[u], header'[u][p].dir = "exportvar"
      PROVE  Names(header'[u], "global", header'[u][p].global, header'[u][p].key)
  <2>1. IsHeader(header[u]) /\ IsHeader(header'[u]) /\ Extends(header[u], header'[u])
    BY <1>1 DEF Extends
  <2>2. CASE p \in DOMAIN header[u]
    <3>1. header'[u][p] = header[u][p]
      BY <2>1, <2>2 DEF Extends
    <3>2. Names(header[u], "global", header[u][p].global, header[u][p].key)
      <4>1. header[u][p] \in ToSet(header[u])
        BY <2>2 DEF ToSet
      <4> QED BY <3>1, <4>1, <1>7 DEF NumbersHitTheirLine
    <3> QED BY <2>1, <3>1, <3>2, NamesKept
  <2>3. CASE p \notin DOMAIN header[u]
    BY <2>3, <1>1, <1>7
  <2> QED BY <2>2, <2>3
<1>8. NumbersHitTheirLine'
  BY <1>6, <1>7 DEF NumbersHitTheirLine, ToSet, Iterate
<1>9. DOMAIN build' = DOMAIN build
  BY DEF Iterate
<1> QED BY <1>2, <1>3, <1>4, <1>5, <1>8, <1>9
LEMMA GlobalVariableStep ==
  ASSUME IInv, NEW k \in pending, GlobalVariable(k)
  PROVE  IInv'
<1> DEFINE e == table[unit][k]
           g == header[unit]
           n == next.global
           f == IF e.linkage = "export" THEN Append(g, ExportVar(k, e, n)) ELSE g
           l == Line("global", k, e)
           h == Append(f, l)
<1> USE DEF IInv
<1>1. /\ Iterate(k) /\ phase = "header" /\ unit \in DOMAIN build /\ IsHeader(g)
      /\ k \in DOMAIN table[unit] /\ table' = table /\ build' = build /\ unit' = unit
      /\ k[1] = "var" /\ e.linkage \in {"export", "internal"}
  BY DEF GlobalVariable, Iterate, UnitsOK
<1>2. IsHeader(f) /\ Extends(g, f) /\ IsHeader(h) /\ Extends(f, h)
  <2>1. IsHeader(f) /\ Extends(g, f)
    BY <1>1, AppendLine DEF Extends
  <2> QED BY <2>1, AppendLine
<1>3. Extends(g, h)
  BY <1>2 DEF Extends
<1>4. /\ header' = [header EXCEPT ![unit] = h] /\ header'[unit] = h
  <2>1. CASE e.linkage = "export"
    <3>1. g \o (<<ExportVar(k, e, n)>> \o <<l>>) = (g \o <<ExportVar(k, e, n)>>) \o <<l>>
      BY <1>1 DEF IsHeader
    <3>2. g \o (<<ExportVar(k, e, n)>> \o <<l>>) = h
      BY <2>1, <3>1, <1>1, <1>2, AppendLine
    <3> QED BY <2>1, <3>2, <1>1 DEF GlobalVariable, Emit, UnitsOK
  <2>2. CASE e.linkage = "internal"
    <3>1. g \o (<<>> \o <<l>>) = h
      BY <2>2, <1>1, AppendLine
    <3> QED BY <2>2, <3>1, <1>1 DEF GlobalVariable, Emit, UnitsOK
  <2> QED BY <2>1, <2>2, <1>1
<1>5. n = Count(g, "global") /\ n = Count(f, "global") /\ n \in Nat
  <2>1. n = Count(g, "global")
    BY <1>1 DEF Counters
  <2> QED BY <2>1, <1>1, CountAppend DEF ExportVar
<1>6. Names(h, "global", n, k)
  BY <1>2, <1>5, NewLine DEF Line
<1>7. \A c \in Counters : next'[c] = Count(h, c)
  <2>1. ASSUME NEW c \in Counters PROVE next[c] = Count(f, c)
    BY <1>1, CountAppend DEF ExportVar, Counters
  <2>2. ASSUME NEW c \in Counters PROVE next'[c] = IF c = "global" THEN next[c] + 1 ELSE next[c]
    BY DEF GlobalVariable, Number, UnitsOK
  <2> QED BY <2>1, <2>2, <1>2, CountAppend DEF Line
<1>8. /\ DOMAIN index' = DOMAIN index
      /\ \A u \in DOMAIN build \ {unit} : index'[u] = index[u]
      /\ \A j \in DOMAIN index[unit] \ {k} : j \in DOMAIN index'[unit] /\ index'[unit][j] = index[unit][j]
      /\ k \in DOMAIN index'[unit] /\ index'[unit][k] = n
  BY <1>1 DEF GlobalVariable, Number, UnitsOK
<1>9. /\ \A p \in DOMAIN h \ DOMAIN g : h[p].dir = "exportvar" => h[p].global = n /\ h[p].key = k
      /\ e.linkage = "export" => HasLine(h, "exportvar", k, e)
  <2>1. /\ DOMAIN h = 1 .. Len(f) + 1 /\ DOMAIN f = 1 .. Len(f) /\ Len(f) \in Nat
        /\ DOMAIN g = 1 .. Len(g) /\ Len(g) \in Nat /\ h[Len(f) + 1] = l
    BY <1>1, <1>2, HeaderLength, AppendLine
  <2>2. l.dir # "exportvar"
    BY DEF Line
  <2>3. CASE e.linkage = "export"
    <3>1. Len(f) = Len(g) + 1 /\ f[Len(g) + 1] = ExportVar(k, e, n)
      BY <2>3, <1>1, AppendLine
    <3>2. /\ h[Len(g) + 1].dir = "exportvar" /\ h[Len(g) + 1].key = k
          /\ h[Len(g) + 1].user_id = e.user_id /\ h[Len(g) + 1].global = n
          /\ Len(g) + 1 \in DOMAIN h
      <4>1. Len(g) + 1 \in DOMAIN f
        BY <2>1, <3>1
      <4>2. h[Len(g) + 1] = ExportVar(k, e, n) /\ Len(g) + 1 \in DOMAIN h
        BY <4>1, <3>1, <1>2 DEF Extends
      <4> QED BY <4>2 DEF ExportVar
    <3>3. \A p \in DOMAIN h \ DOMAIN g : p = Len(g) + 1 \/ h[p] = l
      BY <2>1, <3>1
    <3>4. HasLine(h, "exportvar", k, e)
      BY <3>2 DEF HasLine
    <3>5. \A p \in DOMAIN h \ DOMAIN g : h[p].dir = "exportvar" => h[p].global = n /\ h[p].key = k
      BY <2>2, <3>2, <3>3
    <3> QED BY <3>4, <3>5
  <2>4. CASE e.linkage = "internal"
    <3>1. f = g
      BY <2>4
    <3>2. \A p \in DOMAIN h \ DOMAIN g : h[p] = l
      <4> HIDE DEF f, g, h, l
      <4> QED BY <2>1, <3>1
    <3> QED BY <2>2, <2>4, <3>2
  <2> QED BY <2>3, <2>4, <1>1
<1>10. DOMAIN next' = Counters
  BY DEF GlobalVariable, Number, UnitsOK
<1>11. Written(unit, k)'
  BY <1>1, <1>4, <1>6, <1>8, <1>9 DEF Written, VarDir
<1> QED
  <2> HIDE DEF h, n, g
  <2> QED BY <1>1, <1>2, <1>3, <1>4, <1>6, <1>7, <1>8, <1>9, <1>10, <1>11, IterateStep DEF g
(* An imported variable and a function have one line at most.              *)
LEMMA NumberedLineStep ==
  ASSUME IInv, NEW k \in pending, Iterate(k), NEW dir \in {"importvar", "importfun"},
         Emit(<<Line(dir, k, table[unit][k])>>), Number(k, dir),
         table[unit][k].linkage = "extern",
         k[1] = IF dir = "importvar" THEN "var" ELSE "fun"
  PROVE  IInv'
<1> DEFINE e == table[unit][k]
           g == header[unit]
           n == next[dir]
           l == Line(dir, k, e)
           h == Append(g, l)
<1> USE DEF IInv
<1>1. /\ phase = "header" /\ unit \in DOMAIN build /\ IsHeader(g)
      /\ k \in DOMAIN table[unit] /\ table' = table /\ build' = build /\ unit' = unit
  BY DEF Iterate, UnitsOK
<1>2. /\ IsHeader(h) /\ Extends(g, h) /\ Len(h) = Len(g) + 1 /\ h[Len(g) + 1] = l
      /\ DOMAIN h = 1 .. Len(h) /\ DOMAIN g = 1 .. Len(g) /\ Len(g) \in Nat
  BY <1>1, AppendLine, HeaderLength
<1>3. /\ header' = [header EXCEPT ![unit] = h] /\ header'[unit] = h
  <2>1. g \o <<l>> = h
    BY <1>1, AppendLine
  <2> QED BY <2>1, <1>1 DEF Emit, UnitsOK
<1>4. Names(h, dir, n, k)
  BY <1>1, NewLine DEF Line, Counters
<1>5. DOMAIN next' = Counters /\ \A c \in Counters : next'[c] = Count(h, c)
  <2>1. \A c \in Counters : Count(h, c) = IF c = dir THEN Count(g, c) + 1 ELSE Count(g, c)
    BY <1>1, CountAppend DEF Line
  <2> QED BY <2>1, <1>1 DEF Number, UnitsOK
<1>6. /\ DOMAIN index' = DOMAIN index
      /\ \A u \in DOMAIN build \ {unit} : index'[u] = index[u]
      /\ \A j \in DOMAIN index[unit] \ {k} : j \in DOMAIN index'[unit] /\ index'[unit][j] = index[unit][j]
      /\ k \in DOMAIN index'[unit] /\ index'[unit][k] = n
  BY <1>1 DEF Number, UnitsOK
<1>7. l.dir = dir /\ l.key = k /\ l.user_id = e.user_id
  BY DEF Line
<1>8. \A p \in DOMAIN h \ DOMAIN g : h[p].dir # "exportvar"
  <2>1. \A p \in DOMAIN h \ DOMAIN g : h[p] = l
    <3> HIDE DEF g, h, l
    <3> QED BY <1>2
  <2> QED BY <2>1, <1>7
<1>9. HasLine(h, dir, k, e)
  BY <1>2, <1>7 DEF HasLine
<1>10. Written(unit, k)'
  BY <1>1, <1>3, <1>4, <1>6, <1>9 DEF Written, VarDir
<1> QED
  <2> HIDE DEF h, n, g
  <2> QED BY <1>1, <1>2, <1>3, <1>5, <1>6, <1>8, <1>10, IterateStep DEF g

LEMMA FunctionStep ==
  ASSUME IInv, NEW k \in pending, Function(k)
  PROVE  IInv'
<1> DEFINE e == table[unit][k]
           g == header[unit]
           l == Line("exportfun", k, e)
           h == Append(g, l)
<1>1. /\ Iterate(k) /\ k[1] = "fun" /\ phase = "header" /\ unit \in DOMAIN build /\ IsHeader(g)
      /\ k \in DOMAIN table[unit] /\ table' = table /\ build' = build /\ unit' = unit
      /\ DOMAIN next = Counters /\ \A c \in Counters : next[c] = Count(g, c)
  BY DEF Function, Iterate, IInv, UnitsOK
<1>2. CASE e.linkage = "extern"
  <2>1. Emit(<<Line("importfun", k, e)>>) /\ Number(k, "importfun")
    BY <1>2 DEF Function
  <2> QED BY <1>1, <1>2, <2>1, NumberedLineStep
<1>3. CASE e.linkage = "export"
  <2>1. Emit(<<l>>) /\ UNCHANGED <<index, next>>
    BY <1>3 DEF Function
  <2>2. /\ IsHeader(h) /\ Extends(g, h) /\ Len(h) = Len(g) + 1 /\ h[Len(g) + 1] = l
        /\ DOMAIN h = 1 .. Len(h) /\ DOMAIN g = 1 .. Len(g) /\ Len(g) \in Nat
    BY <1>1, AppendLine, HeaderLength
  <2>3. header' = [header EXCEPT ![unit] = h] /\ header'[unit] = h
    <3>1. g \o <<l>> = h
      BY <1>1, AppendLine
    <3> QED BY <2>1, <3>1, <1>1 DEF Emit, IInv, UnitsOK
  <2>4. l.dir = "exportfun" /\ l.key = k /\ l.user_id = e.user_id
    BY DEF Line
  <2>5. \A c \in Counters : next'[c] = Count(h, c)
    BY <1>1, <2>1, <2>4, CountAppend DEF Counters
  <2>6. \A p \in DOMAIN h \ DOMAIN g : h[p].dir # "exportvar"
    <3>1. \A p \in DOMAIN h \ DOMAIN g : h[p] = l
      <4> HIDE DEF g, h, l
      <4> QED BY <2>2
    <3> QED BY <3>1, <2>4
  <2>7. HasLine(h, "exportfun", k, e)
    BY <2>2, <2>4 DEF HasLine
  <2>8. Written(unit, k)'
    BY <1>1, <1>3, <2>3, <2>7 DEF Written
  <2> HIDE DEF h, g
  <2> QED BY <1>1, <2>1, <2>2, <2>3, <2>5, <2>6, <2>8, IterateStep DEF g
<1>4. CASE e.linkage = "internal"
  <2>1. UNCHANGED <<header, index, next>>
    BY <1>4 DEF Function
  <2>2. Extends(g, g) /\ header' = [header EXCEPT ![unit] = g]
    BY <1>1, <2>1 DEF Extends, IInv, UnitsOK
  <2>3. Written(unit, k)'
    BY <1>1, <1>4 DEF Written
  <2> QED BY <1>1, <2>1, <2>2, <2>3, IterateStep
<1> QED BY <1>2, <1>3, <1>4 DEF Function

LEMMA CodegenStep == IInv /\ Codegen => IInv'
<1> SUFFICES ASSUME IInv, Codegen PROVE IInv'
  OBVIOUS
<1> USE DEF IInv
<1>1. /\ unit \in DOMAIN build /\ Len(build) \in Nat /\ DOMAIN build = 1 .. Len(build)
      /\ phase = "codegen" /\ pending = {} /\ Tabled(unit)
      /\ UNCHANGED <<build, pending, next, table, index, header>>
  BY BuildUnits DEF UnitsOK, Codegen, Tabled
<1>2. \/ unit < Len(build) /\ unit' = unit + 1 /\ phase' = "extract" /\ decls' = build[unit + 1]
      \/ unit = Len(build) /\ unit' = unit /\ phase' = "linked"
  BY <1>1 DEF Codegen
<1>3. UnitsOK'
  <2>1. DOMAIN code' = DOMAIN code
    BY DEF Codegen
  <2> QED BY <2>1, <1>1, <1>2 DEF UnitsOK
<1>4. \A u \in DOMAIN build : Tabled(u)' <=> Tabled(u)
  BY <1>1, <1>2 DEF Tabled
<1>5. DOMAIN code' = DOMAIN code /\ \A u \in DOMAIN build \ {unit} : code'[u] = code[u]
  BY DEF Codegen, UnitsOK
<1>6. ASSUME NEW u \in DOMAIN build PROVE TableOK(u)'
  BY <1>1, <1>4, <1>5 DEF TableOK, Entries
<1>7. ASSUME NEW u \in DOMAIN build, NEW k \in DOMAIN table[u] PROVE Written(u, k)'
  BY <1>1, <1>7 DEF Written, Left
<1>8. ASSUME NEW i \in code'[unit] PROVE Names(header[unit], i.dir, i.n, i.of)
  <2>1. ASSUME NEW k \in DOMAIN table[unit], k[1] = "var", i = Access(k)
        PROVE  Names(header[unit], i.dir, i.n, i.of)
    <3>1. Written(unit, k)
      BY <1>1 DEF Left
    <3> QED BY <2>1, <3>1 DEF Written, Access, VarDir
  <2>2. ASSUME NEW k \in DOMAIN table[unit], k[1] = "fun", table[unit][k].linkage = "extern",
               i = ExternCall(k)
        PROVE  Names(header[unit], i.dir, i.n, i.of)
    <3>1. Written(unit, k)
      BY <1>1 DEF Left
    <3> QED BY <2>2, <3>1 DEF Written, ExternCall
  <2>3. code'[unit] = {Access(k) : k \in {l \in DOMAIN table[unit] : l[1] = "var"}}
                        \cup {ExternCall(k) : k \in {l \in DOMAIN table[unit] :
                                l[1] = "fun" /\ table[unit][l].linkage = "extern"}}
    BY <1>1 DEF Codegen, UnitsOK
  <2> QED BY <1>8, <2>1, <2>2, <2>3
<1>9. NumbersHitTheirLine'
  <2>1. ASSUME NEW u \in DOMAIN build, NEW i \in code'[u]
        PROVE  Names(header[u], i.dir, i.n, i.of)
    <3>1. CASE u = unit
      BY <2>1, <3>1, <1>8
    <3>2. CASE u # unit
      BY <2>1, <3>2, <1>5 DEF NumbersHitTheirLine
    <3> QED BY <3>1, <3>2
  <2> QED BY <2>1, <1>1 DEF NumbersHitTheirLine
<1>10. phase' # "header" /\ build' = build /\ table' = table /\ header' = header
  BY <1>1, <1>2
<1> QED BY <1>3, <1>6, <1>7, <1>9, <1>10

LEMMA NextIInv == IInv /\ [Next]_vars => IInv'
<1> SUFFICES ASSUME IInv, [Next]_vars PROVE IInv'
  OBVIOUS
<1>1. CASE ExtractAndInit
  <2>1. /\ UNCHANGED <<build, unit, pending, next, table, index, header, code>>
        /\ phase = "extract" /\ phase' = "symtables"
    BY <1>1 DEF ExtractAndInit
  <2>2. UnitsOK'
    BY <1>1, <2>1 DEF IInv, UnitsOK, ExtractAndInit
  <2>3. \A u : Tabled(u)' = Tabled(u) /\ Left(u)' = Left(u) /\ Entries(u)' = Entries(u)
    BY <2>1 DEF Tabled, Left, Entries
  <2>4. \A u : TableOK(u)' = TableOK(u)
    BY <2>1, <2>3 DEF TableOK
  <2>5. \A u, k : Written(u, k)' = Written(u, k)
    BY <2>1 DEF Written
  <2> QED BY <2>1, <2>2, <2>3, <2>4, <2>5 DEF IInv, NumbersHitTheirLine
<1>2. CASE InitSymtables
  BY <1>2, InitSymtablesStep
<1>3. ASSUME NEW k \in pending, GlobalVariable(k) PROVE IInv'
  BY <1>3, GlobalVariableStep
<1>4. ASSUME NEW k \in pending, ImportedVariable(k) PROVE IInv'
  BY <1>4, NumberedLineStep DEF ImportedVariable
<1>5. ASSUME NEW k \in pending, Function(k) PROVE IInv'
  BY <1>5, FunctionStep
<1>6. CASE HeaderDone
  <2>1. /\ UNCHANGED <<build, unit, decls, pending, next, table, index, header, code>>
        /\ phase = "header" /\ phase' = "codegen" /\ pending = {}
    BY <1>6 DEF HeaderDone
  <2>2. UnitsOK'
    BY <2>1 DEF IInv, UnitsOK
  <2>3. \A u : Tabled(u)' = Tabled(u) /\ Left(u)' = Left(u) /\ Entries(u)' = Entries(u)
    BY <2>1 DEF Tabled, Left, Entries
  <2>4. \A u : TableOK(u)' = TableOK(u)
    BY <2>1, <2>3 DEF TableOK
  <2>5. \A u, k : Written(u, k)' = Written(u, k)
    BY <2>1 DEF Written
  <2> QED BY <2>1, <2>2, <2>3, <2>4, <2>5 DEF IInv, NumbersHitTheirLine
<1>7. CASE Codegen
  BY <1>7, CodegenStep
<1>8. CASE UNCHANGED vars
  BY <1>8 DEF vars, IInv, UnitsOK, Tabled, TableOK, Entries, Written, Left, NumbersHitTheirLine
<1> QED BY <1>1, <1>2, <1>3, <1>4, <1>5, <1>6, <1>7, <1>8 DEF Next

LEMMA AlwaysIInv == Spec => []IInv
BY InitIInv, NextIInv, PTL DEF Spec

(* For all programs and in every order in which the hash table can be      *)
(* read, the number in an instruction is that of the line of the name that *)
(* it uses, and so is the number in the line of an exported variable.      *)
THEOREM NumbersAreRight == Spec => []NumbersHitTheirLine
<1>1. IInv => NumbersHitTheirLine
  BY DEF IInv
<1> QED BY <1>1, AlwaysIInv, PTL
(* A number is that of one line of a kind.                                 *)
LEMMA OneLinePerNumber ==
  ASSUME NEW h, IsHeader(h), NEW dir, NEW n, NEW p, NEW q,
         IsLine(h, p, dir, n), IsLine(h, q, dir, n)
  PROVE  p = q
<1> DEFINE Before(r) == {s \in 1 .. r - 1 : h[s].dir = dir}
<1>1. ASSUME NEW r, NEW s, IsLine(h, r, dir, n), IsLine(h, s, dir, n), r < s
      PROVE  FALSE
  <2>1. r \in Nat \ {0} /\ s \in Nat \ {0} /\ h[r].dir = dir
    BY <1>1, HeaderLength DEF IsLine
  <2>2. Cardinality(Before(r)) = Cardinality(Before(s))
    BY <1>1 DEF IsLine, Numbered
  <2>3. IsFiniteSet(1 .. s - 1) /\ IsFiniteSet(1 .. r - 1)
    BY <2>1, FS_Interval
  <2>4. IsFiniteSet(Before(s)) /\ IsFiniteSet(Before(r))
    BY <2>3, FS_Subset
  <2>5. Before(r) \subseteq Before(s) /\ r \in Before(s) /\ r \notin Before(r)
    BY <1>1, <2>1
  <2> QED BY <2>2, <2>4, <2>5, FS_Subset
<1>2. p \in Nat /\ q \in Nat
  BY HeaderLength DEF IsLine
<1> QED BY <1>1, <1>2

-----------------------------------------------------------------------------
(* Of a name that one unit imports and another one exports the linker has  *)
(* both lines.                                                             *)
LEMMA EntriesAreLinked ==
  ASSUME IInv, phase = "linked",
         NEW u \in DOMAIN build, NEW v \in DOMAIN build,
         NEW kind \in {"var", "fun"}, NEW i, NEW x, NEW e, NEW f,
         <<<<kind, i>>, e>> \in Entries(u), e.linkage = "extern",
         <<<<kind, x>>, f>> \in Entries(v), f.linkage = "export",
         e.user_id = f.user_id
  PROVE  LinkedTo(u, <<kind, i>>, v, <<kind, x>>)
<1> DEFINE k == <<kind, i>>
           l == <<kind, x>>
<1>1. Tabled(u) /\ Tabled(v) /\ Left(u) = {} /\ Left(v) = {}
  BY BuildUnits DEF IInv, UnitsOK, Tabled, Left
<1>2. /\ k \in DOMAIN table[u] /\ table[u][k] = e
      /\ l \in DOMAIN table[v] /\ table[v][l] = f
  BY <1>1 DEF IInv, TableOK
<1>3. Written(u, k) /\ Written(v, l)
  BY <1>1, <1>2 DEF IInv
<1>4. CASE kind = "var"
  <2>1. HasLine(header[u], "importvar", k, e) /\ HasLine(header[v], "exportvar", l, f)
    BY <1>2, <1>3, <1>4 DEF Written
  <2> QED BY <2>1 DEF HasLine, LinkedTo, Joined, ToSet
<1>5. CASE kind = "fun"
  <2>1. HasLine(header[u], "importfun", k, e) /\ HasLine(header[v], "exportfun", l, f)
    BY <1>2, <1>3, <1>5 DEF Written
  <2> QED BY <2>1 DEF HasLine, LinkedTo, Joined, ToSet
<1> QED BY <1>4, <1>5

(* For all programs and in every order in which the hash table can be      *)
(* read: a variable, array or function that a unit declares and another    *)
(* one exports is linked to it, and an array's first dimension to its own. *)
THEOREM ImportsAreLinked == Spec => []ImportsFindTheirVariable
<1>1. IInv => ImportsFindTheirVariable
  <2> SUFFICES ASSUME IInv, phase = "linked", NEW u \in DOMAIN build, NEW v \in DOMAIN build,
                      NEW c \in build[u], NEW d \in build[v]
               PROVE  /\ c.node = "globaldec" /\ Exporter(u, c.id, "globaldef", v, d) =>
                           /\ LinkedTo(u, <<"var", c.id>>, v, <<"var", c.id>>)
                           /\ \A i \in DOMAIN c.ids : i <= d.dims =>
                                \/ LinkedTo(u, <<"var", c.ids[i]>>, v, <<"var", Append(d.id, 2 * (i - 1))>>)
                                \/ i > 1
                      /\ c.node = "fundec" /\ Exporter(u, c.id, "fundef", v, d) =>
                           LinkedTo(u, <<"fun", c.id>>, v, <<"fun", c.id>>)
    BY ZenonT(30) DEF ImportsFindTheirVariable
  <2>1. c \in Extracted(build[u]) /\ d \in Extracted(build[v]) /\ IsDeclaration(c) /\ IsDeclaration(d)
    BY BuildsAssumption DEF Extracted, IInv, UnitsOK
  <2>2. ASSUME c.node = "globaldec", Exporter(u, c.id, "globaldef", v, d)
        PROVE  LinkedTo(u, <<"var", c.id>>, v, <<"var", c.id>>)
    <3> DEFINE e == Entry("extern", c.id, Type(c.type, Len(c.ids)), <<>>)
               f == Entry("export", d.id, Type(d.type, d.dims), <<>>)
    <3>1. <<<<"var", c.id>>, e>> \in Entries(u)
      BY <2>1, <2>2 DEF Entries, EntriesOf, Of
    <3>2. <<<<"var", c.id>>, f>> \in Entries(v) /\ d.id = c.id
      BY <2>1, <2>2 DEF Entries, EntriesOf, Of, Exporter, Linkage
    <3>3. e.linkage = "extern" /\ f.linkage = "export" /\ e.user_id = f.user_id
      BY <3>2 DEF Entry
    <3> HIDE DEF e, f
    <3> QED BY <3>1, <3>2, <3>3, EntriesAreLinked
  <2>3. ASSUME c.node = "globaldec", Exporter(u, c.id, "globaldef", v, d),
               NEW i \in DOMAIN c.ids, i <= d.dims, ~(i > 1)
        PROVE  LinkedTo(u, <<"var", c.ids[i]>>, v, <<"var", Append(d.id, 2 * (i - 1))>>)
    <3>1. i = 1 /\ 1 \in 1 .. d.dims /\ d.node = "globaldef" /\ d.id = c.id /\ d.export
      BY <2>1, <2>3 DEF IsDeclaration, Exporter
    <3> DEFINE dim == GlobalDef("int", Append(d.id, 2 * (1 - 1)), 0, d.export)
               e == Entry("extern", Append(c.id, 1 - 1), Type("int", 0), <<>>)
               f == Entry("export", dim.id, Type(dim.type, dim.dims), <<>>)
    <3>2. <<<<"var", c.ids[1]>>, e>> \in Entries(u)
      BY <2>1, <2>3, <3>1 DEF Entries, EntriesOf, Of
    <3>3. dim \in Extracted(build[v]) /\ dim.node = "globaldef" /\ dim.export
      <4>1. dim \in mkGlobalDefExprs(d) /\ d \in Of(build[v], "globaldef")
        BY <3>1 DEF mkGlobalDefExprs, Of
      <4>2. dim.node = "globaldef" /\ dim.export
        BY <3>1 DEF GlobalDef
      <4> QED BY <4>1, <4>2 DEF Extracted
    <3>4. <<<<"var", dim.id>>, f>> \in Entries(v)
      <4>1. dim \in Of(Extracted(build[v]), "globaldef") /\ Linkage(dim) = "export"
        BY <3>3 DEF Of, Linkage
      <4> HIDE DEF dim
      <4> QED BY <4>1 DEF Entries, EntriesOf
    <3>5. dim.id = Append(d.id, 2 * (i - 1)) /\ dim.id = Append(c.id, 1 - 1)
      BY <3>1 DEF GlobalDef
    <3>6. e.linkage = "extern" /\ f.linkage = "export" /\ e.user_id = f.user_id
      BY <3>5 DEF Entry
    <3> HIDE DEF e, f, dim
    <3> QED BY <3>1, <3>2, <3>4, <3>5, <3>6, EntriesAreLinked
  <2>4. ASSUME c.node = "fundec", Exporter(u, c.id, "fundef", v, d)
        PROVE  LinkedTo(u, <<"fun", c.id>>, v, <<"fun", c.id>>)
    <3> DEFINE e == Entry("extern", c.id, Type(c.type, 0), ArgTypes(c.params))
               f == Entry("export", d.id, Type(d.type, 0), ArgTypes(d.params))
    <3>1. <<<<"fun", c.id>>, e>> \in Entries(u)
      BY <2>1, <2>4 DEF Entries, EntriesOf, Of
    <3>2. <<<<"fun", c.id>>, f>> \in Entries(v) /\ d.id = c.id
      BY <2>1, <2>4 DEF Entries, EntriesOf, Of, Exporter, Linkage
    <3>3. e.linkage = "extern" /\ f.linkage = "export" /\ e.user_id = f.user_id
      BY <3>2 DEF Entry
    <3> HIDE DEF e, f
    <3> QED BY <3>1, <3>2, <3>3, EntriesAreLinked
  <2> QED BY <2>2, <2>3, <2>4
<1> QED BY <1>1, AlwaysIInv, PTL
-----------------------------------------------------------------------------
(* What calls push.                                                        *)
(* Induction, with the set of the numbers that a statement holds for.      *)
LEMMA Least ==
  ASSUME NEW T, T \subseteq Nat, T # {}
  PROVE  \E n \in T : \A m \in T : n <= m
<1>1. PICK n \in T : \A m \in T : ~ (<<m, n>> \in OpToRel(<, Nat))
  BY WFMin, NatLessThanWellFounded
<1>2. \A m \in T : ~ (m < n)
  BY <1>1 DEF OpToRel
<1> QED BY <1>2

LEMMA AllNumbers ==
  ASSUME NEW T, 0 \in T, \A n \in Nat : n \in T => n + 1 \in T
  PROVE  \A n \in Nat : n \in T
<1> DEFINE U == {n \in Nat : n \notin T}
<1> SUFFICES ASSUME U # {} PROVE FALSE
  OBVIOUS
<1>1. PICK n \in U : \A m \in U : n <= m
  BY Least
<1>2. n # 0 /\ n - 1 \in Nat /\ n - 1 \notin U /\ (n - 1) + 1 = n
  BY <1>1
<1> QED BY <1>1, <1>2

(* What FlattenSeq has after its first n sequences.                        *)
Flattens(seqs, n, fl) ==
  fl = [i \in 1 .. n |-> IF i = 1 THEN seqs[i] ELSE fl[i - 1] \o seqs[i]]

LEMMA FlatExists ==
  ASSUME NEW seqs
  PROVE  \A n \in Nat : \E fl : Flattens(seqs, n, fl)
<1> DEFINE T == {n \in Nat : \E fl : Flattens(seqs, n, fl)}
<1>1. 0 \in T
  <2> DEFINE none == [i \in 1 .. 0 |-> 0]
  <2>1. Flattens(seqs, 0, none)
    BY DEF Flattens
  <2> QED BY <2>1
<1>2. ASSUME NEW n \in Nat, n \in T PROVE n + 1 \in T
  <2>1. PICK fl : Flattens(seqs, n, fl)
    BY <1>2
  <2> DEFINE more == [i \in 1 .. n + 1 |-> IF i = 1 THEN seqs[i] ELSE fl[i - 1] \o seqs[i]]
  <2>2. \A i \in 1 .. n : more[i] = fl[i]
    <3>1. fl = [i \in 1 .. n |-> IF i = 1 THEN seqs[i] ELSE fl[i - 1] \o seqs[i]]
      BY <2>1 DEF Flattens
    <3>2. \A i \in 1 .. n : fl[i] = IF i = 1 THEN seqs[i] ELSE fl[i - 1] \o seqs[i]
      BY ONLY <3>1, Zenon
    <3>3. \A i \in 1 .. n : i \in 1 .. n + 1
      OBVIOUS
    <3>4. \A i \in 1 .. n + 1 : more[i] = IF i = 1 THEN seqs[i] ELSE fl[i - 1] \o seqs[i]
      OBVIOUS
    <3> HIDE DEF more
    <3> QED BY <3>2, <3>3, <3>4, Zenon
  <2>3. \A i \in 1 .. n + 1 : i # 1 => i - 1 \in 1 .. n
    OBVIOUS
  <2>4. \A i \in 1 .. n + 1 : more[i] = IF i = 1 THEN seqs[i] ELSE more[i - 1] \o seqs[i]
    BY <2>2, <2>3
  <2>5. more = [i \in 1 .. n + 1 |-> IF i = 1 THEN seqs[i] ELSE more[i - 1] \o seqs[i]]
    <3>1. more = [i \in 1 .. n + 1 |-> more[i]]
      OBVIOUS
    <3> HIDE DEF more
    <3> QED BY <2>4, <3>1
  <2>6. Flattens(seqs, n + 1, more)
    BY <2>5 DEF Flattens
  <2> QED BY <2>6
<1> HIDE DEF T
<1>3. \A n \in Nat : n \in T
  BY <1>1, <1>2, AllNumbers
<1> QED BY <1>3 DEF T

LEMMA FlattenFacts ==
  ASSUME NEW seqs, Len(seqs) \in Nat \ {0}
  PROVE  \E fl : Flattens(seqs, Len(seqs), fl) /\ FlattenSeq(seqs) = fl[Len(seqs)]
<1> DEFINE fl == CHOOSE g : Flattens(seqs, Len(seqs), g)
<1>1. Flattens(seqs, Len(seqs), fl)
  BY FlatExists
<1>2. FlattenSeq(seqs) = fl[Len(seqs)]
  BY DEF FlattenSeq, Flattens
<1> QED BY <1>1, <1>2

(* What is pushed for one parameter: numbers, then its own value.          *)
Part(p) == [j \in 1 .. p.dims |-> Type("int", 0)] \o <<Type(p.type, p.dims)>>

LEMMA PartFacts ==
  ASSUME NEW p, p.dims \in Nat
  PROVE  /\ Part(p) \in Seq({Type("int", 0), Type(p.type, p.dims)})
         /\ Len(Part(p)) = p.dims + 1
         /\ Part(p)[p.dims + 1] = Type(p.type, p.dims)
         /\ \A j \in 1 .. p.dims : Part(p)[j] = Type("int", 0)
<1> DEFINE V == {Type("int", 0), Type(p.type, p.dims)}
           s == [j \in 1 .. p.dims |-> Type("int", 0)]
           v == Type(p.type, p.dims)
<1>1. s \in Seq(V) /\ Len(s) = p.dims /\ \A j \in 1 .. p.dims : s[j] = Type("int", 0)
  OBVIOUS
<1>2. v \in V
  OBVIOUS
<1>3. Part(p) = s \o <<v>>
  BY DEF Part
<1> HIDE DEF s, v, V
<1>4. IsHeader(s) /\ Append(s, v) \in Seq(V)
  BY <1>1, <1>2, AppendProperties DEF IsHeader
<1>5. /\ s \o <<v>> = Append(s, v) /\ Len(Append(s, v)) = p.dims + 1
      /\ Append(s, v)[p.dims + 1] = v /\ Extends(s, Append(s, v))
  BY <1>1, <1>4, AppendLine
<1>6. \A j \in 1 .. p.dims : j \in DOMAIN s
  BY <1>1
<1>7. \A j \in 1 .. p.dims : Append(s, v)[j] = s[j]
  BY <1>5, <1>6 DEF Extends
<1> QED BY <1>1, <1>3, <1>4, <1>5, <1>7 DEF V, v

(* pushed up to at[n] is for the first n parameters.                       *)
Placed(types, pushed, n, at) ==
  /\ at \in [0 .. n -> 0 .. Len(pushed)]
  /\ at[0] = 0 /\ at[n] = Len(pushed)
  /\ \A i \in 1 .. n :
       /\ at[i - 1] < at[i] /\ pushed[at[i]] = types[i]
       /\ \A m \in at[i - 1] + 1 .. at[i] - 1 :
            pushed[m] = Type("int", 0) /\ types[i][2] = "array"

LEMMA PlaceNext ==
  ASSUME NEW V, NEW pushed \in Seq(V), NEW n \in Nat, NEW types, NEW at, Placed(types, pushed, n, at),
         NEW p, p.dims \in Nat, types[n + 1] = Type(p.type, p.dims)
  PROVE  \E to : Placed(types, pushed \o Part(p), n + 1, to)
<1> DEFINE q == pushed \o Part(p)
           l == Len(pushed)
           to == [i \in 0 .. n + 1 |-> IF i = n + 1 THEN l + p.dims + 1 ELSE at[i]]
           W == V \cup {Type("int", 0), Type(p.type, p.dims)}
           r == Part(p)
<1>1. l \in Nat /\ pushed \in Seq(W) /\ r \in Seq(W) /\ Len(r) = p.dims + 1
  <2>1. r \in Seq({Type("int", 0), Type(p.type, p.dims)}) /\ Len(r) = p.dims + 1
    BY PartFacts
  <2>2. {Type("int", 0), Type(p.type, p.dims)} \subseteq W /\ V \subseteq W
    OBVIOUS
  <2> HIDE DEF r, W
  <2> QED BY <2>1, <2>2
<1> HIDE DEF r
<1>2. /\ Len(q) = l + p.dims + 1
      /\ \A m \in 1 .. l : q[m] = pushed[m]
      /\ \A m \in l + 1 .. l + p.dims + 1 : q[m] = r[m - l]
  <2> HIDE DEF W
  <2>1. q = pushed \o r
    BY DEF r
  <2>2. Len(pushed \o r) = l + (p.dims + 1)
    BY <1>1, ConcatProperties
  <2>3. \A m \in 1 .. l + (p.dims + 1) :
          (pushed \o r)[m] = IF m <= l THEN pushed[m] ELSE r[m - l]
    BY <1>1, ConcatProperties
  <2> HIDE DEF q, l
  <2>4. l + (p.dims + 1) = l + p.dims + 1
    BY <1>1
  <2>5. \A m \in 1 .. l : m \in 1 .. l + (p.dims + 1) /\ m <= l
    BY <1>1
  <2>6. \A m \in l + 1 .. l + p.dims + 1 : m \in 1 .. l + (p.dims + 1) /\ ~ (m <= l)
    BY <1>1
  <2> QED BY <2>1, <2>2, <2>3, <2>4, <2>5, <2>6
<1>3. /\ at \in [0 .. n -> 0 .. l] /\ at[0] = 0 /\ at[n] = l
      /\ \A i \in 1 .. n :
           /\ at[i - 1] < at[i] /\ pushed[at[i]] = types[i]
           /\ \A m \in at[i - 1] + 1 .. at[i] - 1 :
                pushed[m] = Type("int", 0) /\ types[i][2] = "array"
  BY DEF Placed
<1>4. /\ \A i \in 0 .. n : to[i] = at[i] /\ at[i] \in 0 .. l
      /\ to[n + 1] = l + p.dims + 1
  <2>1. \A i \in 0 .. n : i \in 0 .. n + 1 /\ i # n + 1
    OBVIOUS
  <2>2. n + 1 \in 0 .. n + 1
    OBVIOUS
  <2> HIDE DEF l
  <2> QED BY <1>3, <2>1, <2>2
<1>5. DOMAIN to = 0 .. n + 1 /\ to = [i \in 0 .. n + 1 |-> to[i]]
  OBVIOUS
<1> HIDE DEF q, l, to, W
<1>6. to \in [0 .. n + 1 -> 0 .. Len(q)]
  <2>1. \A i \in 0 .. n + 1 : i \in 0 .. n \/ i = n + 1
    OBVIOUS
  <2>2. \A i \in 0 .. n + 1 : to[i] \in 0 .. Len(q)
    <3>1. Len(q) \in Nat /\ l <= Len(q) /\ to[n + 1] = Len(q)
      <4>1. l + p.dims + 1 \in Nat /\ l <= l + p.dims + 1
        BY <1>1
      <4>2. Len(q) = l + p.dims + 1 /\ to[n + 1] = l + p.dims + 1
        BY <1>2, <1>4
      <4> QED BY <4>1, <4>2
    <3>2. \A a \in 0 .. l : a \in 0 .. Len(q)
      BY <3>1, <1>1
    <3>3. \A i \in 0 .. n : to[i] \in 0 .. Len(q)
      BY <3>2, <1>4
    <3> QED BY <2>1, <3>1, <3>3
  <2>3. to = [i \in 0 .. n + 1 |-> to[i]]
    BY <1>5
  <2> QED BY <2>2, <2>3, Zenon
<1>7. to[0] = 0 /\ to[n + 1] = Len(q)
  BY <1>2, <1>3, <1>4
<1>8. ASSUME NEW i \in 1 .. n + 1
      PROVE  /\ to[i - 1] < to[i] /\ q[to[i]] = types[i]
             /\ \A m \in to[i - 1] + 1 .. to[i] - 1 :
                  q[m] = Type("int", 0) /\ types[i][2] = "array"
  <2>1. CASE i \in 1 .. n
    <3>1. i - 1 \in 0 .. n /\ to[i] = at[i] /\ to[i - 1] = at[i - 1]
      BY <2>1, <1>4
    <3>2. at[i] \in 1 .. l /\ at[i - 1] \in 0 .. l
      BY <2>1, <3>1, <1>1, <1>3, <1>4
    <3>3. q[to[i]] = types[i] /\ to[i - 1] < to[i]
      BY <2>1, <3>1, <3>2, <1>2, <1>3
    <3>4. ASSUME NEW m \in at[i - 1] + 1 .. at[i] - 1
          PROVE  q[m] = Type("int", 0) /\ types[i][2] = "array"
      <4>1. m \in 1 .. l
        <5>1. \A a \in 0 .. l, b \in 1 .. l : \A c \in a + 1 .. b - 1 : c \in 1 .. l
          BY <1>1
        <5> QED BY <5>1, <3>2, <3>4
      <4> QED BY <4>1, <3>4, <2>1, <1>2, <1>3
    <3> QED BY <3>1, <3>3, <3>4
  <2>2. CASE i = n + 1
    <3>1. i - 1 = n /\ to[i - 1] = l /\ to[i] = l + p.dims + 1
      BY <2>2, <1>3, <1>4
    <3>2. to[i - 1] < to[i]
      BY <3>1, <1>1
    <3>3. q[to[i]] = types[i]
      <4>1. l + p.dims + 1 \in l + 1 .. l + p.dims + 1 /\ (l + p.dims + 1) - l = p.dims + 1
        BY <1>1
      <4>2. q[l + p.dims + 1] = r[p.dims + 1]
        BY <4>1, <1>2
      <4> QED BY <4>2, <3>1, <2>2, PartFacts DEF r
    <3>4. ASSUME NEW m \in l + 1 .. l + p.dims
          PROVE  q[m] = Type("int", 0) /\ types[i][2] = "array"
      <4>1. m \in l + 1 .. l + p.dims + 1 /\ m - l \in 1 .. p.dims /\ p.dims > 0
        BY <3>4, <1>1
      <4>2. q[m] = r[m - l]
        BY <4>1, <1>2
      <4>3. types[i][2] = "array"
        BY <4>1, <2>2 DEF Type
      <4> QED BY <4>1, <4>2, <4>3, PartFacts DEF r
    <3>5. to[i - 1] + 1 .. to[i] - 1 = l + 1 .. l + p.dims
      BY <3>1, <1>1
    <3> QED BY <3>2, <3>3, <3>4, <3>5
  <2> QED BY <2>1, <2>2
<1>9. Placed(types, q, n + 1, to)
  BY <1>6, <1>7, <1>8 DEF Placed
<1> QED BY <1>9 DEF q

(* A call pushes what the parameters' types say, and numbers before arrays.*)
LEMMA PushedWithNumbers ==
  ASSUME NEW S, NEW params \in Seq(S), \A i \in DOMAIN params : params[i].dims \in Nat
  PROVE  WithNumbers(ArgTypes(params), Pushed(params))
<1> DEFINE seqs == [i \in DOMAIN params |-> Part(params[i])]
           types == ArgTypes(params)
           N == Len(params)
           V == {Type("int", 0)} \cup {Type(params[i].type, params[i].dims) : i \in DOMAIN params}
<1>1. N \in Nat /\ DOMAIN params = 1 .. N
  OBVIOUS
<1>2. /\ types = [i \in 1 .. N |-> Type(params[i].type, params[i].dims)]
      /\ seqs = [i \in 1 .. N |-> Part(params[i])]
  BY <1>1 DEF ArgTypes
<1>3. Len(types) = N /\ Len(seqs) = N /\ DOMAIN types = 1 .. N
  BY <1>1, <1>2
<1>4. Pushed(params) = FlattenSeq(seqs)
  BY DEF Pushed, Part
<1>5. \A i \in 1 .. N : Part(params[i]) \in Seq(V)
  <2> SUFFICES ASSUME NEW i \in 1 .. N PROVE Part(params[i]) \in Seq(V)
    OBVIOUS
  <2> DEFINE W == {Type("int", 0), Type(params[i].type, params[i].dims)}
  <2>1. Part(params[i]) \in Seq(W) /\ W \subseteq V
    BY <1>1, PartFacts
  <2> HIDE DEF W, V
  <2> QED BY <2>1
<1> HIDE DEF seqs, types, V
<1>6. CASE N = 0
  <2>1. FlattenSeq(seqs) = seqs
    BY <1>3, <1>6 DEF FlattenSeq
  <2>2. Len(Pushed(params)) = 0
    BY <2>1, <1>3, <1>4, <1>6
  <2> DEFINE at == [i \in 0 .. 0 |-> 0]
  <2>3. at \in [0 .. Len(types) -> 0 .. Len(Pushed(params))] /\ at[0] = 0
    BY <2>2, <1>3, <1>6
  <2> HIDE DEF at
  <2>4. at[0] = 0 /\ at[Len(types)] = Len(Pushed(params)) /\ DOMAIN types = {}
    BY <2>2, <2>3, <1>3, <1>6
  <2> QED BY <2>3, <2>4 DEF WithNumbers, types
<1>7. CASE N # 0
  <2>1. PICK fl : Flattens(seqs, N, fl) /\ FlattenSeq(seqs) = fl[N]
    BY <1>1, <1>3, <1>7, FlattenFacts
  <2>2. \A i \in 1 .. N : fl[i] = IF i = 1 THEN Part(params[i]) ELSE fl[i - 1] \o Part(params[i])
    BY <2>1, <1>2 DEF Flattens
  <2> DEFINE T == {n \in Nat : n + 1 \in 1 .. N =>
                     /\ fl[n + 1] \in Seq(V)
                     /\ \E at : Placed(types, fl[n + 1], n + 1, at)}
  <2>3. 0 \in T
    <3> DEFINE none == [i \in 0 .. 0 |-> 0]
               empty == << >>
    <3>1. empty \in Seq(V) /\ Len(empty) = 0
      OBVIOUS
    <3>2. Placed(types, empty, 0, none)
      BY DEF Placed
    <3>3. 1 \in 1 .. N /\ 0 + 1 = 1
      BY <1>1, <1>7
    <3>4. fl[1] = Part(params[1]) /\ types[1] = Type(params[1].type, params[1].dims)
      BY <3>3, <2>2, <1>2
    <3>5. fl[1] \in Seq(V) /\ params[1].dims \in Nat
      BY <3>3, <3>4, <1>1, <1>5
    <3>6. empty \o Part(params[1]) = fl[1]
      BY <3>4, <3>5
    <3> HIDE DEF empty, none
    <3>7. types[0 + 1] = Type(params[1].type, params[1].dims) /\ 0 \in Nat
      BY <3>3, <3>4
    <3>8. \E at : Placed(types, empty \o Part(params[1]), 0 + 1, at)
      BY <3>1, <3>2, <3>5, <3>7, PlaceNext
    <3> QED BY <3>3, <3>5, <3>6, <3>8
  <2>4. ASSUME NEW n \in Nat, n \in T PROVE n + 1 \in T
    <3> SUFFICES ASSUME (n + 1) + 1 \in 1 .. N
                 PROVE  /\ fl[(n + 1) + 1] \in Seq(V)
                        /\ \E at : Placed(types, fl[(n + 1) + 1], (n + 1) + 1, at)
      OBVIOUS
    <3> DEFINE k == (n + 1) + 1
    <3>1. n + 1 \in 1 .. N /\ n + 1 \in Nat /\ k \in 1 .. N /\ k # 1 /\ k - 1 = n + 1
      BY <1>1
    <3>2. PICK at : Placed(types, fl[n + 1], n + 1, at)
      BY <3>1, <2>4
    <3>3. fl[n + 1] \in Seq(V)
      BY <3>1, <2>4
    <3>4. fl[k] = fl[n + 1] \o Part(params[k])
      BY <3>1, <2>2
    <3>5. types[k] = Type(params[k].type, params[k].dims) /\ params[k].dims \in Nat
      BY <3>1, <1>1, <1>2
    <3>6. \E to : Placed(types, fl[n + 1] \o Part(params[k]), (n + 1) + 1, to)
      BY <3>1, <3>2, <3>3, <3>5, PlaceNext
    <3>7. fl[k] \in Seq(V)
      BY <3>1, <3>3, <3>4, <1>5, ConcatProperties
    <3> QED BY <3>4, <3>6, <3>7
  <2> HIDE DEF T
  <2>5. \A n \in Nat : n \in T
    BY <2>3, <2>4, AllNumbers
  <2>6. N - 1 \in Nat /\ (N - 1) + 1 = N /\ N \in 1 .. N
    BY <1>1, <1>7
  <2>7. PICK at : Placed(types, fl[N], N, at)
    <3>1. N - 1 \in T
      BY <2>5, <2>6
    <3>2. (N - 1) + 1 \in 1 .. N => \E at : Placed(types, fl[(N - 1) + 1], (N - 1) + 1, at)
      BY <3>1 DEF T
    <3> QED BY <3>2, <2>6
  <2>8. fl[N] = Pushed(params)
    BY <2>1, <1>4
  <2>9. Placed(types, Pushed(params), Len(types), at) /\ DOMAIN types = 1 .. Len(types)
    BY <2>7, <2>8, <1>3
  <2> QED BY <2>9, Zenon DEF Placed, WithNumbers, types
<1> QED BY <1>6, <1>7

-----------------------------------------------------------------------------
(* Functions in headers and in code.                                       *)
IsFun(d) == d.node \in {"fundef", "fundec"}

LEMMA FunEntries ==
  ASSUME NEW ds, NEW d \in ds, IsFun(d)
  PROVE  \E e : /\ <<<<"fun", d.id>>, e>> \in EntriesOf(ds)
                /\ e.user_id = d.id /\ e.type = Type(d.type, 0) /\ e.argtypes = ArgTypes(d.params)
<1>1. CASE d.node = "fundef"
  <2> DEFINE e == Entry(Linkage(d), d.id, Type(d.type, 0), ArgTypes(d.params))
  <2>1. <<<<"fun", d.id>>, e>> \in EntriesOf(ds)
    BY <1>1 DEF EntriesOf, Of
  <2>2. e.user_id = d.id /\ e.type = Type(d.type, 0) /\ e.argtypes = ArgTypes(d.params)
    BY DEF Entry
  <2> HIDE DEF e
  <2> QED BY <2>1, <2>2
<1>2. CASE d.node = "fundec"
  <2> DEFINE e == Entry("extern", d.id, Type(d.type, 0), ArgTypes(d.params))
  <2>1. <<<<"fun", d.id>>, e>> \in EntriesOf(ds)
    BY <1>2 DEF EntriesOf, Of
  <2>2. e.user_id = d.id /\ e.type = Type(d.type, 0) /\ e.argtypes = ArgTypes(d.params)
    BY DEF Entry
  <2> HIDE DEF e
  <2> QED BY <2>1, <2>2
<1> QED BY <1>1, <1>2 DEF IsFun

LEMMA EntryOfFun ==
  ASSUME NEW ds, NEW e \in EntriesOf(ds), e[1][1] = "fun"
  PROVE  \E d \in ds : IsFun(d) /\ e[1] = <<"fun", d.id>> /\ e[2].user_id = d.id
<1>1. ASSUME NEW id, NEW f, e = <<<<"var", id>>, f>> PROVE FALSE
  BY <1>1
<1>2. ASSUME NEW d \in Of(ds, "fundef"),
             e = <<<<"fun", d.id>>, Entry(Linkage(d), d.id, Type(d.type, 0), ArgTypes(d.params))>>
      PROVE  \E c \in ds : IsFun(c) /\ e[1] = <<"fun", c.id>> /\ e[2].user_id = c.id
  BY <1>2 DEF Of, IsFun, Entry
<1>3. ASSUME NEW d \in Of(ds, "fundec"),
             e = <<<<"fun", d.id>>, Entry("extern", d.id, Type(d.type, 0), ArgTypes(d.params))>>
      PROVE  \E c \in ds : IsFun(c) /\ e[1] = <<"fun", c.id>> /\ e[2].user_id = c.id
  BY <1>3 DEF Of, IsFun, Entry
<1> QED BY <1>1, <1>2, <1>3 DEF EntriesOf

LEMMA FunsOfUnits ==
  ASSUME NEW b \in Builds, NEW u \in DOMAIN b, NEW d \in Extracted(b[u]), IsFun(d)
  PROVE  d.params \in Seq(ToSet(d.params)) /\ \A i \in DOMAIN d.params : d.params[i].dims \in Nat
<1>1. CASE d \in b[u]
  BY <1>1, BuildsAssumption DEF IsDeclaration, IsFun
<1>2. CASE d = FunDef("void", <<"__init">>, <<>>, TRUE)
  <2>1. d.params = <<>>
    BY <1>2 DEF FunDef
  <2> QED BY <2>1
<1>3. ASSUME NEW c \in Of(b[u], "globaldef"), d \in mkGlobalDefExprs(c) PROVE FALSE
  BY <1>3 DEF mkGlobalDefExprs, GlobalDef, IsFun
<1> QED BY <1>1, <1>2, <1>3 DEF Extracted

(* A function's line says what the table says, and a call pushes it.       *)
LineOK(l, u) ==
  l.dir \in {"importfun", "exportfun"} =>
    /\ l.key \in DOMAIN table[u] /\ l.key[1] = "fun"
    /\ l.user_id = table[u][l.key].user_id
    /\ l.type = table[u][l.key].type
    /\ l.argtypes = table[u][l.key].argtypes

CallOK(c, u) ==
  c.dir = "importfun" =>
    c.of \in DOMAIN table[u] /\ WithNumbers(table[u][c.of].argtypes, c.pushed)

Signed ==
  \A u \in DOMAIN build : /\ \A p \in DOMAIN header[u] : LineOK(header[u][p], u)
                          /\ \A c \in code[u] : CallOK(c, u)

LEMMA EmitKeepsSigned ==
  ASSUME IInv, Signed, NEW S, NEW lines \in Seq(S), \A q \in DOMAIN lines : LineOK(lines[q], unit),
         Emit(lines), UNCHANGED <<build, table, code>>
  PROVE  Signed'
<1>1. ASSUME NEW u \in DOMAIN build, NEW p \in DOMAIN header'[u] PROVE LineOK(header'[u][p], u)
  <2>1. CASE u # unit
    BY <2>1, <1>1 DEF Emit, Signed, IInv, UnitsOK
  <2>2. CASE u = unit
    <3>1. header'[u] = header[u] \o lines
      BY <2>2 DEF Emit, IInv, UnitsOK
    <3>2. PICK T : header[u] \in Seq(T)
      BY DEF IInv, IsHeader
    <3> DEFINE g == header[u]
               R == S \cup T
    <3>3. g \in Seq(R) /\ lines \in Seq(R)
      BY <3>2
    <3> HIDE DEF g, R
    <3>4. /\ Len(g \o lines) = Len(g) + Len(lines) /\ g \o lines \in Seq(R)
          /\ \A i \in 1 .. Len(g) + Len(lines) :
               (g \o lines)[i] = IF i <= Len(g) THEN g[i] ELSE lines[i - Len(g)]
      BY <3>3, ConcatProperties
    <3>5. p \in 1 .. Len(g) + Len(lines)
      BY <1>1, <3>1, <3>4 DEF g
    <3>6. CASE p <= Len(g)
      <4>1. p \in DOMAIN g /\ header'[u][p] = g[p]
        BY <3>1, <3>3, <3>4, <3>5, <3>6 DEF g
      <4> QED BY <4>1 DEF Signed, g
    <3>7. CASE ~ (p <= Len(g))
      <4>1. p - Len(g) \in DOMAIN lines
        BY <3>3, <3>5, <3>7
      <4>2. header'[u][p] = lines[p - Len(g)]
        BY <3>1, <3>4, <3>5, <3>7 DEF g
      <4> QED BY <4>1, <4>2, <2>2
    <3> QED BY <3>6, <3>7
  <2> QED BY <2>1, <2>2
<1> QED BY <1>1 DEF Signed, LineOK, CallOK

LEMMA CodegenKeepsSigned == ASSUME IInv, Signed, Codegen PROVE Signed'
<1>1. /\ unit \in DOMAIN build /\ build \in Builds /\ phase = "codegen" /\ decls = Extracted(build[unit])
      /\ Tabled(unit) /\ TableOK(unit)
      /\ UNCHANGED <<build, header, table>>
  BY DEF IInv, UnitsOK, Codegen, Tabled
<1>2. /\ code'[unit] = {Access(k) : k \in {l \in DOMAIN table[unit] : l[1] = "var"}}
                        \cup {ExternCall(k) : k \in {l \in DOMAIN table[unit] :
                                l[1] = "fun" /\ table[unit][l].linkage = "extern"}}
      /\ \A u \in DOMAIN build : u # unit => code'[u] = code[u]
  BY <1>1 DEF Codegen, IInv, UnitsOK
<1>3. ASSUME NEW k \in DOMAIN table[unit] PROVE CallOK(Access(k), unit)
  BY DEF CallOK, Access
<1>4. ASSUME NEW k \in DOMAIN table[unit], k[1] = "fun" PROVE CallOK(ExternCall(k), unit)
  <2> DEFINE e == table[unit][k]
  <2>1. <<k, e>> \in EntriesOf(decls)
    BY <1>1 DEF TableOK, Entries
  <2>2. PICK c \in decls : IsFun(c) /\ k = <<"fun", c.id>>
    BY <2>1, <1>4, EntryOfFun
  <2> DEFINE d == CHOOSE f \in decls : f.node \in {"fundec", "fundef"} /\ f.id = k[2]
  <2>3. d \in decls /\ IsFun(d) /\ d.id = k[2] /\ k = <<"fun", d.id>> /\ ParamsOf(k[2]) = d.params
    BY <2>2 DEF IsFun, ParamsOf
  <2> HIDE DEF d, e
  <2>4. PICK f : <<<<"fun", d.id>>, f>> \in EntriesOf(decls) /\ f.argtypes = ArgTypes(d.params)
    BY <2>3, FunEntries
  <2>5. f = e
    <3>1. <<k, f>> = <<k, e>>
      BY <1>1, <2>1, <2>3, <2>4, BuildUnits
    <3> QED BY <3>1
  <2>6. d.params \in Seq(ToSet(d.params)) /\ \A i \in DOMAIN d.params : d.params[i].dims \in Nat
    BY <1>1, <2>3, FunsOfUnits
  <2>7. WithNumbers(ArgTypes(d.params), Pushed(d.params))
    BY <2>6, PushedWithNumbers
  <2>8. ExternCall(k).of = k /\ ExternCall(k).pushed = Pushed(d.params)
    BY <2>3 DEF ExternCall
  <2> QED BY <2>4, <2>5, <2>7, <2>8 DEF CallOK, e
<1>5. ASSUME NEW u \in DOMAIN build, NEW c \in code'[u] PROVE CallOK(c, u)
  BY <1>2, <1>3, <1>4, <1>5 DEF Signed
<1> QED BY <1>1, <1>5 DEF Signed, LineOK, CallOK

LEMMA StaysSigned == ASSUME IInv, Signed, [Next]_vars PROVE Signed'
<1>1. CASE UNCHANGED <<build, table, header, code>>
  BY <1>1 DEF Signed, LineOK, CallOK
<1>2. CASE InitSymtables
  <2>1. /\ UNCHANGED <<build, header, code>> /\ ~ Tabled(unit)
        /\ \A u \in DOMAIN build : u # unit => table'[u] = table[u]
    BY <1>2, BuildUnits DEF InitSymtables, Tabled, IInv, UnitsOK
  <2>2. header[unit] = <<>> /\ code[unit] = {}
    BY <2>1 DEF IInv, UnitsOK, TableOK
  <2> QED BY <2>1, <2>2 DEF Signed, LineOK, CallOK
<1>3. ASSUME NEW k \in pending, GlobalVariable(k) PROVE Signed'
  <2> DEFINE e == table[unit][k]
             a == ExportVar(k, e, next.global)
             l == Line("global", k, e)
  <2>1. LineOK(a, unit) /\ LineOK(l, unit)
    BY DEF LineOK, ExportVar, Line
  <2>2. UNCHANGED <<build, table, code>>
    BY <1>3 DEF GlobalVariable, Iterate
  <2>3. Emit((IF e.linkage = "export" THEN <<a>> ELSE <<>>) \o <<l>>)
    BY <1>3 DEF GlobalVariable
  <2> HIDE DEF a, l, e
  <2>4. CASE e.linkage = "export"
    <3> DEFINE lines == <<a>> \o <<l>>
    <3>1. <<a>> \in Seq({a, l}) /\ <<l>> \in Seq({a, l}) /\ Len(<<a>>) = 1 /\ Len(<<l>>) = 1
      OBVIOUS
    <3>2. lines \in Seq({a, l})
      BY <3>1, ConcatProperties
    <3>3. \A q \in DOMAIN lines : lines[q] \in {a, l}
      BY <3>2
    <3>4. Emit(lines)
      BY <2>3, <2>4
    <3> HIDE DEF lines
    <3>5. \A q \in DOMAIN lines : LineOK(lines[q], unit)
      BY <3>3, <2>1
    <3> QED BY <2>2, <3>2, <3>4, <3>5, EmitKeepsSigned
  <2>5. CASE e.linkage # "export"
    <3>1. <<>> \o <<l>> = <<l>> /\ <<l>> \in Seq({l})
      OBVIOUS
    <3>2. \A q \in DOMAIN <<l>> : LineOK(<<l>>[q], unit)
      BY <2>1
    <3>3. Emit(<<l>>)
      BY <2>3, <2>5, <3>1
    <3> QED BY <2>2, <3>1, <3>2, <3>3, EmitKeepsSigned
  <2> QED BY <2>4, <2>5
<1>4. ASSUME NEW k \in pending, NEW dir, Iterate(k), Emit(<<Line(dir, k, table[unit][k])>>),
             k[1] = "fun" \/ dir = "importvar"
      PROVE  Signed'
  <2> DEFINE l == Line(dir, k, table[unit][k])
  <2>1. LineOK(l, unit)
    BY <1>4 DEF LineOK, Line, IInv, UnitsOK
  <2>2. UNCHANGED <<build, table, code>>
    BY <1>4 DEF Iterate
  <2> HIDE DEF l
  <2>3. <<l>> \in Seq({l}) /\ \A q \in DOMAIN <<l>> : LineOK(<<l>>[q], unit)
    BY <2>1
  <2>4. Emit(<<l>>)
    BY <1>4 DEF l
  <2> QED BY <2>2, <2>3, <2>4, EmitKeepsSigned
<1>5. ASSUME NEW k \in pending, ImportedVariable(k) PROVE Signed'
  BY <1>4, <1>5 DEF ImportedVariable
<1>6. ASSUME NEW k \in pending, Function(k) PROVE Signed'
  <2>1. Iterate(k) /\ k[1] = "fun"
    BY <1>6 DEF Function
  <2>2. \/ \E dir : Emit(<<Line(dir, k, table[unit][k])>>)
        \/ UNCHANGED <<build, table, header, code>>
    BY <1>6 DEF Function, Iterate
  <2> QED BY <2>1, <2>2, <1>1, <1>4
<1>7. CASE Codegen
  BY <1>7, CodegenKeepsSigned
<1>8. CASE ExtractAndInit \/ HeaderDone \/ UNCHANGED vars
  BY <1>1, <1>8 DEF ExtractAndInit, HeaderDone, vars
<1> QED BY <1>2, <1>3, <1>5, <1>6, <1>7, <1>8 DEF Next

LEMMA AlwaysSigned == Spec => [](IInv /\ Signed)
<1>1. Init => Signed
  BY DEF Init, Signed
<1> QED BY <1>1, AlwaysIInv, StaysSigned, PTL DEF Spec

(* For all programs: a call of another unit's function pushes what that    *)
(* function's line says, with the dimensions before an array, and the      *)
(* lines of the two units that a link joins have one signature if the      *)
(* units declare one.                                                      *)
THEOREM SignaturesMatch == Spec => []CallsMatchSignatures
<1>1. IInv /\ Signed => CallsMatchSignatures
  <2> SUFFICES ASSUME IInv, Signed PROVE CallsMatchSignatures
    OBVIOUS
  <2>1. ASSUME NEW u \in DOMAIN build, NEW c \in code[u], c.dir = "importfun",
               NEW p \in DOMAIN header[u], IsLine(header[u], p, "importfun", c.n)
        PROVE  WithNumbers(header[u][p].argtypes, c.pushed)
    <3>1. PICK q \in DOMAIN header[u] : IsLine(header[u], q, "importfun", c.n) /\ header[u][q].key = c.of
      BY <2>1 DEF IInv, NumbersHitTheirLine, Names
    <3>2. q = p
      BY <2>1, <3>1, OneLinePerNumber DEF IInv
    <3>3. LineOK(header[u][p], u) /\ CallOK(c, u) /\ header[u][p].dir = "importfun"
      BY <2>1 DEF Signed, IsLine
    <3> QED BY <2>1, <3>1, <3>2, <3>3 DEF LineOK, CallOK
  <2>2. ASSUME NEW u \in DOMAIN build, NEW p \in DOMAIN header[u],
               header[u][p].dir \in {"importfun", "exportfun"}
        PROVE  /\ header[u][p].key = <<"fun", header[u][p].user_id>>
               /\ \A d \in build[u] : IsFun(d) /\ d.id = header[u][p].user_id =>
                    header[u][p].type = Type(d.type, 0) /\ header[u][p].argtypes = ArgTypes(d.params)
    <3> DEFINE l == header[u][p]
               e == table[u][l.key]
    <3>1. /\ l.key \in DOMAIN table[u] /\ l.key[1] = "fun"
          /\ l.user_id = e.user_id /\ l.type = e.type /\ l.argtypes = e.argtypes
      BY <2>2 DEF Signed, LineOK
    <3>2. <<l.key, e>> \in Entries(u) /\ build \in Builds
      BY <3>1 DEF IInv, TableOK, UnitsOK
    <3> HIDE DEF l, e
    <3>3. l.key = <<"fun", l.user_id>>
      <4>1. PICK d \in Extracted(build[u]) : l.key = <<"fun", d.id>> /\ e.user_id = d.id
        BY <3>1, <3>2, EntryOfFun DEF Entries
      <4> QED BY <4>1, <3>1
    <3>4. ASSUME NEW d \in build[u], IsFun(d), d.id = l.user_id
          PROVE  l.type = Type(d.type, 0) /\ l.argtypes = ArgTypes(d.params)
      <4>1. d \in Extracted(build[u])
        BY DEF Extracted
      <4>2. PICK f : /\ <<<<"fun", d.id>>, f>> \in Entries(u)
                     /\ f.type = Type(d.type, 0) /\ f.argtypes = ArgTypes(d.params)
        BY <3>4, <4>1, FunEntries DEF Entries
      <4>3. <<l.key, f>> = <<l.key, e>>
        BY <3>2, <3>3, <3>4, <4>2, BuildUnits DEF Entries
      <4> QED BY <4>2, <4>3, <3>1
    <3> QED BY <3>3, <3>4 DEF l
  <2>3. ASSUME NEW u \in DOMAIN build, NEW v \in DOMAIN build,
               NEW i \in ToSet(header[u]), NEW e \in ToSet(header[v]),
               Joined(u, i, v, e), i.dir = "importfun", NEW c \in build[u], NEW d \in build[v],
               c.node = "fundec", d.node = "fundef", c.id = d.id, c.id = i.key[2],
               c.type = d.type, c.params = d.params
        PROVE  i.type = e.type /\ i.argtypes = e.argtypes
    <3>1. i.user_id = e.user_id /\ e.dir = "exportfun"
      BY <2>3 DEF Joined
    <3>2. PICK p \in DOMAIN header[u] : i = header[u][p]
      BY DEF ToSet
    <3>3. PICK q \in DOMAIN header[v] : e = header[v][q]
      BY DEF ToSet
    <3>4. i.key[2] = i.user_id
      BY <2>2, <2>3, <3>2
    <3>5. IsFun(c) /\ IsFun(d) /\ c.id = i.user_id /\ d.id = e.user_id
      BY <2>3, <3>1, <3>4 DEF IsFun
    <3>6. i.type = Type(c.type, 0) /\ i.argtypes = ArgTypes(c.params)
      BY <2>2, <2>3, <3>2, <3>5
    <3>7. e.type = Type(d.type, 0) /\ e.argtypes = ArgTypes(d.params)
      BY <2>2, <3>1, <3>3, <3>5
    <3> QED BY <2>3, <3>6, <3>7
  <2> QED BY <2>1, <2>3 DEF CallsMatchSignatures
<1> QED BY <1>1, AlwaysSigned, PTL
=============================================================================
