---------------------------- MODULE OutputProofs ----------------------------
(* What code generation writes with: the byte vector stays within its      *)
(* block, and indices into the constant table stay right.                  *)
EXTENDS Bytevec, ConstTable, SequenceTheorems, TLAPS

-----------------------------------------------------------------------------
(***************************************************************************)
(* Bytevec, for every capacity, every length and every order of calls.     *)
(***************************************************************************)
LEMMA InitBytevecInv == bv_init => BytevecInv
  BY BytevecAssumption DEF bv_init, BytevecInv, BytevecTypeOK, Bounds, NothingLost

LEMMA NextBytevecInv == BytevecInv /\ [bv_next]_bv_vars => BytevecInv'
<1> SUFFICES ASSUME BytevecInv, [bv_next]_bv_vars PROVE BytevecInv'
  OBVIOUS
<1> USE BytevecAssumption DEF BytevecInv, BytevecTypeOK, Bounds, NothingLost
<1>1. ASSUME NEW n \in Lengths, bv_append(n) PROVE BytevecInv'
  BY <1>1 DEF bv_append, ensureCapacity
<1>2. ASSUME NEW n \in Lengths, bv_printf(n) PROVE BytevecInv'
  BY <1>2 DEF bv_printf, ensureCapacity
<1>3. CASE GrowRound
  <2>1. newcap \div 2 \in Nat
    OBVIOUS
  <2> QED BY <1>3, <2>1 DEF GrowRound
<1>4. CASE Realloc
  BY <1>4 DEF Realloc
<1>5. CASE Write
  BY <1>5 DEF Write
<1>6. CASE UNCHANGED bv_vars
  BY <1>6 DEF bv_vars
<1> QED
  BY <1>1, <1>2, <1>3, <1>4, <1>5, <1>6 DEF bv_next

THEOREM AlwaysBytevecInv == BytevecSpec => []BytevecInv
  BY InitBytevecInv, NextBytevecInv, PTL DEF BytevecSpec

(* No call of bv_append or bv_printf writes outside of the allocated       *)
(* block, the null byte that vsnprintf adds included.                      *)
THEOREM BlockIsNeverOverrun == BytevecSpec => []WritesInBounds
<1>1. BytevecInv => WritesInBounds
  BY DEF BytevecInv, BytevecTypeOK, Bounds, WritesInBounds
<1> QED
  BY <1>1, AlwaysBytevecInv, PTL

(* No byte that was appended is ever lost to a realloc.                    *)
THEOREM BytesAreKept == BytevecSpec => []NothingLost
<1>1. BytevecInv => NothingLost
  BY DEF BytevecInv
<1> QED
  BY <1>1, AlwaysBytevecInv, PTL

-----------------------------------------------------------------------------
(***************************************************************************)
(* ConstTable, however many literals follow and whatever their order.      *)
(***************************************************************************)
LEMMA InitIInv == Init => IInv
  BY DEF Init, IInv, TypeOK, LoadsFindTheirConst, OneLineEach

(* The two fields that a lookup compares are all there is to a constant.   *)
LEMMA SameConst ==
  ASSUME NEW a \in Const, NEW b \in Const, a.type = b.type, a.val = b.val
  PROVE  a = b
<1>1. CASE a \in [type : {"int"}, val : Ints]
  BY <1>1, SMTT(20) DEF Const
<1>2. CASE a \in [type : {"float"}, val : Floats]
  BY <1>2, SMTT(20) DEF Const
<1> QED
  BY <1>1, <1>2 DEF Const

(* A literal that is in the table already.                                 *)
LEMMA ReuseIInv ==
  ASSUME NEW c \in Const, IInv, Reuse(c)
  PROVE  IInv'
<1> USE DEF IInv, TypeOK
<1>1. PICK i \in Found(c) :
        /\ loads' = Append(loads, [index |-> i - 1, of |-> c])
        /\ constants' = constants /\ header' = header
  BY DEF Reuse, Load
<1>2. i \in 1 .. Len(header) /\ header[i] = c
  <2>1. i \in DOMAIN constants /\ constants[i].type = c.type /\ constants[i].val = c.val
    BY DEF Found
  <2>2. constants[i] \in Const /\ i \in 1 .. Len(header)
    BY <2>1
  <2> QED
    BY <2>1, <2>2, SameConst
<1>3. TypeOK'
  <2>1. [index |-> i - 1, of |-> c] \in [index : Nat, of : Const]
    BY <1>2
  <2> QED
    BY <1>1, <2>1
<1>4. DOMAIN loads' = 1 .. Len(loads) + 1 /\ Len(loads) \in Nat
  BY <1>1
<1>5. \A k \in DOMAIN loads : k \in DOMAIN loads' /\ loads'[k] = loads[k]
  BY <1>1, <1>4
<1>6. loads'[Len(loads) + 1] = [index |-> i - 1, of |-> c]
  BY <1>1
<1>7. LoadsFindTheirConst'
  BY <1>1, <1>2, <1>4, <1>5, <1>6 DEF LoadsFindTheirConst
<1>8. OneLineEach'
  BY <1>1, <1>5 DEF OneLineEach
<1> QED
  BY <1>1, <1>3, <1>7, <1>8

(* A literal that is new.                                                  *)
LEMMA RegisterIInv ==
  ASSUME NEW c \in Const, IInv, Register(c)
  PROVE  IInv'
<1> USE DEF IInv, TypeOK
<1> DEFINE n == Len(header)
<1>1. /\ header' = Append(header, c) /\ constants' = Append(constants, c)
      /\ loads' = Append(loads, [index |-> n, of |-> c])
  BY DEF Register, Load
<1>2. \A i \in DOMAIN header : header[i] # c
  BY DEF Register, Found
<1>3. n \in Nat /\ DOMAIN header = 1 .. n /\ TypeOK'
  <2>1. n \in Nat /\ DOMAIN header = 1 .. n
    OBVIOUS
  <2>2. [index |-> n, of |-> c] \in [index : Nat, of : Const]
    BY <2>1
  <2> QED
    BY <1>1, <2>1, <2>2
<1>4. /\ DOMAIN loads' = 1 .. Len(loads) + 1 /\ Len(loads) \in Nat
      /\ \A k \in DOMAIN loads : k \in DOMAIN loads' /\ loads'[k] = loads[k]
      /\ loads'[Len(loads) + 1] = [index |-> n, of |-> c]
  BY <1>1
<1>5. /\ DOMAIN header' = 1 .. n + 1 /\ Len(header') = n + 1
      /\ \A i \in DOMAIN header : i \in DOMAIN header' /\ header'[i] = header[i]
      /\ header'[n + 1] = c
  BY <1>1, <1>3
<1>6. \A k \in DOMAIN loads : loads[k].index \in Nat /\ loads[k].index + 1 \in DOMAIN header
  <2> SUFFICES ASSUME NEW k \in DOMAIN loads
               PROVE  loads[k].index \in Nat /\ loads[k].index + 1 \in DOMAIN header
    OBVIOUS
  <2>1. loads[k] \in [index : Nat, of : Const]
    <3>1. loads \in Seq([index : Nat, of : Const]) /\ k \in 1 .. Len(loads)
      OBVIOUS
    <3> HIDE DEF IInv, TypeOK
    <3> QED
      BY <3>1, ElementOfSeq
  <2>2. loads[k].index \in Nat /\ loads[k].index < n
    BY <2>1 DEF LoadsFindTheirConst
  <2> QED
    BY <2>2, <1>3
<1>7. LoadsFindTheirConst'
  <2> SUFFICES ASSUME NEW k \in DOMAIN loads'
               PROVE  /\ loads'[k].index < Len(header')
                      /\ header'[loads'[k].index + 1] = loads'[k].of
    BY DEF LoadsFindTheirConst
  <2>1. CASE k \in DOMAIN loads
    <3>1. loads'[k] = loads[k] /\ header'[loads[k].index + 1] = header[loads[k].index + 1]
      BY <2>1, <1>4, <1>5, <1>6
    <3>2. loads[k].index < n /\ header[loads[k].index + 1] = loads[k].of
      BY <2>1 DEF LoadsFindTheirConst
    <3> QED
      BY <2>1, <3>1, <3>2, <1>3, <1>5, <1>6
  <2>2. CASE k = Len(loads) + 1
    BY <2>2, <1>3, <1>4, <1>5
  <2> QED
    BY <2>1, <2>2, <1>4
<1>8. OneLineEach'
  <2>1. \A i, j \in DOMAIN header' : header'[i] = header'[j] => i = j
    <3> SUFFICES ASSUME NEW i \in 1 .. n + 1, NEW j \in 1 .. n + 1, header'[i] = header'[j]
                 PROVE  i = j
      BY <1>5
    <3>1. \A h \in 1 .. n + 1 : h \in DOMAIN header \/ h = n + 1
      BY <1>3
    <3>2. CASE i \in DOMAIN header /\ j \in DOMAIN header
      BY <3>2, <1>5 DEF OneLineEach
    <3>3. CASE i = n + 1 \/ j = n + 1
      BY <3>1, <3>3, <1>2, <1>5
    <3> QED
      BY <3>1, <3>2, <3>3
  <2>2. \A i \in DOMAIN header' : \E k \in DOMAIN loads' : loads'[k].index + 1 = i
    <3> SUFFICES ASSUME NEW i \in 1 .. n + 1
                 PROVE  \E k \in DOMAIN loads' : loads'[k].index + 1 = i
      BY <1>5
    <3>1. CASE i \in DOMAIN header
      BY <3>1, <1>4 DEF OneLineEach
    <3>2. CASE i = n + 1
      <4>1. Len(loads) + 1 \in DOMAIN loads' /\ loads'[Len(loads) + 1].index + 1 = i
        BY <3>2, <1>3, <1>4
      <4> QED
        BY <4>1
    <3> QED
      BY <3>1, <3>2, <1>3
  <2> QED BY <2>1, <2>2 DEF OneLineEach
<1> QED
  BY <1>1, <1>3, <1>7, <1>8

LEMMA NextIInv == IInv /\ [Next]_vars => IInv'
<1> SUFFICES ASSUME IInv, [Next]_vars PROVE IInv'
  OBVIOUS
<1>1. ASSUME NEW v \in Ints, Literal([type |-> "int", val |-> v]) PROVE IInv'
  BY <1>1, ReuseIInv, RegisterIInv DEF Literal, Const
<1>2. ASSUME NEW v \in Floats, Literal([type |-> "float", val |-> v]) PROVE IInv'
  BY <1>2, ReuseIInv, RegisterIInv DEF Literal, Const
<1>3. CASE UNCHANGED vars
  BY <1>3 DEF vars, IInv, TypeOK, LoadsFindTheirConst, OneLineEach
<1> QED
  BY <1>1, <1>2, <1>3 DEF Next, codegenNum, codegenFloat

THEOREM AlwaysIInv == Spec => []IInv
  BY InitIInv, NextIInv, PTL DEF Spec

(* The index in a load instruction is that of its literal's line, however  *)
(* many constants are registered after it.                                 *)
THEOREM LoadsStayRight == Spec => []LoadsFindTheirConst
<1>1. IInv => LoadsFindTheirConst
  BY DEF IInv
<1> QED
  BY <1>1, AlwaysIInv, PTL

(* The header has one line for each constant that is loaded and no other.  *)
THEOREM HeaderHasNoDuplicates == Spec => []OneLineEach
<1>1. IInv => OneLineEach
  BY DEF IInv
<1> QED
  BY <1>1, AlwaysIInv, PTL
=============================================================================
