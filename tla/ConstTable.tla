----------------------------- MODULE ConstTable -----------------------------
(***************************************************************************)
(* The constant table that code generation builds as it goes.  A literal   *)
(* is looked up by type and value, or appended, and the instruction that   *)
(* loads it names its index; the assembler numbers the .const lines of the *)
(* header in the order in which they stand there.                          *)
(***************************************************************************)
EXTENDS Naturals, Sequences

CONSTANTS Ints, Floats,  (* values of literals                             *)
          MaxLoads       (* literals in the program                        *)

ASSUME ConstTableAssumption == MaxLoads \in Nat

Const == [type : {"int"}, val : Ints] \cup [type : {"float"}, val : Floats]

VARIABLES constants,  (* the list codegen_regintconst searches             *)
          header,     (* .const lines emitted                              *)
          loads       (* load instructions emitted, with their literal     *)

vars == <<constants, header, loads>>

Init == constants = <<>> /\ header = <<>> /\ loads = <<>>

(* Faulty variants stand before the definition that they are variants of.  *)
(* Faulty: the type is not compared; nothing is ever found.                *)
FoundByValue(c) == {i \in DOMAIN constants : constants[i].val = c.val}
FoundNowhere(c) == {}

(* Both registration functions: an entry is found by type and value.       *)
Found(c) == {i \in DOMAIN constants : constants[i].type = c.type /\ constants[i].val = c.val}

Load(i, c) == loads' = Append(loads, [index |-> i, of |-> c])

Reuse(c) ==
  \E i \in Found(c) :
    /\ \A j \in Found(c) : i <= j
    /\ Load(i - 1, c)
    /\ UNCHANGED <<constants, header>>

Register(c) ==
  /\ Found(c) = {}
  /\ constants' = Append(constants, c)
  /\ header' = Append(header, c)
  /\ Load(Len(constants), c)

Literal(c) == Len(loads) < MaxLoads /\ (Reuse(c) \/ Register(c))

codegenNum   == \E v \in Ints : Literal([type |-> "int", val |-> v])
codegenFloat == \E v \in Floats : Literal([type |-> "float", val |-> v])

Next == codegenNum \/ codegenFloat

Spec == Init /\ [][Next]_vars

(***************************************************************************)
(* Properties.                                                             *)
(***************************************************************************)
TypeOK ==
  /\ constants \in Seq(Const)
  /\ header \in Seq(Const)
  /\ loads \in Seq([index : Nat, of : Const])

(* Every load emitted so far, and not only the last, names the line of the *)
(* header with its literal: of its type too, 1 and 1.0 are not the same.   *)
LoadsFindTheirConst ==
  \A k \in DOMAIN loads :
    /\ loads[k].index < Len(header)
    /\ header[loads[k].index + 1] = loads[k].of

(* No constant has two lines, and none that is not loaded has one.         *)
OneLineEach ==
  /\ \A i, j \in DOMAIN header : header[i] = header[j] => i = j
  /\ \A i \in DOMAIN header : \E k \in DOMAIN loads : loads[k].index + 1 = i

(* The inductive invariant: the list and the header agree.                 *)
IInv == TypeOK /\ header = constants /\ LoadsFindTheirConst /\ OneLineEach
=============================================================================
