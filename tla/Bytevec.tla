------------------------------ MODULE Bytevec ------------------------------
(***************************************************************************)
(* The growing byte array that holds generated code.  Bytes are counted,   *)
(* not named: block is the size of the allocated memory, kept the number   *)
(* of bytes from its start that hold what was appended.  A call runs       *)
(* ensureCapacity, one round of its loop a step, and then writes.          *)
(***************************************************************************)
EXTENDS Naturals

CONSTANTS DEFAULT_CAPACITY,
          Lengths,   (* lengths of what callers append                     *)
          MaxLen     (* callers stop before the array gets longer          *)

ASSUME BytevecAssumption ==
  /\ DEFAULT_CAPACITY \in Nat /\ DEFAULT_CAPACITY >= 2
  /\ Lengths \subseteq Nat
  /\ MaxLen \in Nat

VARIABLES capacity, len,  (* fields of the struct                          *)
          block, kept,    (* the memory behind its pointer                 *)
          pc, min,        (* what runs, bytes needed                       *)
          size, null,     (* bytes to add, terminating bytes behind them   *)
          newcap          (* local variable of ensureCapacity              *)

bv_vars == <<capacity, len, block, kept, pc, min, size, null, newcap>>

bv_init ==
  /\ capacity = DEFAULT_CAPACITY
  /\ block = DEFAULT_CAPACITY
  /\ len = 0 /\ kept = 0
  /\ pc = "idle"
  /\ min = 0 /\ size = 0 /\ null = 0 /\ newcap = 0

(* ensureCapacity returns at once if the capacity it knows of is enough.   *)
ensureCapacity(need) ==
  /\ min' = need
  /\ newcap' = capacity
  /\ pc' = IF capacity >= need THEN "write" ELSE "grow"

bv_append(n) ==
  /\ pc = "idle"
  /\ len + n <= MaxLen
  /\ size' = n /\ null' = 0
  /\ ensureCapacity(len + n)
  /\ UNCHANGED <<capacity, len, block, kept>>

(* Faulty variants stand before the definition that they are variants of.  *)
(* Faulty: no room is made for the null byte.                              *)
bv_printfWithoutNull(n) ==
  /\ pc = "idle"
  /\ len + n <= MaxLen
  /\ size' = n /\ null' = 1
  /\ ensureCapacity(len + n)
  /\ UNCHANGED <<capacity, len, block, kept>>

(* vsnprintf writes a terminating null byte behind the text.               *)
bv_printf(n) ==
  /\ pc = "idle"
  /\ len + n <= MaxLen
  /\ size' = n /\ null' = 1
  /\ ensureCapacity(len + n + 1)
  /\ UNCHANGED <<capacity, len, block, kept>>

(* Faulty: growth by an eighth, which is nothing for a small array.        *)
GrowRoundByAnEighth ==
  /\ pc = "grow" /\ newcap < min
  /\ newcap' = newcap + newcap \div 8
  /\ UNCHANGED <<capacity, len, block, kept, pc, min, size, null>>

GrowRound ==
  /\ pc = "grow" /\ newcap < min
  /\ newcap' = newcap + newcap \div 2
  /\ UNCHANGED <<capacity, len, block, kept, pc, min, size, null>>

(* Faulty: a new block, and nothing copied.                                *)
ReallocUncopied ==
  /\ pc = "grow" /\ newcap >= min
  /\ block' = newcap
  /\ kept' = 0
  /\ pc' = "write"
  /\ UNCHANGED <<capacity, len, min, size, null, newcap>>

(* realloc keeps what fits into the new block; capacity stays.             *)
Realloc ==
  /\ pc = "grow" /\ newcap >= min
  /\ block' = newcap
  /\ kept' = IF kept <= newcap THEN kept ELSE newcap
  /\ pc' = "write"
  /\ UNCHANGED <<capacity, len, min, size, null, newcap>>

Write ==
  /\ pc = "write"
  /\ kept' = IF kept = len THEN len + size ELSE kept
  /\ len' = len + size
  /\ pc' = "idle"
  /\ UNCHANGED <<capacity, block, min, size, null, newcap>>

bv_next ==
  \/ \E n \in Lengths : bv_append(n) \/ bv_printf(n)
  \/ GrowRound \/ Realloc \/ Write

BytevecSpec == bv_init /\ [][bv_next]_bv_vars
FairSpec    == BytevecSpec /\ WF_bv_vars(GrowRound \/ Realloc \/ Write)

(***************************************************************************)
(* Properties.                                                             *)
(***************************************************************************)
BytevecTypeOK ==
  /\ capacity \in Nat /\ len \in Nat /\ block \in Nat /\ kept \in Nat
  /\ pc \in {"idle", "grow", "write"}
  /\ min \in Nat /\ size \in Nat /\ null \in Nat /\ newcap \in Nat

(* Everything a call writes, the null byte of bv_printf included, goes     *)
(* into the allocated block, although capacity no longer tells its size    *)
(* once the array has grown.                                               *)
WritesInBounds == pc = "write" => len + size + null <= block

(* No byte is lost: realloc never makes the block smaller than what was    *)
(* appended, although each call grows the block from the first capacity.   *)
NothingLost == kept = len

(* The loop of ensureCapacity ends, and with it every call.                *)
CallsReturn == pc # "idle" ~> pc = "idle"

(***************************************************************************)
(* The inductive invariant behind the first two.                           *)
(***************************************************************************)
Bounds ==
  /\ capacity <= block
  /\ len <= block
  /\ pc # "idle" => len + size + null <= min
  /\ pc = "grow" => capacity <= newcap
  /\ pc = "write" => min <= block

BytevecInv == BytevecTypeOK /\ Bounds /\ NothingLost
=============================================================================
