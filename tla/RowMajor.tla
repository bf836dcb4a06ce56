------------------------------ MODULE RowMajor ------------------------------
(***************************************************************************)
(* The places of elements in an array: what ParamDims' arithmetic makes of *)
(* an access, as a number, and how many places the array has.              *)
(***************************************************************************)
EXTENDS Naturals, Sequences, SequencesExt

(* The first index times the first dimension, plus the same of the rest,   *)
(* and the last index when the dimensions are used up.                     *)
arrexprIdx(indices, dims) ==
  LET from[d \in 1 .. Len(dims) + 1] ==
        IF d > Len(dims) THEN indices[d] ELSE indices[d] * dims[d] + from[d + 1]
  IN  from[1]

(* Faulty variants stand before the definition that they are variants of.  *)
(* Faulty: the last dimension is left out, not the first.                  *)
reducedByFront(indices, dims) == arrexprIdx(indices, Front(dims))

reduced(indices, dims) == arrexprIdx(indices, Tail(dims))

sizeexprs(dims) ==
  LET from[d \in 1 .. Len(dims) + 1] == IF d > Len(dims) THEN 1 ELSE dims[d] * from[d + 1]
  IN  from[1]

(* The indices of all elements.                                            *)
Box(dims) ==
  {at \in [DOMAIN dims -> 0 .. sizeexprs(dims)] : \A d \in DOMAIN dims : at[d] < dims[d]}

(* Two elements of an array never share a place, and every place lies      *)
(* inside of the array.                                                    *)
Apart(dims) ==
  LET cell == [at \in Box(dims) |-> reduced(at, dims)]
  IN  \A at, to \in Box(dims) :
        /\ cell[at] < sizeexprs(dims)
        /\ cell[at] = cell[to] => at = to
=============================================================================
