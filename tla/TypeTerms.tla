---------------------------- MODULE TypeTerms ----------------------------
(***************************************************************************)
(* The type terms of the constraint solver, shared by the partition it     *)
(* promises (TermClasses) and the forest it keeps (UnionFind).             *)
(***************************************************************************)
EXTENDS Naturals, Sequences, FiniteSets

CONSTANTS
  TypeVars,   (* terms of new_typevar: nothing is known about them yet     *)
  BaseTypes,  (* the static terms TYPE_INT, TYPE_FLOAT, TYPE_BOOL, TYPE_VOID *)
  Funs,       (* terms of new_function_type                                *)
  Params      (* the parameter terms of each function term                 *)

Terms == TypeVars \cup BaseTypes \cup Funs

ASSUME TermsAssumption ==
  /\ BaseTypes \cap TypeVars = {}
  /\ Funs \cap (BaseTypes \cup TypeVars) = {}
  /\ Params \in [Funs -> Seq(TypeVars)]

ASSUME TermsFinite == IsFiniteSet(Terms)

(* Two rigid terms can describe one type.                                  *)
Compatible(s, t) ==
  \/ s = t
  \/ s \in Funs /\ t \in Funs /\ Len(Params[s]) = Len(Params[t])
=============================================================================
