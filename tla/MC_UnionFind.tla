---------------------------- MODULE MC_UnionFind ----------------------------
(* Two variables, two base types, and two functions of one parameter     *)
(* each, so that a function can become its own parameter, and one function *)
(* of no parameters.                                                       *)
EXTENDS UnionFind

CONSTANTS v1, v2, int, bool, f1, f2, f0

MCParams == [f \in Funs |-> CASE f = f1 -> <<v1>> [] f = f2 -> <<v2>> [] OTHER -> <<>>]
MCRet    == [f \in Funs |-> IF f = f2 THEN bool ELSE int]
=============================================================================
