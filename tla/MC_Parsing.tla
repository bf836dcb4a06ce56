----------------------------- MODULE MC_Parsing -----------------------------
(* The lists that may stand at the top.                                    *)
EXTENDS Parsing

AllRoots == {"headerparams", "vardecs", "stmts", "arrayexprs"}
=============================================================================
