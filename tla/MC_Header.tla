------------------------------ MODULE MC_Header ------------------------------
(* Programs of two units, one of which uses what the other one exports.    *)
EXTENDS Header

X == <<"x">>
A == <<"a">>
F == <<"f">>
G == <<"g">>
I == <<"i">>
N == <<"n">>
M == <<"m">>

(* A variable and a function with an array as parameter, both ways.        *)
Params == <<Param("int", 1), Param("float", 0)>>
Scalars ==
  <<{GlobalDef("int", X, 0, TRUE), GlobalDef("float", I, 0, FALSE), FunDec("void", G, <<>>),
     FunDef("float", F, Params, TRUE)},
    {GlobalDec("int", X, <<>>), FunDec("float", F, Params),
     FunDef("void", G, <<>>, TRUE), FunDec("int", M, <<Param("int", 0), Param("bool", 0)>>)}>>

(* An array of one, two or three dimensions, exported or not, and its use. *)
Arrays(dims) ==
  {<<{GlobalDef("float", A, dims, export)},
     {GlobalDec("float", A, SubSeq(<<N, M, X>>, 1, dims))}>> : export \in BOOLEAN}

(* Arrays of both units, with dimensions of one name in the text.          *)
Both ==
  <<{GlobalDef("int", A, 1, TRUE), GlobalDec("int", X, <<N>>)},
    {GlobalDef("int", X, 1, TRUE), GlobalDec("int", A, <<N>>)}>>

MCBuilds == {Scalars, Both} \cup Arrays(1) \cup Arrays(2) \cup Arrays(3)
=============================================================================
