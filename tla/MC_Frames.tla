------------------------------ MODULE MC_Frames ------------------------------
(* Programs of nested functions for Frames.                                *)
EXTENDS Frames

None == <<>>
Array(a, dims) == [x \in {a} |-> dims]

(* Four functions: 2 takes a vector and holds 3, whose n hides the         *)
(* dimension of that vector; 4 stands beside 2.  For loops need            *)
(* temporaries in functions without local functions only.                  *)
Vectors ==
  [parent |-> <<0, 1, 2, 1>>,
   params |-> <<None, <<"a">>, None, None>>,
   locals |-> <<{"t", "a"}, {"x"}, {"n"}, {"a"}>>,
   dims   |-> <<Array("a", <<"t">>), Array("a", <<"n">>), None, None>>,
   temps  |-> <<0, 0, 1, 2>>]

(* A matrix goes from one nested function to the next, and into recursion. *)
Matrices ==
  [parent |-> <<0, 1, 1, 3>>,
   params |-> <<None, <<"a">>, <<"b">>, None>>,
   locals |-> <<{"t", "u", "a"}, {}, {}, {"m"}>>,
   dims   |-> <<Array("a", <<"t", "u">>), Array("a", <<"m", "n">>), Array("b", <<"n", "m">>), None>>,
   temps  |-> <<0, 1, 0, 0>>]

(* Arrays of different dimensions around a scalar, in two orders.          *)
Several ==
  [parent |-> <<0, 1, 1>>,
   params |-> <<None, <<"a", "k", "b">>, <<"b", "a">>>>,
   locals |-> <<{"t", "u", "v", "a", "b"}, {}, {}>>,
   dims   |-> <<Array("a", <<"t">>) @@ Array("b", <<"u", "v">>),
                Array("a", <<"l">>) @@ Array("b", <<"m", "n">>),
                Array("a", <<"n">>) @@ Array("b", <<"l", "m">>)>>,
   temps  |-> <<0, 0, 1>>]

(* Two functions of the program that call each other.                      *)
Mutual ==
  [parent |-> <<0, 0, 2>>,
   params |-> <<None, None, None>>,
   locals |-> <<{"x"}, {"x", "y"}, {"y"}>>,
   dims   |-> <<None, None, None>>,
   temps  |-> <<1, 0, 2>>]

(* A loop that needs a temporary in a function with a local function.      *)
OuterLoop ==
  [parent |-> <<0, 1>>,
   params |-> <<None, None>>,
   locals |-> <<{"i"}, {}>>,
   dims   |-> <<None, None>>,
   temps  |-> <<1, 0>>]

(* The local functions of each function, in the order of the text.         *)
WithChildren(p) ==
  [children |-> [f \in 0 .. Len(p.parent) |->
                   SelectSeq([i \in DOMAIN p.parent |-> i], LAMBDA g : p.parent[g] = f)]] @@ p

NestedPrograms == {WithChildren(p) : p \in {Vectors, Matrices, Several, Mutual, OuterLoop}}
=============================================================================
