---------------------------- MODULE MC_ArrayInit ----------------------------
(* Two declarations: scalars, one- and two-dimensional arrays of up to     *)
(* three elements a dimension, and literals that fit, are too short,       *)
(* ragged, too shallow or too deep, or have empty rows.                    *)
EXTENDS ArrayInit

(***************************************************************************)
(* Literals as the text has them, a number of expressions or rows, and the *)
(* nodes that the parser makes of them.                                    *)
(***************************************************************************)
Row(exprs) == [exprs |-> exprs, rows |-> <<>>]
Rows(rows) == [exprs |-> 0, rows |-> rows]
Empty      == Rows(<<>>)

RECURSIVE NodesOf(_, _, _), NodesOfRows(_, _, _)
NodesOf(text, at, made) ==
  IF text.exprs > 0
  THEN <<[exprs |-> text.exprs, next |-> 0, siblings |-> 0, first |-> made + 1, at |-> at]>>
  ELSE NodesOfRows(text.rows, at, made)

NodesOfRows(rows, at, made) ==
  IF rows = <<>> THEN <<>>
  ELSE LET row   == NodesOf(Head(rows), Append(at, 0), made)
           next  == IF row = <<>> THEN 0 ELSE made + Len(row)
           after == NodesOfRows(Tail(rows), [at EXCEPT ![Len(at)] = @ + 1], made + Len(row))
           siblings == IF after = <<>> THEN 0 ELSE made + Len(row) + Len(after)
       IN  row \o after
           \o <<[exprs |-> 0, next |-> next, siblings |-> siblings, first |-> made + 1, at |-> at]>>

Dec(dims, init) == [dims |-> dims, init |-> init]

Scalars == {Dec(<<>>, NoInit), Dec(<<>>, Single)}

Texts == {Empty, Row(1), Row(2), Row(3),
          Rows(<<Row(2), Row(2)>>), Rows(<<Row(1), Row(2)>>),
          Rows(<<Row(2), Empty, Row(1)>>), Rows(<<Row(2), Rows(<<Empty>>)>>),
          Rows(<<Row(1), Rows(<<Row(1)>>)>>), Rows(<<Row(1), Row(1), Row(1)>>),
          Rows(<<Rows(<<Row(2), Row(1)>>), Rows(<<Row(1)>>)>>)}

Inits == {NoInit, Single} \cup {Literal(NodesOf(text, <<0>>, 0)) : text \in Texts}

OneDim == {Dec(<<3>>, i) : i \in Inits}
TwoDim == {Dec(dims, i) : <<dims, i>> \in {<<3, 2>>, <<3, 3>>, <<2, 3>>} \X Inits}

Declarations == {d \in Scalars \cup OneDim \cup TwoDim : d.init.splat \/ Fits(d)}
MCPrograms   == {<<c, d>> : <<c, d>> \in Declarations \X Declarations}

ThreeDim     == {<<Dec(dims, NoInit)>> : dims \in {<<1, 1, 2>>, <<2, 2, 2>>}}
=============================================================================
