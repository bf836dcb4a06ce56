----------------------------- MODULE MC_Scopes -----------------------------
(* Two names and two functions, so that every variable, loop counter and   *)
(* function can be called like any other.  F is global; L is local to F in *)
(* Nested and global in Siblings.                                          *)
EXTENDS Scopes, TLC

CONSTANTS a, b, F, L

Nested   == (Top :> <<F>>) @@ (F :> <<L>>) @@ (L :> <<>>)
Siblings == (Top :> <<F, L>>) @@ (F :> <<>>) @@ (L :> <<>>)

Var(n)  == [kind |-> "var", id |-> n]
Call(n) == [kind |-> "func", id |-> n]
Use(loops, ref) == [loops |-> loops, ref |-> ref]

Fun(id, header, params, decs, stmts) ==
  [id |-> id, header |-> header, params |-> params, decs |-> decs, stmts |-> stmts]

Program(globals, ofF, ofL) ==
  [children |-> Nested, globals |-> globals, fun |-> (F :> ofF) @@ (L :> ofL)]

Scalar(n)   == <<[id |-> n, dims |-> <<>>]>>
Array(d, n) == <<[id |-> n, dims |-> <<d>>]>>
Dec(n)      == <<[id |-> n, init |-> None]>>

(* No initializers.                                                        *)
LoopUses(nests) ==
  {Use(n, r) : <<n, r>> \in nests \X {Var(a), Var(b), Call(a), Call(b)}}

LoopPrograms ==
  {Program(g, Fun(a, "void", pF, dF, <<sF>>), Fun(b, "basic", pL, dL, <<sL>>)) :
     <<g, pF, dF, sF, pL, dL, sL>> \in
       {<<>>, <<a>>, <<a, a>>}
       \X {<<>>, Scalar(a), Array(a, a)}
       \X {<<>>, Dec(a), Dec(a) \o Dec(b)}
       \X LoopUses({<<>>, <<a>>, <<a, b>>, <<a, a>>})
       \X {<<>>, Scalar(b)}
       \X {<<>>, Dec(b)}
       \X LoopUses({<<>>, <<b>>})}

(* Initializers and no loops.  The local function may have F's name.       *)
DecsWith(inits) ==
  {<<[id |-> n, init |-> r]>> : <<n, r>> \in Names \X inits}

InitPrograms ==
  {Program(g, Fun(a, "void", pF, dF, <<Use(<<>>, Var(a))>>),
              Fun(id, "void", pL, dL, <<Use(<<>>, Var(b))>>)) :
     <<id, g, pF, dF, pL, dL>> \in
       Names
       \X {<<>>, <<a>>, <<a, b>>}
       \X {<<>>, Scalar(a)}
       \X {d \o e : <<d, e>> \in DecsWith({None, Var(a), Var(b), Call(a)})
                                 \X DecsWith({None, Var(a), Var(b), Call(b)})}
       \X {<<>>, Scalar(a)}
       \X DecsWith({Var(a), Var(b), Call(a), Call(b)})}

(* Two global functions, with an array parameter that may be called like   *)
(* its own dimension.                                                      *)
Plain(id) == Fun(id, "basic", <<>>, <<>>, <<>>)

HeaderPrograms ==
  {[Program(g, Fun(a, h, p, <<>>, <<Use(<<b, a>>, Call(c))>>), Plain(id))
      EXCEPT !.children = Siblings] :
     <<g, h, p, c, id>> \in {<<>>, <<a>>} \X {"void", "basic"}
                            \X {<<>>, Scalar(a), Array(b, a), Array(a, a), Scalar(b) \o Array(b, a),
                                Scalar(a) \o Array(b, a) \o Scalar(b)} \X Names \X Names}

MCPrograms == LoopPrograms \cup InitPrograms \cup HeaderPrograms
=============================================================================
