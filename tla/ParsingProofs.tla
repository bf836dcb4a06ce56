--------------------------- MODULE ParsingProofs ---------------------------
(***************************************************************************)
(* Lists and loop steps, for parts of programs of any size and nesting.    *)
(***************************************************************************)
EXTENDS Parsing, SequenceTheorems, TLAPS

Kinds == {"headerparams", "vardecs", "stmts", "arrayexprs", "leaf", "ids", "exprs", "for"}
NodeType ==
  [kind : Kinds, in : Nat, src : Seq(Nat), ast : Seq(Nat), step : BOOLEAN, inc : Nat]

Typed ==
  /\ nodes \in Seq(NodeType)
  /\ \A n \in DOMAIN nodes :
       /\ nodes[n].in \in {0} \cup DOMAIN nodes
       /\ nodes[n].ast = <<>> <=> nodes[n].src = <<>>
       /\ nodes[n].kind = "exprs" /\ Closed(n) => nodes[n].src # <<>>
  /\ open \in Seq(Nat)
  /\ \A i \in DOMAIN open : open[i] \in DOMAIN nodes
  /\ current_forloop_inc_expr \in Nat
  /\ reversed \in BOOLEAN

-----------------------------------------------------------------------------
(* Turning a sequence around.                                              *)
LEMMA ReverseFacts ==
  ASSUME NEW S, NEW s \in Seq(S)
  PROVE  /\ Reverse(s) \in Seq(S)
         /\ Len(Reverse(s)) = Len(s)
         /\ \A i \in 1 .. Len(s) : Reverse(s)[i] = s[Len(s) - i + 1]
         /\ Reverse(Reverse(s)) = s
<1>1. Len(s) \in Nat /\ \A i \in 1 .. Len(s) : s[i] \in S
  OBVIOUS
<1>2. /\ Reverse(s) \in Seq(S) /\ Len(Reverse(s)) = Len(s)
      /\ \A i \in 1 .. Len(s) : Reverse(s)[i] = s[Len(s) - i + 1]
  BY <1>1 DEF Reverse
<1>3. Reverse(Reverse(s)) \in Seq(S) /\ Len(Reverse(Reverse(s))) = Len(s)
  BY <1>1, <1>2 DEF Reverse
<1>4. \A i \in 1 .. Len(s) : Reverse(Reverse(s))[i] = s[i]
  BY <1>1, <1>2 DEF Reverse
<1>5. Reverse(Reverse(s)) = s
  BY <1>3, <1>4, SeqEqual
<1> QED BY <1>2, <1>5

LEMMA ReverseAppend ==
  ASSUME NEW S, NEW s \in Seq(S), NEW e \in S
  PROVE  Reverse(Append(s, e)) = <<e>> \o Reverse(s)
<1> DEFINE r == Reverse(Append(s, e))
           t == <<e>> \o Reverse(s)
<1>1. /\ Append(s, e) \in Seq(S) /\ Len(Append(s, e)) = Len(s) + 1 /\ Len(s) \in Nat
      /\ \A i \in 1 .. Len(s) : Append(s, e)[i] = s[i]
      /\ Append(s, e)[Len(s) + 1] = e
  BY AppendProperties
<1>2. /\ r \in Seq(S) /\ Len(r) = Len(s) + 1
      /\ \A i \in 1 .. Len(s) + 1 : r[i] = Append(s, e)[Len(s) - i + 2]
  <2>1. /\ r \in Seq(S) /\ Len(r) = Len(Append(s, e))
        /\ \A i \in 1 .. Len(Append(s, e)) : r[i] = Append(s, e)[Len(Append(s, e)) - i + 1]
    BY <1>1, ReverseFacts
  <2> HIDE DEF r
  <2>2. \A i \in 1 .. Len(s) + 1 : Len(Append(s, e)) - i + 1 = Len(s) - i + 2
    BY <1>1
  <2> QED BY <1>1, <2>1, <2>2
<1>3. /\ t \in Seq(S) /\ Len(t) = Len(s) + 1
      /\ \A i \in 1 .. Len(s) + 1 : t[i] = IF i = 1 THEN e ELSE s[Len(s) - (i - 1) + 1]
  <2>1. Reverse(s) \in Seq(S) /\ Len(Reverse(s)) = Len(s)
    BY ReverseFacts
  <2>2. <<e>> \in Seq(S) /\ Len(<<e>>) = 1 /\ <<e>>[1] = e
    OBVIOUS
  <2>3. /\ t \in Seq(S) /\ Len(t) = 1 + Len(s)
        /\ \A i \in 1 .. 1 + Len(s) : t[i] = IF i <= 1 THEN <<e>>[i] ELSE Reverse(s)[i - 1]
    BY <2>1, <2>2, ConcatProperties
  <2>4. \A i \in 1 .. Len(s) : Reverse(s)[i] = s[Len(s) - i + 1]
    BY ReverseFacts
  <2> HIDE DEF t
  <2>5. ASSUME NEW i \in 1 .. Len(s) + 1
        PROVE  t[i] = IF i = 1 THEN e ELSE s[Len(s) - (i - 1) + 1]
    <3>1. CASE i = 1
      BY <1>1, <2>2, <2>3, <3>1
    <3>2. CASE i # 1
      <4>1. i - 1 \in 1 .. Len(s) /\ i \in 1 .. 1 + Len(s) /\ ~ (i <= 1)
        BY <1>1, <3>2
      <4> QED BY <2>3, <2>4, <3>2, <4>1
    <3> QED BY <3>1, <3>2
  <2> QED BY <1>1, <2>3, <2>5
<1> HIDE DEF r, t
<1>4. \A i \in 1 .. Len(s) + 1 : r[i] = t[i]
  <2> TAKE i \in 1 .. Len(s) + 1
  <2>1. CASE i = 1
    BY <1>1, <1>2, <1>3, <2>1
  <2>2. CASE i # 1
    BY <1>1, <1>2, <1>3, <2>2
  <2> QED BY <2>1, <2>2
<1> QED BY <1>2, <1>3, <1>4, SeqEqual DEF r, t

(* What a left-recursive rule makes of a list that another rule began: the *)
(* first element stays in front.                                           *)
FirstThenBack(s) == IF s = <<>> THEN <<>> ELSE <<s[1]>> \o Reverse(Tail(s))

LEMMA FirstThenBackFacts ==
  ASSUME NEW S, NEW s \in Seq(S), s # <<>>
  PROVE  /\ FirstThenBack(s) \in Seq(S)
         /\ FirstThenBack(s) # <<>>
         /\ Len(FirstThenBack(s)) = Len(s)
         /\ FirstThenBack(s)[1] = s[1]
         /\ \A i \in 2 .. Len(s) : FirstThenBack(s)[i] = s[Len(s) - i + 2]
         /\ Tail(FirstThenBack(s)) = Reverse(Tail(s))
<1> DEFINE b == Reverse(Tail(s))
           f == <<s[1]>> \o b
<1>1. /\ Tail(s) \in Seq(S) /\ Len(Tail(s)) = Len(s) - 1 /\ Len(s) \in Nat \ {0}
      /\ \A i \in 1 .. Len(s) - 1 : Tail(s)[i] = s[i + 1]
      /\ s[1] \in S
  BY HeadTailProperties, EmptySeq
<1>2. /\ b \in Seq(S) /\ Len(b) = Len(s) - 1
      /\ \A i \in 1 .. Len(s) - 1 : b[i] = s[Len(s) - i + 1]
  <2>1. /\ b \in Seq(S) /\ Len(b) = Len(Tail(s))
        /\ \A i \in 1 .. Len(Tail(s)) : b[i] = Tail(s)[Len(Tail(s)) - i + 1]
    BY <1>1, ReverseFacts
  <2> HIDE DEF b
  <2> QED BY <1>1, <2>1
<1> HIDE DEF b
<1>3. /\ f \in Seq(S) /\ Len(f) = Len(s) /\ f[1] = s[1]
      /\ \A i \in 2 .. Len(s) : f[i] = s[Len(s) - i + 2]
      /\ \A i \in 2 .. Len(s) : f[i] = b[i - 1]
  <2>1. <<s[1]>> \in Seq(S) /\ Len(<<s[1]>>) = 1 /\ <<s[1]>>[1] = s[1]
    BY <1>1
  <2>2. /\ f \in Seq(S) /\ Len(f) = 1 + Len(b)
        /\ \A i \in 1 .. 1 + Len(b) : f[i] = IF i <= 1 THEN <<s[1]>>[i] ELSE b[i - 1]
    BY <1>2, <2>1, ConcatProperties
  <2> HIDE DEF f
  <2> QED BY <1>1, <1>2, <2>1, <2>2
<1>4. f = FirstThenBack(s)
  BY DEF FirstThenBack, b
<1> HIDE DEF f
<1>5. f # <<>>
  BY <1>1, <1>3
<1>6. /\ Tail(f) \in Seq(S) /\ Len(Tail(f)) = Len(s) - 1
      /\ \A i \in 1 .. Len(s) - 1 : Tail(f)[i] = f[i + 1]
  BY <1>3, <1>5, HeadTailProperties
<1>7. \A i \in 1 .. Len(s) - 1 : Tail(f)[i] = b[i]
  BY <1>1, <1>3, <1>6
<1>8. Tail(f) = b
  BY <1>2, <1>6, <1>7, SeqEqual
<1> QED BY <1>3, <1>4, <1>5, <1>8 DEF b

LEMMA FirstThenBackAppend ==
  ASSUME NEW S, NEW s \in Seq(S), NEW e \in S
  PROVE  FirstThenBack(Append(s, e)) =
           IF s = <<>> THEN <<e>>
           ELSE <<FirstThenBack(s)[1], e>> \o Tail(FirstThenBack(s))
<1>1. Append(s, e) \in Seq(S) /\ Append(s, e) # <<>>
  BY AppendProperties
<1>2. CASE s = <<>>
  <2>1. Append(s, e) = <<e>>
    BY <1>2
  <2>4. <<e>> \in Seq(S) /\ <<e>> # <<>> /\ Len(<<e>>) = 1 /\ <<e>>[1] = e
    OBVIOUS
  <2>2. /\ Len(FirstThenBack(<<e>>)) = 1 /\ FirstThenBack(<<e>>)[1] = e
        /\ FirstThenBack(<<e>>) \in Seq(S)
    BY ONLY <2>4, FirstThenBackFacts
  <2>3. FirstThenBack(<<e>>) = <<e>>
    BY <2>2, <2>4, SeqEqual
  <2> QED BY <1>2, <2>1, <2>3
<1>3. CASE s # <<>>
  <2> DEFINE b == Reverse(Tail(s))
  <2>1. Tail(s) \in Seq(S) /\ s[1] \in S /\ Append(s, e)[1] = s[1]
    BY <1>3, HeadTailProperties, EmptySeq, AppendProperties
  <2>2. Tail(Append(s, e)) = Append(Tail(s), e)
    BY <1>3, HeadTailAppend
  <2>3. Reverse(Append(Tail(s), e)) = <<e>> \o b /\ b \in Seq(S)
    BY <2>1, ReverseAppend, ReverseFacts
  <2>4. FirstThenBack(Append(s, e)) = <<s[1]>> \o (<<e>> \o b)
    BY <1>1, <2>1, <2>2, <2>3 DEF FirstThenBack
  <2>5. <<s[1]>> \o (<<e>> \o b) = (<<s[1]>> \o <<e>>) \o b
    <3> HIDE DEF b
    <3>1. <<s[1]>> \in Seq(S) /\ <<e>> \in Seq(S)
      BY <2>1
    <3> QED BY <2>3, <3>1, ConcatAssociative
  <2>6. <<s[1]>> \o <<e>> = <<s[1], e>>
    <3> DEFINE p == <<s[1], e>>
    <3>1. /\ <<s[1]>> \in Seq(S) /\ Len(<<s[1]>>) = 1 /\ <<s[1]>>[1] = s[1]
          /\ <<e>> \in Seq(S) /\ Len(<<e>>) = 1 /\ <<e>>[1] = e
      BY <2>1
    <3>2. /\ <<s[1]>> \o <<e>> \in Seq(S) /\ Len(<<s[1]>> \o <<e>>) = 1 + 1
          /\ \A i \in 1 .. 1 + 1 : (<<s[1]>> \o <<e>>)[i] =
               IF i <= 1 THEN <<s[1]>>[i] ELSE <<e>>[i - 1]
      BY <3>1, ConcatProperties
    <3>3. p \in Seq(S) /\ Len(p) = 2 /\ p[1] = s[1] /\ p[2] = e
      BY <2>1
    <3>4. (<<s[1]>> \o <<e>>)[1] = s[1] /\ (<<s[1]>> \o <<e>>)[2] = e
      BY <3>1, <3>2
    <3>5. \A i \in 1 .. 2 : i = 1 \/ i = 2
      OBVIOUS
    <3> HIDE DEF p
    <3>6. <<s[1]>> \o <<e>> = p
      BY <3>2, <3>3, <3>4, <3>5, SeqEqual
    <3> QED BY <3>6 DEF p
  <2>7. FirstThenBack(s)[1] = s[1] /\ Tail(FirstThenBack(s)) = b
    BY <1>3, FirstThenBackFacts
  <2> HIDE DEF b
  <2> QED BY <1>3, <2>4, <2>5, <2>6, <2>7
<1> QED BY <1>2, <1>3

(* Neither turning around nor moving the first to the front loses one.     *)
LEMMA ReverseRange ==
  ASSUME NEW S, NEW s \in Seq(S)
  PROVE  Range(Reverse(s)) = Range(s)
<1>1. Len(s) \in Nat /\ DOMAIN s = 1 .. Len(s) /\ DOMAIN Reverse(s) = 1 .. Len(s)
  BY DEF Reverse
<1>2. \A i \in 1 .. Len(s) : Reverse(s)[i] = s[Len(s) - i + 1]
  BY ReverseFacts
<1>3. ASSUME NEW i \in 1 .. Len(s)
      PROVE  /\ Len(s) - i + 1 \in 1 .. Len(s)
             /\ Reverse(s)[i] = s[Len(s) - i + 1]
             /\ Reverse(s)[Len(s) - i + 1] = s[i]
  <2>1. Len(s) - i + 1 \in 1 .. Len(s) /\ Len(s) - (Len(s) - i + 1) + 1 = i
    BY <1>1
  <2> QED BY <1>2, <2>1
<1> QED BY <1>1, <1>3 DEF Range

LEMMA FirstThenBackRange ==
  ASSUME NEW S, NEW s \in Seq(S)
  PROVE  Len(FirstThenBack(s)) = Len(s) /\ Range(FirstThenBack(s)) = Range(s)
<1>1. CASE s = <<>>
  BY <1>1 DEF FirstThenBack
<1>2. CASE s # <<>>
  <2> DEFINE f == FirstThenBack(s)
  <2>1. /\ f \in Seq(S) /\ Len(f) = Len(s) /\ f[1] = s[1]
        /\ \A i \in 2 .. Len(s) : f[i] = s[Len(s) - i + 2]
    BY <1>2, FirstThenBackFacts
  <2> HIDE DEF f
  <2>2. Len(s) \in Nat /\ DOMAIN s = 1 .. Len(s) /\ DOMAIN f = 1 .. Len(s)
    BY <2>1
  <2>3. ASSUME NEW i \in 1 .. Len(s)
        PROVE  \E j \in 1 .. Len(s) : f[i] = s[j] /\ f[j] = s[i]
    <3>1. CASE i = 1
      BY <2>1, <3>1
    <3>2. CASE i # 1
      <4>1. /\ i \in 2 .. Len(s) /\ Len(s) - i + 2 \in 2 .. Len(s)
            /\ Len(s) - i + 2 \in 1 .. Len(s) /\ Len(s) - (Len(s) - i + 2) + 2 = i
        BY <2>2, <3>2
      <4> QED BY <2>1, <4>1
    <3> QED BY <3>1, <3>2
  <2>4. Range(f) = {f[i] : i \in 1 .. Len(s)} /\ Range(s) = {s[i] : i \in 1 .. Len(s)}
    BY <2>2 DEF Range
  <2>5. Range(f) \subseteq Range(s) /\ Range(s) \subseteq Range(f)
    BY <2>3, <2>4
  <2> QED BY <2>1, <2>5 DEF f
<1> QED BY <1>1, <1>2

LEMMA ShortFirstThenBack ==
  ASSUME NEW S, NEW s \in Seq(S), Len(s) <= 2
  PROVE  FirstThenBack(s) = s
<1>1. CASE s = <<>>
  BY <1>1 DEF FirstThenBack
<1>2. CASE s # <<>>
  <2> DEFINE f == FirstThenBack(s)
  <2>1. /\ f \in Seq(S) /\ Len(f) = Len(s) /\ f[1] = s[1]
        /\ \A i \in 2 .. Len(s) : f[i] = s[Len(s) - i + 2]
    BY <1>2, FirstThenBackFacts
  <2> HIDE DEF f
  <2>2. \A i \in 1 .. Len(s) : f[i] = s[i]
    <3>1. Len(s) \in Nat
      OBVIOUS
    <3> TAKE i \in 1 .. Len(s)
    <3>2. CASE i = 1
      BY <2>1, <3>2
    <3>3. CASE i # 1
      <4> DEFINE l == Len(s)
      <4>2. l \in Nat /\ l <= 2 /\ i \in 1 .. l
        BY <3>1
      <4> HIDE DEF l
      <4>3. i = 2 /\ l = 2
        BY <3>3, <4>2
      <4>1. i = 2 /\ Len(s) = 2 /\ i \in 2 .. Len(s) /\ Len(s) - i + 2 = 2
        BY <4>3 DEF l
      <4> QED BY <2>1, <4>1
    <3> QED BY <3>2, <3>3
  <2> QED BY <2>1, <2>2, SeqEqual DEF f
<1> QED BY <1>1, <1>2

-----------------------------------------------------------------------------
(* One more node: the list that is being read gets it, all else stays.     *)
LEMMA ReducedFacts ==
  ASSUME NEW kind, NEW S, NEW list \in Seq(S), NEW e \in S
  PROVE  Reduced(kind, list, e) \in Seq(S) /\ Reduced(kind, list, e) # <<>>
<1>1. /\ <<e>> \in Seq(S) /\ Len(<<e>>) = 1
      /\ Append(list, e) \in Seq(S) /\ Append(list, e) # <<>>
  BY AppendProperties
<1>2. <<e>> \o list \in Seq(S) /\ <<e>> \o list # <<>>
  BY <1>1, ConcatEqualIffEmpty, ConcatProperties
<1>3. CASE list # <<>>
  <2>1. list[1] \in S /\ Tail(list) \in Seq(S)
    BY <1>3, HeadTailProperties, EmptySeq
  <2>2. <<list[1], e>> \in Seq(S) /\ <<list[1], e>> # <<>>
    BY <2>1
  <2>3. <<list[1], e>> \o Tail(list) \in Seq(S) /\ <<list[1], e>> \o Tail(list) # <<>>
    BY <2>1, <2>2, ConcatProperties, ConcatEqualIffEmpty
  <2> QED BY <1>1, <1>2, <2>3 DEF Reduced
<1>4. CASE list = <<>>
  BY <1>1, <1>2, <1>4 DEF Reduced
<1> QED BY <1>3, <1>4

LEMMA AddedFacts ==
  ASSUME Typed, open # <<>>, NEW kind \in Kinds, NEW step \in BOOLEAN
  PROVE  /\ Inner \in DOMAIN nodes /\ Fresh = Len(nodes) + 1 /\ Fresh \notin DOMAIN nodes
         /\ Added(kind, step) \in Seq(NodeType)
         /\ DOMAIN Added(kind, step) = DOMAIN nodes \cup {Fresh}
         /\ \A n \in DOMAIN nodes :
              /\ Added(kind, step)[n].kind = nodes[n].kind
              /\ Added(kind, step)[n].in = nodes[n].in
              /\ Added(kind, step)[n].step = nodes[n].step
              /\ Added(kind, step)[n].inc = nodes[n].inc
              /\ n # Inner => Added(kind, step)[n].src = nodes[n].src
                              /\ Added(kind, step)[n].ast = nodes[n].ast
         /\ Added(kind, step)[Inner].src = Append(nodes[Inner].src, Fresh)
         /\ Added(kind, step)[Inner].ast = Reduced(nodes[Inner].kind, nodes[Inner].ast, Fresh)
         /\ Added(kind, step)[Fresh] = Node(kind, Inner, step)
<1> DEFINE src == Append(nodes[Inner].src, Fresh)
           ast == Reduced(nodes[Inner].kind, nodes[Inner].ast, Fresh)
           old == [nodes EXCEPT ![Inner] = [nodes[Inner] EXCEPT !.src = src, !.ast = ast]]
           new == Append(old, Node(kind, Inner, step))
<1>1. /\ Len(nodes) \in Nat /\ DOMAIN nodes = 1 .. Len(nodes)
      /\ \A n \in DOMAIN nodes : nodes[n] \in NodeType
  BY DEF Typed
<1>2. Inner \in DOMAIN nodes
  <2>1. Len(open) \in DOMAIN open
    BY EmptySeq DEF Typed
  <2> QED BY <2>1 DEF Typed, Inner, Last
<1>3. Fresh \in Nat /\ Fresh = Len(nodes) + 1 /\ Fresh \notin DOMAIN nodes
  BY <1>1 DEF Fresh
<1>4. src \in Seq(Nat) /\ ast \in Seq(Nat)
  <2>1. nodes[Inner].src \in Seq(Nat) /\ nodes[Inner].ast \in Seq(Nat)
    BY <1>1, <1>2 DEF NodeType
  <2> QED BY <1>3, <2>1, ReducedFacts, AppendProperties
<1>5. Added(kind, step) = new
  <2>1. \A n \in DOMAIN nodes : DOMAIN nodes[n] = {"kind", "in", "src", "ast", "step", "inc"}
    BY <1>1 DEF NodeType
  <2> QED BY <1>2, <2>1 DEF Added
<1> HIDE DEF src, ast
<1>6. [nodes[Inner] EXCEPT !.src = src, !.ast = ast] \in NodeType
  BY <1>1, <1>2, <1>4 DEF NodeType
<1>7. /\ old \in Seq(NodeType) /\ Len(old) = Len(nodes)
      /\ \A n \in DOMAIN nodes : old[n] =
           IF n = Inner THEN [nodes[Inner] EXCEPT !.src = src, !.ast = ast] ELSE nodes[n]
  BY <1>1, <1>2, <1>6, ExceptSeq DEF Typed
<1>8. Node(kind, Inner, step) \in NodeType
  BY <1>1, <1>2 DEF NodeType, Node
<1> HIDE DEF old
<1>9. /\ new \in Seq(NodeType) /\ Len(new) = Len(nodes) + 1
      /\ \A n \in DOMAIN nodes : new[n] = old[n]
      /\ new[Fresh] = Node(kind, Inner, step)
  BY <1>1, <1>3, <1>7, <1>8, AppendProperties
<1> HIDE DEF new
<1>10. DOMAIN new = DOMAIN nodes \cup {Fresh}
  BY <1>1, <1>3, <1>9
<1>11. /\ new[Inner].src = src /\ new[Inner].ast = ast /\ new[Inner].kind = nodes[Inner].kind
       /\ new[Inner].in = nodes[Inner].in /\ new[Inner].step = nodes[Inner].step
       /\ new[Inner].inc = nodes[Inner].inc
  BY <1>1, <1>2, <1>7, <1>9, ZenonT(30) DEF NodeType
<1>12. \A n \in DOMAIN nodes : n # Inner => new[n] = nodes[n]
  BY <1>7, <1>9
<1>13. \A n \in DOMAIN nodes :
         /\ new[n].kind = nodes[n].kind /\ new[n].in = nodes[n].in
         /\ new[n].step = nodes[n].step /\ new[n].inc = nodes[n].inc
         /\ n # Inner => new[n].src = nodes[n].src /\ new[n].ast = nodes[n].ast
  BY <1>11, <1>12
<1> QED BY <1>2, <1>3, <1>5, <1>9, <1>10, <1>11, <1>13 DEF src, ast

(* The end of a list leaves one list less open.                            *)
LEMMA FrontFacts ==
  ASSUME Typed, open # <<>>
  PROVE  /\ Front(open) \in Seq(Nat) /\ Len(Front(open)) = Len(open) - 1
         /\ Len(open) \in DOMAIN open /\ Inner = open[Len(open)]
         /\ DOMAIN Front(open) = DOMAIN open \ {Len(open)}
         /\ \A i \in DOMAIN Front(open) : Front(open)[i] = open[i]
<1>1. Len(open) \in Nat \ {0} /\ DOMAIN open = 1 .. Len(open)
  BY EmptySeq DEF Typed
<1>2. \A i \in 1 .. Len(open) - 1 : open[i] \in Nat
  BY <1>1 DEF Typed
<1>3. /\ Front(open) \in Seq(Nat) /\ Len(Front(open)) = Len(open) - 1
      /\ \A i \in 1 .. Len(open) - 1 : Front(open)[i] = open[i]
  <2>1. /\ SubSeq(open, 1, Len(open) - 1) \in Seq(Nat)
        /\ Len(SubSeq(open, 1, Len(open) - 1)) =
             IF 1 <= Len(open) - 1 THEN Len(open) - 1 - 1 + 1 ELSE 0
        /\ \A i \in 1 .. Len(open) - 1 - 1 + 1 :
             SubSeq(open, 1, Len(open) - 1)[i] = open[1 + i - 1]
    BY <1>1, <1>2, SubSeqProperties
  <2>2. \A i \in 1 .. Len(open) - 1 : 1 + i - 1 = i
    OBVIOUS
  <2>3. Len(open) - 1 - 1 + 1 = Len(open) - 1
    BY <1>1
  <2> HIDE DEF Front
  <2> QED BY <1>1, <2>1, <2>2, <2>3 DEF Front
<1>4. DOMAIN Front(open) = 1 .. Len(open) - 1
  BY <1>3
<1> QED BY <1>1, <1>3, <1>4 DEF Inner, Last

LEMMA InitTyped == Init => Typed
<1> SUFFICES ASSUME NEW root \in Roots, nodes = <<Node(root, 0, FALSE)>>, open = << 1 >>,
                    current_forloop_inc_expr = 0, reversed = FALSE
             PROVE  Typed
  BY DEF Init
<1>1. root \in Kinds
  BY ParsingAssumption DEF Kinds
<1>2. Node(root, 0, FALSE) \in NodeType
  BY <1>1 DEF Node, NodeType
<1>3. DOMAIN nodes = {1} /\ nodes[1] = Node(root, 0, FALSE) /\ DOMAIN open = {1} /\ open[1] = 1
  OBVIOUS
<1>4. nodes[1].in = 0
  BY <1>3 DEF Node
<1>5. nodes \in Seq(NodeType) /\ open \in Seq(Nat)
  <2>1. \A S : \A e \in S : <<e>> \in Seq(S)
    OBVIOUS
  <2> QED BY <1>2, <2>1
<1>6. ~Closed(1) /\ nodes[1].ast = <<>> /\ nodes[1].src = <<>>
  BY <1>3 DEF Closed, Range, Node
<1> QED BY <1>3, <1>4, <1>5, <1>6 DEF Typed

(* The three shapes of a step while the text is read.                      *)
Adds(kind, step) ==
  /\ open # <<>>
  /\ nodes' = Added(kind, step)
  /\ UNCHANGED reversed

LEMMA StepKinds ==
  ASSUME Next
  PROVE  \/ Adds("leaf", FALSE) /\ UNCHANGED <<open, current_forloop_inc_expr>>
         \/ \E kind \in {"ids", "exprs", "arrayexprs"} :
              /\ Adds(kind, FALSE) /\ open' = Append(open, Fresh)
              /\ UNCHANGED current_forloop_inc_expr
         \/ \E step \in BOOLEAN :
              /\ Adds("for", step) /\ open' = Append(open, Fresh)
              /\ current_forloop_inc_expr' = IF step THEN Fresh ELSE current_forloop_inc_expr
         \/ forloop \/ CloseList \/ ReverseParams
BY DEF Next, Leaf, OpenList, forloopincs, CanHold, Adds

(* A loop or list that ends, and ReverseParams, change these fields only.  *)
LEMMA ForloopFacts ==
  ASSUME Typed, forloop
  PROVE  /\ open # <<>> /\ Inner \in DOMAIN nodes /\ nodes[Inner].kind = "for"
         /\ nodes' \in Seq(NodeType) /\ DOMAIN nodes' = DOMAIN nodes
         /\ \A n \in DOMAIN nodes :
              /\ nodes'[n].kind = nodes[n].kind /\ nodes'[n].in = nodes[n].in
              /\ nodes'[n].step = nodes[n].step /\ nodes'[n].src = nodes[n].src
              /\ nodes'[n].ast = nodes[n].ast
              /\ nodes'[n].inc = IF n = Inner THEN current_forloop_inc_expr ELSE nodes[n].inc
         /\ current_forloop_inc_expr' = 0 /\ open' = Front(open) /\ reversed' = reversed
<1>1. open # <<>> /\ nodes[Inner].kind = "for"
  BY DEF forloop
<1>2. Inner \in DOMAIN nodes
  BY <1>1, FrontFacts DEF Typed
<1>3. \A n \in DOMAIN nodes : nodes[n] \in NodeType
  BY DEF Typed
<1>4. nodes' = [nodes EXCEPT ![Inner] = [nodes[Inner] EXCEPT !.inc = current_forloop_inc_expr]]
  BY <1>1, <1>2, <1>3 DEF forloop
<1>5. [nodes[Inner] EXCEPT !.inc = current_forloop_inc_expr] \in NodeType
  BY <1>2, <1>3 DEF NodeType, Typed
<1>6. nodes' \in Seq(NodeType) /\ DOMAIN nodes' = DOMAIN nodes
  BY <1>2, <1>4, <1>5, ExceptSeq DEF Typed
<1>7. \A n \in DOMAIN nodes : n # Inner => nodes'[n] = nodes[n]
  BY <1>4
<1>8. /\ nodes'[Inner].kind = nodes[Inner].kind /\ nodes'[Inner].in = nodes[Inner].in
      /\ nodes'[Inner].step = nodes[Inner].step /\ nodes'[Inner].src = nodes[Inner].src
      /\ nodes'[Inner].ast = nodes[Inner].ast
      /\ nodes'[Inner].inc = current_forloop_inc_expr
  BY <1>2, <1>3, <1>4 DEF NodeType
<1> QED BY <1>1, <1>2, <1>6, <1>7, <1>8 DEF forloop

LEMMA CloseListFacts ==
  ASSUME Typed, CloseList
  PROVE  /\ open # <<>> /\ Inner \in DOMAIN nodes
         /\ nodes[Inner].kind # "for" /\ nodes[Inner].src # <<>>
         /\ nodes' \in Seq(NodeType) /\ DOMAIN nodes' = DOMAIN nodes
         /\ \A n \in DOMAIN nodes :
              /\ nodes'[n].kind = nodes[n].kind /\ nodes'[n].in = nodes[n].in
              /\ nodes'[n].step = nodes[n].step /\ nodes'[n].src = nodes[n].src
              /\ nodes'[n].inc = nodes[n].inc
              /\ nodes'[n].ast = IF n = Inner /\ nodes[n].kind = "vardecs"
                                 THEN Reverse(nodes[n].ast) ELSE nodes[n].ast
         /\ current_forloop_inc_expr' = current_forloop_inc_expr
         /\ open' = Front(open) /\ reversed' = reversed
<1>1. open # <<>> /\ nodes[Inner].kind # "for" /\ nodes[Inner].src # <<>>
  BY DEF CloseList
<1>2. Inner \in DOMAIN nodes
  BY <1>1, FrontFacts DEF Typed
<1>3. \A n \in DOMAIN nodes : nodes[n] \in NodeType
  BY DEF Typed
<1>4. CASE nodes[Inner].kind = "vardecs"
  <2>1. nodes' = [nodes EXCEPT ![Inner] = [nodes[Inner] EXCEPT !.ast = Reverse(nodes[Inner].ast)]]
    BY <1>2, <1>3, <1>4 DEF CloseList, reverse_vardecs
  <2>2. Reverse(nodes[Inner].ast) \in Seq(Nat)
    BY <1>2, <1>3, ReverseFacts DEF NodeType
  <2>3. [nodes[Inner] EXCEPT !.ast = Reverse(nodes[Inner].ast)] \in NodeType
    BY <1>2, <1>3, <2>2 DEF NodeType
  <2>4. nodes' \in Seq(NodeType) /\ DOMAIN nodes' = DOMAIN nodes
    BY <1>2, <2>1, <2>3, ExceptSeq DEF Typed
  <2>5. \A n \in DOMAIN nodes : n # Inner => nodes'[n] = nodes[n]
    BY <2>1
  <2>6. /\ nodes'[Inner].kind = nodes[Inner].kind /\ nodes'[Inner].in = nodes[Inner].in
        /\ nodes'[Inner].step = nodes[Inner].step /\ nodes'[Inner].src = nodes[Inner].src
        /\ nodes'[Inner].inc = nodes[Inner].inc
        /\ nodes'[Inner].ast = Reverse(nodes[Inner].ast)
    BY <1>2, <1>3, <2>1 DEF NodeType
  <2> QED BY <1>1, <1>2, <1>4, <2>4, <2>5, <2>6 DEF CloseList
<1>5. CASE nodes[Inner].kind # "vardecs"
  BY <1>1, <1>2, <1>5 DEF CloseList, Typed
<1> QED BY <1>4, <1>5

LEMMA ReverseParamsFacts ==
  ASSUME Typed, ReverseParams
  PROVE  /\ open = <<>> /\ reversed = FALSE /\ reversed' = TRUE
         /\ nodes' \in Seq(NodeType) /\ DOMAIN nodes' = DOMAIN nodes
         /\ \A n \in DOMAIN nodes :
              /\ nodes'[n].kind = nodes[n].kind /\ nodes'[n].in = nodes[n].in
              /\ nodes'[n].step = nodes[n].step /\ nodes'[n].src = nodes[n].src
              /\ nodes'[n].inc = nodes[n].inc
              /\ nodes'[n].ast = Repaired(n) /\ (nodes'[n].ast = <<>> <=> nodes[n].ast = <<>>)
         /\ UNCHANGED <<open, current_forloop_inc_expr>>
<1>1. \A n \in DOMAIN nodes : nodes[n] \in NodeType
  BY DEF Typed
<1>2. ASSUME NEW n \in DOMAIN nodes
      PROVE  Repaired(n) \in Seq(Nat) /\ (Repaired(n) = <<>> <=> nodes[n].ast = <<>>)
  <2> DEFINE list == nodes[n].ast
  <2>1. list \in Seq(Nat)
    BY <1>1 DEF NodeType
  <2>2. Reverse(list) \in Seq(Nat) /\ (Reverse(list) = <<>> <=> list = <<>>)
    <3>1. Reverse(list) \in Seq(Nat) /\ Len(Reverse(list)) = Len(list)
      BY <2>1, ReverseFacts
    <3> HIDE DEF list
    <3> QED BY <2>1, <3>1, EmptySeq
  <2>3. CASE nodes[n].kind = "exprs" /\ ~InExprs(n)
    <3>1. list # <<>>
      BY <2>3 DEF Typed, ReverseParams, Closed, Range
    <3>2. <<list[1]>> \o Reverse(Tail(list)) = FirstThenBack(list)
      BY <3>1 DEF FirstThenBack
    <3>3. FirstThenBack(list) \in Seq(Nat) /\ FirstThenBack(list) # <<>>
      BY <2>1, <3>1, FirstThenBackFacts
    <3>4. Repaired(n) = <<list[1]>> \o Reverse(Tail(list))
      BY <2>3 DEF Repaired
    <3> QED BY <3>1, <3>2, <3>3, <3>4
  <2>4. CASE ~ (nodes[n].kind = "exprs" /\ ~InExprs(n))
    <3>1. Repaired(n) \in {Reverse(list), list}
      BY <2>4 DEF Repaired
    <3> QED BY <2>1, <2>2, <3>1
  <2> QED BY <2>3, <2>4
<1>3. \A n \in DOMAIN nodes : [nodes[n] EXCEPT !.ast = Repaired(n)] \in NodeType
  BY <1>1, <1>2 DEF NodeType
<1>4. nodes' = [n \in DOMAIN nodes |-> [nodes[n] EXCEPT !.ast = Repaired(n)]]
  BY DEF ReverseParams
<1>5. nodes' \in Seq(NodeType) /\ DOMAIN nodes' = DOMAIN nodes
  <2>1. DOMAIN nodes = 1 .. Len(nodes) /\ Len(nodes) \in Nat
    BY DEF Typed
  <2> QED BY <1>3, <1>4, <2>1
<1>6. \A n \in DOMAIN nodes :
        /\ nodes'[n].kind = nodes[n].kind /\ nodes'[n].in = nodes[n].in
        /\ nodes'[n].step = nodes[n].step /\ nodes'[n].src = nodes[n].src
        /\ nodes'[n].inc = nodes[n].inc /\ nodes'[n].ast = Repaired(n)
  <2> TAKE n \in DOMAIN nodes
  <2>1. nodes'[n] = [nodes[n] EXCEPT !.ast = Repaired(n)]
    BY <1>4
  <2>2. nodes[n] \in NodeType
    BY <1>1
  <2> QED BY <2>1, <2>2 DEF NodeType
<1>7. open = <<>> /\ reversed = FALSE /\ reversed' = TRUE
      /\ UNCHANGED <<open, current_forloop_inc_expr>>
  BY DEF ReverseParams, Typed
<1> QED BY <1>2, <1>5, <1>6, <1>7

(* Which lists are open after one ends and after one is begun.             *)
LEMMA RangeOpen ==
  ASSUME Typed, open # <<>>
  PROVE  /\ Range(Append(open, Fresh)) = Range(open) \cup {Fresh}
         /\ Range(open) = Range(Front(open)) \cup {Inner}
         /\ Range(open) \subseteq DOMAIN nodes
<1>1. Fresh \in Nat
  BY DEF Typed, Fresh
<1>2. DOMAIN open = 1 .. Len(open) /\ Len(open) \in Nat
  BY DEF Typed
<1>3. /\ DOMAIN Append(open, Fresh) = 1 .. Len(open) + 1
      /\ \A i \in 1 .. Len(open) : Append(open, Fresh)[i] = open[i]
      /\ Append(open, Fresh)[Len(open) + 1] = Fresh
  BY <1>1, AppendProperties DEF Typed
<1> DEFINE longer == Append(open, Fresh)
<1> HIDE DEF longer
<1>4. 1 .. Len(open) + 1 = (1 .. Len(open)) \cup {Len(open) + 1}
  BY <1>2
<1>5. Range(longer) = Range(open) \cup {Fresh}
  <2>1. Range(longer) = {longer[i] : i \in (1 .. Len(open)) \cup {Len(open) + 1}}
    BY <1>3, <1>4 DEF Range, longer
  <2>2. Range(open) = {open[i] : i \in 1 .. Len(open)}
    BY <1>2 DEF Range
  <2>3. \A i \in 1 .. Len(open) : longer[i] = open[i]
    BY <1>3 DEF longer
  <2>4. longer[Len(open) + 1] = Fresh
    BY <1>3 DEF longer
  <2> HIDE DEF Fresh
  <2> QED BY <2>1, <2>2, <2>3, <2>4
<1>6. Range(open) = Range(Front(open)) \cup {Inner}
  <2> DEFINE front == Front(open)
  <2>1. /\ Len(open) \in DOMAIN open /\ Inner = open[Len(open)]
        /\ DOMAIN front = DOMAIN open \ {Len(open)}
        /\ \A i \in DOMAIN front : front[i] = open[i]
    BY FrontFacts
  <2> HIDE DEF front
  <2> QED BY <2>1 DEF Range, front
<1>7. Range(open) \subseteq DOMAIN nodes
  BY DEF Typed, Range
<1> QED BY <1>5, <1>6, <1>7 DEF longer

LEMMA AddsTyped ==
  ASSUME Typed, NEW kind \in Kinds, NEW step \in BOOLEAN, Adds(kind, step),
         kind = "exprs" => Fresh \in Range(open'), Range(open) \subseteq Range(open')
  PROVE  /\ nodes' \in Seq(NodeType) /\ DOMAIN nodes' = DOMAIN nodes \cup {Fresh}
         /\ Fresh \in Nat /\ Fresh \notin DOMAIN nodes /\ Inner \in DOMAIN nodes
         /\ reversed' \in BOOLEAN
         /\ \A n \in DOMAIN nodes' :
              /\ nodes'[n].in \in {0} \cup DOMAIN nodes'
              /\ nodes'[n].ast = <<>> <=> nodes'[n].src = <<>>
              /\ nodes'[n].kind = "exprs" /\ n \notin Range(open') => nodes'[n].src # <<>>
<1>1. nodes' = Added(kind, step) /\ open # <<>>
  BY DEF Adds
<1>2. /\ Inner \in DOMAIN nodes /\ Fresh = Len(nodes) + 1 /\ Fresh \notin DOMAIN nodes
      /\ nodes' \in Seq(NodeType) /\ DOMAIN nodes' = DOMAIN nodes \cup {Fresh}
      /\ \A n \in DOMAIN nodes :
           /\ nodes'[n].kind = nodes[n].kind /\ nodes'[n].in = nodes[n].in
           /\ n # Inner => nodes'[n].src = nodes[n].src /\ nodes'[n].ast = nodes[n].ast
      /\ nodes'[Inner].src = Append(nodes[Inner].src, Fresh)
      /\ nodes'[Inner].ast = Reduced(nodes[Inner].kind, nodes[Inner].ast, Fresh)
      /\ nodes'[Fresh] = Node(kind, Inner, step)
  BY <1>1, AddedFacts, ZenonT(30)
<1>3. Fresh \in Nat /\ nodes[Inner].src \in Seq(Nat) /\ nodes[Inner].ast \in Seq(Nat)
  <2>1. nodes[Inner] \in NodeType /\ Len(nodes) \in Nat
    BY <1>2 DEF Typed
  <2> QED BY <1>2, <2>1 DEF NodeType
<1>4. nodes'[Inner].src # <<>> /\ nodes'[Inner].ast # <<>>
  <2>3. \A s \in Seq(Nat) : \A e \in Nat : Append(s, e) # <<>>
    <3> TAKE s \in Seq(Nat)
    <3> TAKE e \in Nat
    <3>1. Len(Append(s, e)) = Len(s) + 1 /\ Len(s) \in Nat
      OBVIOUS
    <3> QED BY <3>1
  <2>1. Append(nodes[Inner].src, Fresh) # <<>>
    BY <1>3, <2>3
  <2>2. Reduced(nodes[Inner].kind, nodes[Inner].ast, Fresh) # <<>>
    BY <1>3, ReducedFacts
  <2> QED BY <1>2, <2>1, <2>2
<1>5. /\ nodes'[Fresh].kind = kind /\ nodes'[Fresh].in = Inner
      /\ nodes'[Fresh].src = <<>> /\ nodes'[Fresh].ast = <<>>
  BY <1>2 DEF Node
<1>6. ASSUME NEW n \in DOMAIN nodes'
      PROVE  /\ nodes'[n].in \in {0} \cup DOMAIN nodes'
             /\ nodes'[n].ast = <<>> <=> nodes'[n].src = <<>>
             /\ nodes'[n].kind = "exprs" /\ n \notin Range(open') => nodes'[n].src # <<>>
  <2>1. CASE n = Fresh
    BY <1>2, <1>5, <2>1
  <2>2. CASE n \in DOMAIN nodes /\ n # Inner
    BY <1>2, <2>2, ZenonT(30) DEF Typed, Closed
  <2>3. CASE n = Inner
    BY <1>2, <1>4, <2>3 DEF Typed
  <2> QED BY <1>2, <2>1, <2>2, <2>3
<1> QED BY <1>2, <1>3, <1>6 DEF Adds, Typed

LEMMA TypedStep == Typed /\ [Next]_vars => Typed'
<1> SUFFICES ASSUME Typed, [Next]_vars PROVE Typed'
  OBVIOUS
<1>1. CASE Adds("leaf", FALSE) /\ UNCHANGED <<open, current_forloop_inc_expr>>
  <2>1. "leaf" \in Kinds /\ "leaf" # "exprs"
    BY DEF Kinds
  <2>2. /\ nodes' \in Seq(NodeType) /\ DOMAIN nodes' = DOMAIN nodes \cup {Fresh}
        /\ reversed' \in BOOLEAN
        /\ \A n \in DOMAIN nodes' :
              /\ nodes'[n].in \in {0} \cup DOMAIN nodes'
              /\ nodes'[n].ast = <<>> <=> nodes'[n].src = <<>>
              /\ nodes'[n].kind = "exprs" /\ n \notin Range(open') => nodes'[n].src # <<>>
    BY <1>1, <2>1, AddsTyped
  <2> QED BY <1>1, <2>2 DEF Typed, Closed
<1>2. ASSUME NEW kind \in Kinds, NEW step \in BOOLEAN, Adds(kind, step),
             open' = Append(open, Fresh), current_forloop_inc_expr' \in {current_forloop_inc_expr, Fresh}
      PROVE  Typed'
  <2>1. open # <<>>
    BY <1>2 DEF Adds
  <2>2. Range(open') = Range(open) \cup {Fresh} /\ Range(open) \subseteq DOMAIN nodes
    BY <1>2, <2>1, RangeOpen
  <2>3. /\ nodes' \in Seq(NodeType) /\ DOMAIN nodes' = DOMAIN nodes \cup {Fresh}
        /\ Fresh \in Nat /\ reversed' \in BOOLEAN
        /\ \A n \in DOMAIN nodes' :
              /\ nodes'[n].in \in {0} \cup DOMAIN nodes'
              /\ nodes'[n].ast = <<>> <=> nodes'[n].src = <<>>
              /\ nodes'[n].kind = "exprs" /\ n \notin Range(open') => nodes'[n].src # <<>>
    BY <1>2, <2>2, AddsTyped
  <2>4. open' \in Seq(Nat)
    BY <1>2, <2>3, AppendProperties DEF Typed
  <2>5. \A i \in DOMAIN open' : open'[i] \in DOMAIN nodes'
    BY <2>2, <2>3 DEF Range
  <2> QED BY <1>2, <2>3, <2>4, <2>5 DEF Typed, Closed
<1>3. CASE forloop
  <2>1. /\ open # <<>> /\ nodes[Inner].kind = "for"
        /\ nodes' \in Seq(NodeType) /\ DOMAIN nodes' = DOMAIN nodes
        /\ \A n \in DOMAIN nodes :
              /\ nodes'[n].kind = nodes[n].kind /\ nodes'[n].in = nodes[n].in
              /\ nodes'[n].src = nodes[n].src /\ nodes'[n].ast = nodes[n].ast
        /\ current_forloop_inc_expr' = 0 /\ open' = Front(open) /\ reversed' = reversed
    BY <1>3, ForloopFacts
  <2>2. Range(open) = Range(open') \cup {Inner} /\ Range(open) \subseteq DOMAIN nodes
    BY <2>1, RangeOpen
  <2>3. open' \in Seq(Nat) /\ \A i \in DOMAIN open' : open'[i] \in DOMAIN nodes
    BY <2>1, <2>2, FrontFacts DEF Range
  <2> QED BY <2>1, <2>2, <2>3, ZenonT(30) DEF Typed, Closed
<1>4. CASE CloseList
  <2>1. /\ open # <<>> /\ nodes[Inner].src # <<>>
        /\ nodes' \in Seq(NodeType) /\ DOMAIN nodes' = DOMAIN nodes
        /\ \A n \in DOMAIN nodes :
              /\ nodes'[n].kind = nodes[n].kind /\ nodes'[n].in = nodes[n].in
              /\ nodes'[n].src = nodes[n].src
              /\ nodes'[n].ast = IF n = Inner /\ nodes[n].kind = "vardecs"
                                 THEN Reverse(nodes[n].ast) ELSE nodes[n].ast
        /\ current_forloop_inc_expr' = current_forloop_inc_expr
        /\ open' = Front(open) /\ reversed' = reversed
    BY <1>4, CloseListFacts
  <2>2. Range(open) = Range(open') \cup {Inner} /\ Range(open) \subseteq DOMAIN nodes
    BY <2>1, RangeOpen
  <2>3. open' \in Seq(Nat) /\ \A i \in DOMAIN open' : open'[i] \in DOMAIN nodes
    BY <2>1, <2>2, FrontFacts DEF Range
  <2>4. \A s \in Seq(Nat) : Reverse(s) = <<>> <=> s = <<>>
    <3> SUFFICES ASSUME NEW s \in Seq(Nat) PROVE Reverse(s) = <<>> <=> s = <<>>
      OBVIOUS
    <3>1. Reverse(s) \in Seq(Nat) /\ Len(Reverse(s)) = Len(s)
      BY ReverseFacts
    <3> QED BY <3>1, EmptySeq
  <2>5. \A n \in DOMAIN nodes : nodes'[n].ast = <<>> <=> nodes[n].ast = <<>>
    <3>1. \A n \in DOMAIN nodes : nodes[n].ast \in Seq(Nat)
      <4>1. \A n \in DOMAIN nodes : nodes[n] \in NodeType
        BY DEF Typed
      <4> QED BY <4>1 DEF NodeType
    <3> QED BY <2>1, <2>4, <3>1
  <2>6. ASSUME NEW n \in DOMAIN nodes'
        PROVE  /\ nodes'[n].in \in {0} \cup DOMAIN nodes'
               /\ nodes'[n].ast = <<>> <=> nodes'[n].src = <<>>
               /\ nodes'[n].kind = "exprs" /\ n \notin Range(open') => nodes'[n].src # <<>>
    BY <2>1, <2>2, <2>5 DEF Typed, Closed
  <2> QED BY <2>1, <2>3, <2>6 DEF Typed, Closed
<1>5. CASE ReverseParams
  <2>1. /\ nodes' \in Seq(NodeType) /\ DOMAIN nodes' = DOMAIN nodes
        /\ \A n \in DOMAIN nodes :
              /\ nodes'[n].kind = nodes[n].kind /\ nodes'[n].in = nodes[n].in
              /\ nodes'[n].src = nodes[n].src
              /\ nodes'[n].ast = <<>> <=> nodes[n].ast = <<>>
        /\ reversed' = TRUE /\ UNCHANGED <<open, current_forloop_inc_expr>>
    BY <1>5, ReverseParamsFacts
  <2> QED BY <2>1 DEF Typed, Closed
<1>6. CASE UNCHANGED vars
  BY <1>6 DEF vars, Typed, Closed
<1>7. {"ids", "exprs", "arrayexprs", "for"} \subseteq Kinds
  BY DEF Kinds
<1> QED BY <1>1, <1>2, <1>3, <1>4, <1>5, <1>6, <1>7, StepKinds

LEMMA AlwaysTyped == Spec => []Typed
BY InitTyped, TypedStep, PTL DEF Spec

-----------------------------------------------------------------------------
(* n stands in m, in a tree of nodes.                                      *)
Enclosed(tree, n, m) ==
  /\ tree[n].in # 0
  /\ \A around \in SUBSET DOMAIN tree :
       /\ tree[n].in \in around
       /\ \A k \in around : tree[k].in \in around \cup {0}
       => m \in around

(* What is read later is numbered higher, and open lists stand in each     *)
(* other.                                                                  *)
Nested ==
  \A i, j \in DOMAIN open : i < j => open[i] < open[j] /\ Enclosed(nodes, open[j], open[i])

(* What stands in something stays there when nodes are added.              *)
LEMMA EnclosedStays ==
  ASSUME Typed, DOMAIN nodes \subseteq DOMAIN nodes',
         \A n \in DOMAIN nodes : nodes'[n].in = nodes[n].in,
         NEW n \in DOMAIN nodes, NEW m, Enclosed(nodes, n, m)
  PROVE  Enclosed(nodes', n, m)
<1>1. nodes'[n].in # 0
  BY DEF Enclosed
<1>2. ASSUME NEW around \in SUBSET DOMAIN nodes', nodes'[n].in \in around,
             \A k \in around : nodes'[k].in \in around \cup {0}
      PROVE  m \in around
  <2> DEFINE old == around \cap DOMAIN nodes
  <2>1. nodes[n].in \in old
    BY <1>1, <1>2 DEF Typed
  <2>2. \A k \in old : nodes[k].in \in old \cup {0}
    BY <1>2 DEF Typed
  <2>3. m \in old
    BY <2>1, <2>2 DEF Enclosed
  <2> QED BY <2>3
<1> QED BY <1>1, <1>2 DEF Enclosed

(* A new node stands in the innermost list, and in what that stands in.    *)
LEMMA EnclosedInner ==
  ASSUME Typed, NEW n, n \notin DOMAIN nodes, DOMAIN nodes' = DOMAIN nodes \cup {n},
         \A k \in DOMAIN nodes : nodes'[k].in = nodes[k].in,
         NEW i \in DOMAIN nodes, i # 0, nodes'[n].in = i
  PROVE  /\ Enclosed(nodes', n, i)
         /\ \A m : Enclosed(nodes, i, m) => Enclosed(nodes', n, m)
<1>1. Enclosed(nodes', n, i)
  BY DEF Enclosed
<1>2. ASSUME NEW m, Enclosed(nodes, i, m), NEW around \in SUBSET DOMAIN nodes',
             nodes'[n].in \in around,
             \A k \in around : nodes'[k].in \in around \cup {0}
      PROVE  m \in around
  <2> DEFINE old == around \cap DOMAIN nodes
  <2>1. nodes[i].in # 0
    BY <1>2 DEF Enclosed
  <2>2. nodes[i].in \in old
    BY <1>2, <2>1 DEF Typed
  <2>3. \A k \in old : nodes[k].in \in old \cup {0}
    BY <1>2 DEF Typed
  <2>4. m \in old
    BY <1>2, <2>2, <2>3 DEF Enclosed
  <2> QED BY <2>4
<1>3. \A m : Enclosed(nodes, i, m) => Enclosed(nodes', n, m)
  BY <1>2 DEF Enclosed
<1> QED BY <1>1, <1>3

LEMMA NestedGrows ==
  ASSUME Typed, Nested, NEW kind \in Kinds, NEW step \in BOOLEAN, Adds(kind, step),
         open' \in {open, Append(open, Fresh)}
  PROVE  Nested'
<1>1. nodes' = Added(kind, step) /\ open # <<>>
  BY DEF Adds
<1>2. /\ Inner \in DOMAIN nodes /\ Fresh = Len(nodes) + 1 /\ Fresh \notin DOMAIN nodes
      /\ DOMAIN nodes' = DOMAIN nodes \cup {Fresh}
      /\ \A n \in DOMAIN nodes : nodes'[n].in = nodes[n].in
      /\ nodes'[Fresh] = Node(kind, Inner, step)
  BY <1>1, AddedFacts
<1>3. nodes'[Fresh].in = Inner
  BY <1>2 DEF Node
<1>4. /\ DOMAIN open = 1 .. Len(open) /\ Len(open) \in Nat \ {0} /\ Inner = open[Len(open)]
      /\ DOMAIN nodes = 1 .. Len(nodes) /\ Len(nodes) \in Nat
      /\ \A i \in DOMAIN open : open[i] \in DOMAIN nodes
  BY <1>1, FrontFacts, EmptySeq DEF Typed
<1>5. \A i, j \in DOMAIN open : i < j => open[i] < open[j] /\ Enclosed(nodes', open[j], open[i])
  BY <1>2, <1>4, EnclosedStays DEF Nested
<1>6. CASE open' = open
  BY <1>5, <1>6 DEF Nested
<1>7. CASE open' = Append(open, Fresh)
  <2>1. /\ DOMAIN open' = 1 .. Len(open) + 1
        /\ \A i \in 1 .. Len(open) : open'[i] = open[i]
        /\ open'[Len(open) + 1] = Fresh
    BY <1>2, <1>4, <1>7, AppendProperties DEF Typed
  <2>2. Inner # 0
    BY <1>2, <1>4
  <2>3. /\ Enclosed(nodes', Fresh, Inner)
        /\ \A m : Enclosed(nodes, Inner, m) => Enclosed(nodes', Fresh, m)
    BY <1>2, <1>3, <2>2, EnclosedInner
  <2>4. ASSUME NEW i \in DOMAIN open', NEW j \in DOMAIN open', i < j
        PROVE  open'[i] < open'[j] /\ Enclosed(nodes', open'[j], open'[i])
    <3>1. i \in 1 .. Len(open)
      BY <1>4, <2>1, <2>4
    <3>2. CASE j \in 1 .. Len(open)
      BY <1>4, <1>5, <2>1, <2>4, <3>1, <3>2
    <3>3. CASE j = Len(open) + 1
      <4>1. open'[i] < open'[j]
        BY <1>2, <1>4, <2>1, <3>1, <3>3
      <4>2. open[i] = Inner \/ Enclosed(nodes, Inner, open[i])
        BY <1>4, <3>1 DEF Nested
      <4> QED BY <2>1, <2>3, <3>1, <3>3, <4>1, <4>2
    <3> QED BY <1>4, <2>1, <3>2, <3>3
  <2> QED BY <2>4 DEF Nested
<1> QED BY <1>6, <1>7

LEMMA NestedStep == Typed /\ Nested /\ [Next]_vars => Nested'
<1> SUFFICES ASSUME Typed, Nested, [Next]_vars PROVE Nested'
  OBVIOUS
<1>1. {"leaf", "ids", "exprs", "arrayexprs", "for"} \subseteq Kinds
  BY DEF Kinds
<1>2. ASSUME /\ DOMAIN nodes' = DOMAIN nodes
             /\ \A n \in DOMAIN nodes : nodes'[n].in = nodes[n].in,
             open' = open \/ (open # <<>> /\ open' = Front(open))
      PROVE  Nested'
  <2>1. \A n \in DOMAIN nodes : \A m : Enclosed(nodes, n, m) => Enclosed(nodes', n, m)
    BY <1>2, EnclosedStays
  <2>2. DOMAIN open' \subseteq DOMAIN open /\ \A i \in DOMAIN open' : open'[i] = open[i]
    BY <1>2, FrontFacts
  <2> QED BY <2>1, <2>2 DEF Nested, Typed
<1>3. CASE UNCHANGED vars
  BY <1>2, <1>3 DEF vars
<1>4. CASE forloop
  BY <1>2, <1>4, ForloopFacts
<1>5. CASE CloseList
  BY <1>2, <1>5, CloseListFacts
<1>6. CASE ReverseParams
  BY <1>2, <1>6, ReverseParamsFacts
<1> QED BY <1>1, <1>3, <1>4, <1>5, <1>6, NestedGrows, StepKinds

LEMMA InitNested == Init => Nested
<1> SUFFICES ASSUME open = << 1 >> PROVE Nested
  BY DEF Init
<1>1. DOMAIN open = {1}
  OBVIOUS
<1> QED BY <1>1 DEF Nested

(* What the innermost list stands in is what is open beside it.            *)
LEMMA InnerIsLast ==
  ASSUME Typed, Nested, open # <<>>
  PROVE  /\ Inner \in DOMAIN nodes
         /\ Range(Front(open)) = Range(open) \ {Inner}
         /\ \A m \in Range(open) \ {Inner} : m < Inner /\ Enclosed(nodes, Inner, m)
<1>1. /\ Len(open) \in DOMAIN open /\ Inner = open[Len(open)]
      /\ DOMAIN Front(open) = DOMAIN open \ {Len(open)}
      /\ \A i \in DOMAIN Front(open) : Front(open)[i] = open[i]
  BY FrontFacts
<1>2. DOMAIN open = 1 .. Len(open) /\ Len(open) \in Nat /\ \A i \in DOMAIN open : open[i] \in Nat
  BY DEF Typed
<1>3. \A i \in DOMAIN open : i # Len(open) => open[i] < Inner /\ Enclosed(nodes, Inner, open[i])
  BY <1>1, <1>2 DEF Nested
<1>4. Inner \in Nat
  BY <1>1, <1>2
<1>5. \A i \in DOMAIN open : i # Len(open) => open[i] # Inner
  BY <1>2, <1>3, <1>4
<1>6. Range(open) = {open[i] : i \in DOMAIN open}
      /\ Range(Front(open)) = {Front(open)[i] : i \in DOMAIN Front(open)}
  BY DEF Range
<1>7. Range(Front(open)) = Range(open) \ {Inner}
  BY <1>1, <1>5, <1>6
<1>8. \A m \in Range(open) \ {Inner} : m < Inner /\ Enclosed(nodes, Inner, m)
  BY <1>1, <1>3, <1>6
<1> QED BY <1>1, <1>7, <1>8 DEF Typed
-----------------------------------------------------------------------------
(* The lists, as the rules make them and as ReverseParams leaves them.     *)
Parsed(kind, closed, src, ast) ==
  /\ kind = "headerparams" => ast = Reverse(src)
  /\ kind = "vardecs" /\ ~closed => ast = Reverse(src)
  /\ kind = "vardecs" /\ closed => ast = src
  /\ kind \in {"exprs", "ids"} => ast = FirstThenBack(src)
  /\ kind \notin {"headerparams", "vardecs", "exprs", "ids"} => ast = src
AsParsed(n) == Parsed(nodes[n].kind, Closed(n), nodes[n].src, nodes[n].ast)

AsRepaired(n) ==
  IF nodes[n].kind = "ids" \/ (nodes[n].kind = "exprs" /\ InExprs(n))
  THEN nodes[n].ast = FirstThenBack(nodes[n].src) ELSE nodes[n].ast = nodes[n].src

Lists ==
  /\ ~reversed => \A n \in DOMAIN nodes : AsParsed(n)
  /\ reversed => open = <<>> /\ \A n \in DOMAIN nodes : AsRepaired(n)

(* One more element, whatever the kind of list.                            *)
LEMMA ReducedReversed ==
  ASSUME NEW S, NEW s \in Seq(S), NEW e \in S, NEW kind \in {"headerparams", "vardecs"}
  PROVE  Reduced(kind, Reverse(s), e) = Reverse(Append(s, e))
BY ReverseAppend DEF Reduced

LEMMA ReducedBehindFirst ==
  ASSUME NEW S, NEW s \in Seq(S), NEW e \in S, NEW kind \in {"exprs", "ids"}
  PROVE  Reduced(kind, FirstThenBack(s), e) = FirstThenBack(Append(s, e))
<1>1. CASE s = <<>>
  <2>1. FirstThenBack(s) = <<>> /\ FirstThenBack(Append(s, e)) = <<e>>
    BY <1>1, FirstThenBackAppend DEF FirstThenBack
  <2>2. Reduced(kind, <<>>, e) = <<e>>
    BY DEF Reduced
  <2> QED BY <2>1, <2>2
<1>2. CASE s # <<>>
  <2>1. FirstThenBack(s) # <<>>
    BY <1>2, FirstThenBackFacts
  <2>2. Reduced(kind, FirstThenBack(s), e) =
          <<FirstThenBack(s)[1], e>> \o Tail(FirstThenBack(s))
    BY <2>1 DEF Reduced
  <2> QED BY <1>2, <2>2, FirstThenBackAppend
<1> QED BY <1>1, <1>2

LEMMA InitLists == Init => Lists
<1> SUFFICES ASSUME NEW root \in Roots, nodes = <<Node(root, 0, FALSE)>>, reversed = FALSE
             PROVE  Lists
  BY DEF Init
<1>1. DOMAIN nodes = {1} /\ nodes[1].src = <<>> /\ nodes[1].ast = <<>>
  BY DEF Node
<1>2. Reverse(<<>>) = <<>> /\ FirstThenBack(<<>>) = <<>>
  BY DEF Reverse, FirstThenBack
<1> QED BY <1>1, <1>2 DEF Lists, AsParsed, Parsed

LEMMA ListsGrow ==
  ASSUME Typed, Lists, NEW kind \in Kinds, NEW step \in BOOLEAN, Adds(kind, step),
         open' \in {open, Append(open, Fresh)}
  PROVE  Lists'
<1>1. nodes' = Added(kind, step) /\ open # <<>>
  BY DEF Adds
<1>2. reversed = FALSE /\ reversed' = FALSE
  BY <1>1 DEF Lists, Adds, Typed
<1>3. /\ Inner \in DOMAIN nodes /\ Fresh = Len(nodes) + 1 /\ Fresh \notin DOMAIN nodes
      /\ DOMAIN nodes' = DOMAIN nodes \cup {Fresh}
      /\ \A n \in DOMAIN nodes :
           /\ nodes'[n].kind = nodes[n].kind
           /\ n # Inner => nodes'[n].src = nodes[n].src /\ nodes'[n].ast = nodes[n].ast
      /\ nodes'[Inner].src = Append(nodes[Inner].src, Fresh)
      /\ nodes'[Inner].ast = Reduced(nodes[Inner].kind, nodes[Inner].ast, Fresh)
      /\ nodes'[Fresh] = Node(kind, Inner, step)
  BY <1>1, AddedFacts
<1>4. \A n \in DOMAIN nodes : n \in Range(open') <=> n \in Range(open)
  <2>1. Range(Append(open, Fresh)) = Range(open) \cup {Fresh}
    BY <1>1, RangeOpen
  <2>2. Range(open') \in {Range(open), Range(open) \cup {Fresh}}
    BY <2>1
  <2> HIDE DEF Fresh
  <2> QED BY <1>3, <2>2
<1>5. Inner \in Range(open)
  BY <1>1, RangeOpen
<1> DEFINE Right(n) == Parsed(nodes'[n].kind, n \notin Range(open'), nodes'[n].src, nodes'[n].ast)
<1>6. ASSUME NEW n \in DOMAIN nodes, n # Inner
      PROVE  Right(n)
  <2>1. AsParsed(n)
    BY <1>2 DEF Lists
  <2>2. /\ nodes'[n].kind = nodes[n].kind /\ nodes'[n].src = nodes[n].src
        /\ nodes'[n].ast = nodes[n].ast /\ (n \in Range(open') <=> n \in Range(open))
    BY <1>3, <1>4, <1>6
  <2> QED BY <2>1, <2>2 DEF AsParsed, Closed, Parsed
<1>7. Right(Fresh)
  <2>1. nodes'[Fresh].ast = <<>> /\ nodes'[Fresh].src = <<>>
    BY <1>3 DEF Node
  <2>2. Reverse(<<>>) = <<>> /\ FirstThenBack(<<>>) = <<>>
    BY DEF Reverse, FirstThenBack
  <2> QED BY <2>1, <2>2 DEF Parsed
<1>8. Right(Inner)
  <2>1. AsParsed(Inner)
    BY <1>2, <1>3 DEF Lists
  <2>2. nodes[Inner].src \in Seq(Nat) /\ Fresh \in Nat
    <3>1. nodes[Inner] \in NodeType /\ Len(nodes) \in Nat
      BY <1>3 DEF Typed
    <3> QED BY <1>3, <3>1 DEF NodeType
  <2> DEFINE k == nodes[Inner].kind
             s == nodes[Inner].src
             e == Fresh
  <2>3. /\ k \in {"headerparams", "vardecs"} =>
              Reduced(k, Reverse(s), e) = Reverse(Append(s, e))
        /\ k \in {"exprs", "ids"} =>
              Reduced(k, FirstThenBack(s), e) = FirstThenBack(Append(s, e))
        /\ k \notin {"headerparams", "vardecs", "exprs", "ids"} =>
              Reduced(k, s, e) = Append(s, e)
    <3>1. s \in Seq(Nat) /\ e \in Nat
      BY <2>2
    <3> HIDE DEF k, s, e
    <3>2. ASSUME k \in {"headerparams", "vardecs"}
          PROVE  Reduced(k, Reverse(s), e) = Reverse(Append(s, e))
      BY <3>1, <3>2, ReducedReversed
    <3>3. ASSUME k \in {"exprs", "ids"}
          PROVE  Reduced(k, FirstThenBack(s), e) = FirstThenBack(Append(s, e))
      BY <3>1, <3>3, ReducedBehindFirst
    <3>4. ASSUME k \notin {"headerparams", "vardecs", "exprs", "ids"}
          PROVE  Reduced(k, s, e) = Append(s, e)
      BY <3>4 DEF Reduced
    <3> QED BY <3>2, <3>3, <3>4
  <2> DEFINE a == nodes[Inner].ast
  <2>4. Parsed(k, FALSE, s, a)
    BY <1>5, <2>1 DEF AsParsed, Closed, Parsed
  <2>5. /\ nodes'[Inner].kind = k /\ nodes'[Inner].src = Append(s, e)
        /\ nodes'[Inner].ast = Reduced(k, a, e) /\ Inner \in Range(open')
    BY <1>3, <1>4, <1>5
  <2> HIDE DEF k, s, e, a
  <2> DEFINE t == Append(s, e)
             b == Reduced(k, a, e)
  <2>6. /\ k \in {"headerparams", "vardecs"} => b = Reverse(t)
        /\ k \in {"exprs", "ids"} => b = FirstThenBack(t)
        /\ k \notin {"headerparams", "vardecs", "exprs", "ids"} => b = t
    <3>1. k \in {"headerparams", "vardecs"} => a = Reverse(s)
      BY <2>4 DEF Parsed
    <3>2. k \in {"exprs", "ids"} => a = FirstThenBack(s)
      BY <2>4 DEF Parsed
    <3>3. k \notin {"headerparams", "vardecs", "exprs", "ids"} => a = s
      BY <2>4 DEF Parsed
    <3>4. k \in {"headerparams", "vardecs"} => b = Reverse(t)
      BY <2>3, <3>1
    <3>5. k \in {"exprs", "ids"} => b = FirstThenBack(t)
      BY <2>3, <3>2
    <3>6. k \notin {"headerparams", "vardecs", "exprs", "ids"} => b = t
      BY <2>3, <3>3
    <3> QED BY <3>4, <3>5, <3>6
  <2>7. /\ nodes'[Inner].kind = k /\ nodes'[Inner].src = t /\ nodes'[Inner].ast = b
        /\ (Inner \notin Range(open')) = FALSE
    BY <2>5
  <2> HIDE DEF t, b
  <2> QED BY <2>6, <2>7 DEF Parsed
<1>9. \A n \in DOMAIN nodes' : Right(n)
  BY <1>3, <1>6, <1>7, <1>8
<1> QED BY <1>2, <1>9 DEF Lists, AsParsed, Closed, Parsed

LEMMA ListsClose ==
  ASSUME Typed, Nested, Lists, forloop \/ CloseList
  PROVE  Lists'
<1>1. /\ open # <<>> /\ Inner \in DOMAIN nodes
      /\ DOMAIN nodes' = DOMAIN nodes /\ open' = Front(open) /\ reversed' = reversed
      /\ \A n \in DOMAIN nodes :
           /\ nodes'[n].kind = nodes[n].kind /\ nodes'[n].src = nodes[n].src
           /\ nodes'[n].ast = IF n = Inner /\ nodes[n].kind = "vardecs"
                              THEN Reverse(nodes[n].ast) ELSE nodes[n].ast
  <2>1. CASE forloop
    BY <2>1, ForloopFacts
  <2>2. CASE CloseList
    BY <2>2, CloseListFacts
  <2> QED BY <2>1, <2>2
<1>2. reversed = FALSE /\ reversed' = FALSE
  BY <1>1 DEF Lists, Typed
<1>3. Range(open') = Range(open) \ {Inner} /\ Inner \in Range(open)
  <2>1. Range(Front(open)) = Range(open) \ {Inner}
    BY <1>1, InnerIsLast
  <2>2. Inner \in Range(open)
    BY <1>1, RangeOpen
  <2> QED BY <1>1, <2>1, <2>2
<1>4. ASSUME NEW n \in DOMAIN nodes
      PROVE  Parsed(nodes'[n].kind, n \notin Range(open'), nodes'[n].src, nodes'[n].ast)
  <2>1. AsParsed(n)
    BY <1>2 DEF Lists
  <2>2. CASE n = Inner /\ nodes[n].kind = "vardecs"
    <3>1. nodes[n].src \in Seq(Nat)
      <4>1. nodes[n] \in NodeType
        BY DEF Typed
      <4> QED BY <4>1 DEF NodeType
    <3>2. nodes[n].ast = Reverse(nodes[n].src)
      BY <1>3, <2>1, <2>2 DEF AsParsed, Closed, Parsed
    <3>3. nodes'[n].ast = nodes[n].src
      BY <1>1, <2>2, <3>1, <3>2, ReverseFacts
    <3>4. nodes'[n].kind = "vardecs" /\ nodes'[n].src = nodes[n].src /\ n \notin Range(open')
      BY <1>1, <1>3, <2>2
    <3> QED BY <3>3, <3>4 DEF Parsed
  <2>3. CASE ~ (n = Inner /\ nodes[n].kind = "vardecs")
    <3>1. nodes'[n].ast = nodes[n].ast /\ nodes'[n].kind = nodes[n].kind /\ nodes'[n].src = nodes[n].src
      BY <1>1, <2>3
    <3>2. nodes[n].kind = "vardecs" => (n \in Range(open') <=> n \in Range(open))
      BY <1>3, <2>3
    <3> QED BY <2>1, <3>1, <3>2 DEF AsParsed, Closed, Parsed
  <2> QED BY <2>2, <2>3
<1> QED BY <1>1, <1>2, <1>4 DEF Lists, AsParsed, Closed, Parsed

InList(tree, n) == \E m \in DOMAIN tree : tree[m].kind = "exprs" /\ tree[n].in = m

LEMMA ListsRepaired ==
  ASSUME Typed, Lists, ReverseParams
  PROVE  Lists'
<1>1. /\ open = <<>> /\ reversed = FALSE /\ reversed' = TRUE /\ open' = <<>>
      /\ DOMAIN nodes' = DOMAIN nodes
      /\ \A n \in DOMAIN nodes :
           /\ nodes'[n].kind = nodes[n].kind /\ nodes'[n].in = nodes[n].in
           /\ nodes'[n].src = nodes[n].src /\ nodes'[n].ast = Repaired(n)
  BY ReverseParamsFacts
<1>2. \A n \in DOMAIN nodes :
        InExprs(n) <=> InList(nodes', n)
  BY <1>1 DEF InExprs, InList
<1>3. ASSUME NEW n \in DOMAIN nodes
      PROVE  IF nodes[n].kind = "ids" \/ (nodes[n].kind = "exprs" /\ InExprs(n))
             THEN Repaired(n) = FirstThenBack(nodes[n].src) ELSE Repaired(n) = nodes[n].src
  <2> DEFINE s == nodes[n].src
  <2>1. s \in Seq(Nat)
    <3>1. nodes[n] \in NodeType
      BY DEF Typed
    <3> QED BY <3>1 DEF NodeType
  <2>2. /\ nodes[n].kind = "headerparams" => nodes[n].ast = Reverse(s)
        /\ nodes[n].kind \in {"exprs", "ids"} => nodes[n].ast = FirstThenBack(s)
        /\ nodes[n].kind \notin {"headerparams", "exprs", "ids"} => nodes[n].ast = s
    <3>1. AsParsed(n)
      BY <1>1 DEF Lists
    <3>2. Closed(n)
      BY <1>1 DEF Closed, Range
    <3> QED BY <3>1, <3>2 DEF AsParsed, Parsed
  <2>3. CASE nodes[n].kind = "headerparams"
    <3>1. Repaired(n) = Reverse(nodes[n].ast)
      BY <2>3 DEF Repaired
    <3>2. nodes[n].ast = Reverse(s)
      BY <2>2, <2>3
    <3> QED BY <2>1, <2>3, <3>1, <3>2, ReverseFacts
  <2>4. CASE nodes[n].kind = "exprs" /\ ~InExprs(n)
    <3>1. s # <<>>
      BY <1>1, <2>4 DEF Typed, Closed, Range
    <3> DEFINE f == FirstThenBack(s)
    <3>2. nodes[n].ast = f
      BY <2>2, <2>4
    <3>3. f[1] = s[1] /\ Tail(f) = Reverse(Tail(s)) /\ f # <<>> /\ f \in Seq(Nat)
      BY <2>1, <3>1, FirstThenBackFacts
    <3>4. Repaired(n) = <<f[1]>> \o Reverse(Tail(f))
      BY <2>4, <3>2 DEF Repaired
    <3>5. Tail(s) \in Seq(Nat) /\ Reverse(Reverse(Tail(s))) = Tail(s)
      BY <2>1, <3>1, ReverseFacts, HeadTailProperties
    <3>6. <<s[1]>> \o Tail(s) = s
      <4> HIDE DEF s
      <4>1. s[1] = Head(s) /\ s[1] \in Nat
        BY <2>1, <3>1, HeadTailProperties
      <4>2. <<s[1]>> \in Seq(Nat) /\ Len(<<s[1]>>) = 1 /\ <<s[1]>>[1] = s[1]
        BY <4>1
      <4> DEFINE t == <<s[1]>> \o Tail(s)
      <4>3. /\ t \in Seq(Nat) /\ Len(t) = 1 + Len(Tail(s))
            /\ \A i \in 1 .. 1 + Len(Tail(s)) : t[i] = IF i <= 1 THEN <<s[1]>>[i] ELSE Tail(s)[i - 1]
        BY <3>5, <4>2, ConcatProperties
      <4> HIDE DEF t
      <4>4. /\ Len(Tail(s)) = Len(s) - 1 /\ Len(s) \in Nat \ {0}
            /\ \A i \in 1 .. Len(Tail(s)) : Tail(s)[i] = s[i + 1]
        BY <2>1, <3>1, HeadTailProperties, EmptySeq
      <4>5. \A i \in 1 .. Len(s) : t[i] = s[i]
        <5> TAKE i \in 1 .. Len(s)
        <5>1. CASE i = 1
          BY <4>2, <4>3, <4>4, <5>1
        <5>2. CASE i # 1
          <6>1. i - 1 \in 1 .. Len(Tail(s)) /\ i \in 1 .. 1 + Len(Tail(s)) /\ ~ (i <= 1) /\ (i - 1) + 1 = i
            BY <4>4, <5>2
          <6> QED BY <4>3, <4>4, <6>1
        <5> QED BY <5>1, <5>2
      <4>6. Len(t) = Len(s)
        BY <4>3, <4>4
      <4> QED BY <2>1, <4>3, <4>5, <4>6, SeqEqual DEF t
    <3> HIDE DEF f, s
    <3>7. Repaired(n) = s
      BY <3>3, <3>4, <3>5, <3>6
    <3> QED BY <2>4, <3>7 DEF s
  <2>5. CASE nodes[n].kind # "headerparams" /\ ~ (nodes[n].kind = "exprs" /\ ~InExprs(n))
    <3>1. Repaired(n) = nodes[n].ast
      BY <2>5 DEF Repaired
    <3>2. CASE nodes[n].kind \in {"exprs", "ids"}
      BY <2>2, <2>5, <3>1, <3>2
    <3>3. CASE nodes[n].kind \notin {"exprs", "ids"}
      BY <2>2, <2>5, <3>1, <3>3
    <3> QED BY <3>2, <3>3
  <2> QED BY <2>3, <2>4, <2>5
<1>4. \A n \in DOMAIN nodes :
        IF \/ nodes'[n].kind = "ids"
           \/ (nodes'[n].kind = "exprs" /\ InList(nodes', n))
        THEN nodes'[n].ast = FirstThenBack(nodes'[n].src) ELSE nodes'[n].ast = nodes'[n].src
  <2> TAKE n \in DOMAIN nodes
  <2>1. /\ nodes'[n].kind = nodes[n].kind /\ nodes'[n].src = nodes[n].src
        /\ nodes'[n].ast = Repaired(n)
    BY <1>1
  <2> QED BY <1>2, <1>3, <2>1
<1> QED BY <1>1, <1>4 DEF Lists, AsRepaired, InExprs, InList

LEMMA ListsStep == Typed /\ Nested /\ Lists /\ [Next]_vars => Lists'
<1> SUFFICES ASSUME Typed, Nested, Lists, [Next]_vars PROVE Lists'
  OBVIOUS
<1>1. {"leaf", "ids", "exprs", "arrayexprs", "for"} \subseteq Kinds
  BY DEF Kinds
<1>2. CASE UNCHANGED vars
  BY <1>2 DEF vars, Lists, AsParsed, Parsed, AsRepaired, InExprs, Closed
<1> QED BY <1>1, <1>2, ListsGrow, ListsClose, ListsRepaired, StepKinds

LEMMA AlwaysLists == Spec => [](Typed /\ Nested /\ Lists)
BY InitTyped, InitNested, InitLists, TypedStep, NestedStep, ListsStep, PTL DEF Spec

(* For parts of programs of any size: every list in the tree has just the  *)
(* elements that the text has, and arguments and indices begin with their  *)
(* first.                                                                  *)
THEOREM ElementsAreKept == Spec => []NoElementLost
<1>1. Typed /\ Lists => NoElementLost
  <2> SUFFICES ASSUME Typed, Lists, NEW n \in DOMAIN nodes
               PROVE  /\ Len(nodes[n].ast) = Len(nodes[n].src)
                      /\ Range(nodes[n].ast) = Range(nodes[n].src)
                      /\ nodes[n].kind \in {"exprs", "ids"} /\ nodes[n].src # <<>>
                           => nodes[n].ast[1] = nodes[n].src[1]
    BY DEF NoElementLost
  <2> DEFINE s == nodes[n].src
  <2>1. s \in Seq(Nat)
    <3>1. nodes[n] \in NodeType
      BY DEF Typed
    <3> QED BY <3>1 DEF NodeType
  <2>2. /\ nodes[n].ast \in {s, Reverse(s), FirstThenBack(s)}
        /\ nodes[n].kind \in {"exprs", "ids"} => nodes[n].ast \in {s, FirstThenBack(s)}
    <3>1. CASE reversed
      BY <3>1 DEF Lists, AsRepaired
    <3>2. CASE ~reversed
      BY <3>2 DEF Lists, AsParsed, Parsed
    <3> QED BY <3>1, <3>2
  <2>3. Len(Reverse(s)) = Len(s) /\ Len(FirstThenBack(s)) = Len(s)
    BY <2>1, ReverseFacts, FirstThenBackRange
  <2>4. Range(Reverse(s)) = Range(s) /\ Range(FirstThenBack(s)) = Range(s)
    BY <2>1, ReverseRange, FirstThenBackRange
  <2>5. s # <<>> => FirstThenBack(s)[1] = s[1]
    BY <2>1, FirstThenBackFacts
  <2> HIDE DEF s
  <2>6. Len(nodes[n].ast) = Len(s) /\ Range(nodes[n].ast) = Range(s)
    BY <2>2, <2>3, <2>4
  <2>7. nodes[n].kind \in {"exprs", "ids"} /\ s # <<>> => nodes[n].ast[1] = s[1]
    BY <2>2, <2>5
  <2> QED BY <2>6, <2>7 DEF s
<1> QED BY <1>1, AlwaysLists, PTL

(* For parts of programs of any size: ReverseParams leaves all lists in    *)
(* the order of the text but those of three and more that it is known to   *)
(* miss.                                                                   *)
THEOREM ListsAreInOrder == Spec => []ListsInOrder
<1>1. Typed /\ Lists => ListsInOrder
  <2> SUFFICES ASSUME Typed, Lists, reversed, NEW n \in DOMAIN nodes, nodes[n].ast # nodes[n].src
               PROVE  \/ nodes[n].kind = "ids" /\ Len(nodes[n].src) > 2
                      \/ nodes[n].kind = "exprs" /\ InExprs(n) /\ Len(nodes[n].src) > 2
    BY DEF ListsInOrder
  <2>1. nodes[n].src \in Seq(Nat)
    <3>1. nodes[n] \in NodeType
      BY DEF Typed
    <3> QED BY <3>1 DEF NodeType
  <2>2. /\ nodes[n].ast = FirstThenBack(nodes[n].src)
        /\ nodes[n].kind = "ids" \/ (nodes[n].kind = "exprs" /\ InExprs(n))
    BY DEF Lists, AsRepaired
  <2>3. Len(nodes[n].src) \in Nat /\ ~ (Len(nodes[n].src) <= 2)
    BY <2>1, <2>2, ShortFirstThenBack
  <2> QED BY <2>2, <2>3
<1> QED BY <1>1, AlwaysLists, PTL
-----------------------------------------------------------------------------
(* The step that waits is that of the last open loop that has one, or it   *)
(* is gone: then something closed in each open loop with a step took it.   *)
Waiting ==
  /\ current_forloop_inc_expr # 0 =>
       /\ current_forloop_inc_expr \in Range(open)
       /\ nodes[current_forloop_inc_expr].kind = "for"
       /\ nodes[current_forloop_inc_expr].step
  /\ \A n \in Range(open) : nodes[n].kind = "for" /\ nodes[n].step =>
       \/ current_forloop_inc_expr >= n
       \/ /\ current_forloop_inc_expr = 0
          /\ \E m \in ForLoops : Enclosed(nodes, m, n)

(* No step is taken twice, or taken and waiting.                           *)
Taken ==
  /\ \A n \in ForLoops : /\ nodes[n].inc \in {0} \cup DOMAIN nodes
                         /\ nodes[n].inc # 0 => nodes[n].inc # current_forloop_inc_expr
  /\ \A m, n \in ForLoops : nodes[m].inc # 0 /\ nodes[m].inc = nodes[n].inc => m = n

(* Each closed loop has its own step, or that of a loop around, or lost    *)
(* its own to one within.                                                  *)
Settled ==
  \A n \in ForLoops :
    \/ nodes[n].inc = IF nodes[n].step THEN n ELSE 0
    \/ nodes[n].step /\ nodes[n].inc = 0 /\ \E m \in ForLoops : Enclosed(nodes, m, n)
    \/ ~nodes[n].step /\ Enclosed(nodes, n, nodes[n].inc)

Loops == Waiting /\ Taken /\ Settled

LEMMA InitLoops == Init => Loops
<1> SUFFICES ASSUME NEW root \in Roots, nodes = <<Node(root, 0, FALSE)>>, open = << 1 >>,
                    current_forloop_inc_expr = 0
             PROVE  Loops
  BY DEF Init
<1>1. DOMAIN nodes = {1} /\ nodes[1].kind = root
  BY DEF Node
<1>2. root # "for"
  BY ParsingAssumption
<1>3. ForLoops = {}
  BY <1>1, <1>2 DEF ForLoops
<1>4. Range(open) = {1}
  <2>1. DOMAIN open = {1} /\ open[1] = 1
    OBVIOUS
  <2> QED BY <2>1 DEF Range
<1> QED BY <1>1, <1>2, <1>3, <1>4 DEF Loops, Waiting, Taken, Settled

(* The loops that are closed and the loops that are open, by their fields. *)
LEMMA LoopsGrow ==
  ASSUME Typed, Loops, NEW kind \in Kinds, NEW step \in BOOLEAN, Adds(kind, step),
         \/ UNCHANGED <<open, current_forloop_inc_expr>> /\ kind # "for"
         \/ /\ open' = Append(open, Fresh)
            /\ current_forloop_inc_expr' = IF kind = "for" /\ step THEN Fresh
                                           ELSE current_forloop_inc_expr
  PROVE  Loops'
<1>1. nodes' = Added(kind, step) /\ open # <<>>
  BY DEF Adds
<1>2. /\ Inner \in DOMAIN nodes /\ Fresh = Len(nodes) + 1 /\ Fresh \notin DOMAIN nodes
      /\ DOMAIN nodes' = DOMAIN nodes \cup {Fresh}
      /\ \A n \in DOMAIN nodes :
           /\ nodes'[n].kind = nodes[n].kind /\ nodes'[n].in = nodes[n].in
           /\ nodes'[n].step = nodes[n].step /\ nodes'[n].inc = nodes[n].inc
      /\ nodes'[Fresh] = Node(kind, Inner, step)
  BY <1>1, AddedFacts
<1>3. /\ DOMAIN nodes = 1 .. Len(nodes) /\ Len(nodes) \in Nat
      /\ current_forloop_inc_expr \in Nat
  BY DEF Typed
<1>4. nodes'[Fresh].kind = kind /\ nodes'[Fresh].step = step
  BY <1>2 DEF Node
<1>5. /\ Range(Append(open, Fresh)) = Range(open) \cup {Fresh}
      /\ Range(open) \subseteq DOMAIN nodes
  BY <1>1, RangeOpen
<1>6. ForLoops' = ForLoops
  <2>1. \A n \in DOMAIN nodes : n \in Range(open') <=> n \in Range(open)
    BY <1>2, <1>5
  <2>2. Fresh \notin Range(open') => nodes'[Fresh].kind # "for"
    BY <1>4, <1>5
  <2> HIDE DEF Fresh
  <2> QED BY <1>2, <2>1, <2>2 DEF ForLoops, Closed
<1>7. \A n \in DOMAIN nodes : \A m : Enclosed(nodes, n, m) => Enclosed(nodes', n, m)
  BY <1>2, EnclosedStays
<1>8. ForLoops \subseteq DOMAIN nodes
  BY DEF ForLoops
<1>9. \/ current_forloop_inc_expr' = current_forloop_inc_expr
      \/ current_forloop_inc_expr' = Fresh /\ kind = "for" /\ step /\ Fresh \in Range(open')
  <2>1. Fresh \in Range(Append(open, Fresh))
    BY <1>5
  <2> QED BY <2>1
<1>10. Range(open) \subseteq Range(open') /\ Range(open') \subseteq Range(open) \cup {Fresh}
  BY <1>5
<1>11. Waiting'
  <2>1. ASSUME current_forloop_inc_expr' # 0
        PROVE  /\ current_forloop_inc_expr' \in Range(open')
               /\ nodes'[current_forloop_inc_expr'].kind = "for"
               /\ nodes'[current_forloop_inc_expr'].step
    <3>1. CASE current_forloop_inc_expr' = current_forloop_inc_expr
      BY <1>2, <1>5, <1>10, <2>1, <3>1 DEF Loops, Waiting
    <3>2. CASE current_forloop_inc_expr' = Fresh /\ kind = "for" /\ step /\ Fresh \in Range(open')
      BY <1>4, <3>2
    <3> QED BY <1>9, <3>1, <3>2
  <2>2. ASSUME NEW n \in Range(open'), nodes'[n].kind = "for", nodes'[n].step
        PROVE  \/ current_forloop_inc_expr' >= n
               \/ /\ current_forloop_inc_expr' = 0
                  /\ \E m \in ForLoops : Enclosed(nodes', m, n)
    <3>1. CASE n \in Range(open) /\ current_forloop_inc_expr' = current_forloop_inc_expr
      <4>1. nodes[n].kind = "for" /\ nodes[n].step
        BY <1>2, <1>5, <2>2, <3>1
      <4> QED BY <1>7, <1>8, <3>1, <4>1 DEF Loops, Waiting
    <3>2. CASE n \in Range(open) /\ current_forloop_inc_expr' = Fresh
      <4>1. n \in 1 .. Len(nodes)
        BY <1>3, <1>5, <3>2
      <4> QED BY <1>2, <1>3, <3>2, <4>1
    <3>3. CASE n = Fresh
      <4>1. kind = "for" /\ step
        BY <1>4, <2>2, <3>3
      <4>2. current_forloop_inc_expr' = Fresh
        <5>1. Fresh \notin Range(open)
          BY <1>2, <1>5
        <5> QED BY <2>2, <3>3, <4>1, <5>1
      <4> QED BY <1>2, <1>3, <3>3, <4>2
    <3> QED BY <1>9, <1>10, <3>1, <3>2, <3>3
  <2> QED BY <1>6, <2>1, <2>2 DEF Waiting
<1>12. Taken'
  <2>1. \A n \in ForLoops : /\ nodes'[n].inc = nodes[n].inc
                            /\ nodes[n].inc # Fresh \/ nodes[n].inc = 0
                            /\ nodes'[n].inc \in {0} \cup DOMAIN nodes
    BY <1>2, <1>8 DEF Loops, Taken
  <2> QED BY <1>2, <1>6, <1>8, <1>9, <2>1 DEF Loops, Taken
<1>13. Settled'
  <2> SUFFICES ASSUME NEW n \in ForLoops
               PROVE  \/ nodes'[n].inc = IF nodes'[n].step THEN n ELSE 0
                      \/ nodes'[n].step /\ nodes'[n].inc = 0 /\ \E m \in ForLoops : Enclosed(nodes', m, n)
                      \/ ~nodes'[n].step /\ Enclosed(nodes', n, nodes'[n].inc)
    BY <1>6 DEF Settled
  <2>1. nodes'[n].inc = nodes[n].inc /\ nodes'[n].step = nodes[n].step
    BY <1>2, <1>8
  <2> QED BY <1>7, <1>8, <2>1 DEF Loops, Settled
<1> QED BY <1>11, <1>12, <1>13 DEF Loops

(* The innermost loop ends and takes the step that waits.                  *)
LEMMA LoopsTake ==
  ASSUME Typed, Nested, Loops, forloop
  PROVE  Loops'
<1> DEFINE inc == current_forloop_inc_expr
<1>1. /\ open # <<>> /\ Inner \in DOMAIN nodes /\ nodes[Inner].kind = "for"
      /\ DOMAIN nodes' = DOMAIN nodes
      /\ \A n \in DOMAIN nodes :
           /\ nodes'[n].kind = nodes[n].kind /\ nodes'[n].in = nodes[n].in
           /\ nodes'[n].step = nodes[n].step
           /\ nodes'[n].inc = IF n = Inner THEN inc ELSE nodes[n].inc
      /\ current_forloop_inc_expr' = 0 /\ open' = Front(open)
  BY ForloopFacts
<1>2. PICK last : last = Inner
  OBVIOUS
<1>3. /\ Range(open') = Range(open) \ {last}
      /\ \A m \in Range(open) \ {last} : m < last /\ Enclosed(nodes, last, m)
  BY <1>1, <1>2, InnerIsLast
<1>4. last \in Range(open) /\ Range(open) \subseteq DOMAIN nodes
  BY <1>1, <1>2, RangeOpen
<1>5. ForLoops' = ForLoops \cup {last} /\ last \notin ForLoops /\ ForLoops \subseteq DOMAIN nodes
  BY <1>1, <1>2, <1>3, <1>4 DEF ForLoops, Closed
<1>6. \A n \in DOMAIN nodes : \A m : Enclosed(nodes, n, m) => Enclosed(nodes', n, m)
  BY <1>1, EnclosedStays
<1>7. \A n \in DOMAIN nodes : n \in Nat
  BY DEF Typed
<1>8. \A n \in ForLoops : nodes'[n].inc = nodes[n].inc /\ nodes'[n].step = nodes[n].step
  BY <1>1, <1>2, <1>5
<1>9. nodes'[last].inc = inc /\ nodes'[last].step = nodes[last].step /\ nodes[last].kind = "for"
  BY <1>1, <1>2
<1>10. inc \in Nat /\ (inc # 0 => inc \in Range(open) /\ nodes[inc].step)
  BY DEF Typed, Loops, Waiting
<1>11. Waiting'
  <2>1. ASSUME NEW n \in Range(open')
        PROVE  Enclosed(nodes', last, n)
    BY <1>3, <1>4, <1>6
  <2> QED BY <1>1, <1>5, <2>1 DEF Waiting
<1>12. Taken'
  <2>1. /\ nodes'[last].inc \in {0} \cup DOMAIN nodes
        /\ \A n \in ForLoops : nodes[n].inc # 0 => nodes[n].inc # nodes'[last].inc
    BY <1>4, <1>9, <1>10 DEF Loops, Taken
  <2>2. \A n \in ForLoops' : nodes'[n].inc \in {0} \cup DOMAIN nodes'
    BY <1>1, <1>5, <1>8, <2>1 DEF Loops, Taken
  <2>3. \A m, n \in ForLoops' : nodes'[m].inc # 0 /\ nodes'[m].inc = nodes'[n].inc => m = n
    BY <1>5, <1>8, <2>1 DEF Loops, Taken
  <2> QED BY <1>1, <2>2, <2>3 DEF Taken
<1>13. ASSUME NEW n \in ForLoops'
       PROVE  \/ nodes'[n].inc = IF nodes'[n].step THEN n ELSE 0
              \/ nodes'[n].step /\ nodes'[n].inc = 0 /\ \E m \in ForLoops' : Enclosed(nodes', m, n)
              \/ ~nodes'[n].step /\ Enclosed(nodes', n, nodes'[n].inc)
  <2>1. CASE n \in ForLoops
    BY <1>5, <1>6, <1>8, <2>1 DEF Loops, Settled
  <2>2. CASE n = last
    <3>1. CASE inc = 0 /\ ~nodes[last].step
      BY <1>9, <2>2, <3>1
    <3>2. CASE inc = 0 /\ nodes[last].step
      <4>1. last > 0
        <5>1. Len(nodes) \in Nat /\ DOMAIN nodes = 1 .. Len(nodes)
          BY DEF Typed
        <5> QED BY <1>4, <5>1
      <4>2. \E m \in ForLoops : Enclosed(nodes, m, last)
        <5>1. ~ (inc >= last)
          BY <1>4, <1>7, <3>2, <4>1
        <5> QED BY <1>4, <1>9, <3>2, <5>1 DEF Loops, Waiting
      <4> QED BY <1>5, <1>6, <1>9, <2>2, <3>2, <4>2
    <3>3. CASE inc = last
      BY <1>9, <1>10, <1>4, <1>7, <2>2, <3>3
    <3>4. CASE inc # 0 /\ inc # last
      <4>1. inc < last /\ Enclosed(nodes, last, inc)
        BY <1>3, <1>10, <3>4
      <4>2. ~nodes[last].step
        <5>1. ~ (inc >= last)
          BY <1>4, <1>7, <1>10, <4>1
        <5> QED BY <1>4, <1>9, <3>4, <5>1 DEF Loops, Waiting
      <4> QED BY <1>4, <1>6, <1>9, <2>2, <4>1, <4>2
    <3> QED BY <3>1, <3>2, <3>3, <3>4
  <2> QED BY <1>5, <2>1, <2>2
<1>14. Settled'
  BY <1>13 DEF Settled
<1> QED BY <1>11, <1>12, <1>14 DEF Loops

(* A list that ends is no loop, and ReverseParams moves no step.           *)
LEMMA LoopsStay ==
  ASSUME Typed, Nested, Loops,
         DOMAIN nodes' = DOMAIN nodes,
         \A n \in DOMAIN nodes :
           /\ nodes'[n].kind = nodes[n].kind /\ nodes'[n].in = nodes[n].in
           /\ nodes'[n].step = nodes[n].step /\ nodes'[n].inc = nodes[n].inc,
         current_forloop_inc_expr' = current_forloop_inc_expr,
         \/ open' = open
         \/ open # <<>> /\ nodes[Inner].kind # "for" /\ open' = Front(open)
  PROVE  Loops'
<1>1. Range(open) \subseteq DOMAIN nodes
  BY DEF Range, Typed
<1>2. /\ Range(open') \subseteq Range(open)
      /\ \A n \in Range(open) : nodes[n].kind = "for" => n \in Range(open')
  <2>1. CASE open' = open
    BY <2>1
  <2>2. CASE open # <<>> /\ nodes[Inner].kind # "for" /\ open' = Front(open)
    BY <2>2, InnerIsLast
  <2> QED BY <2>1, <2>2
<1>3. ForLoops' = ForLoops /\ ForLoops \subseteq DOMAIN nodes
  BY <1>2 DEF ForLoops, Closed
<1>4. \A n \in DOMAIN nodes : \A m : Enclosed(nodes, n, m) => Enclosed(nodes', n, m)
  BY EnclosedStays
<1>5. Waiting'
  BY <1>1, <1>2, <1>3, <1>4 DEF Loops, Waiting
<1>6. Taken'
  BY <1>3 DEF Loops, Taken
<1>7. Settled'
  <2> SUFFICES ASSUME NEW n \in ForLoops
               PROVE  \/ nodes'[n].inc = IF nodes'[n].step THEN n ELSE 0
                      \/ nodes'[n].step /\ nodes'[n].inc = 0 /\ \E m \in ForLoops : Enclosed(nodes', m, n)
                      \/ ~nodes'[n].step /\ Enclosed(nodes', n, nodes'[n].inc)
    BY <1>3 DEF Settled
  <2> QED BY <1>3, <1>4 DEF Loops, Settled
<1> QED BY <1>5, <1>6, <1>7 DEF Loops

LEMMA LoopsStep == Typed /\ Nested /\ Loops /\ [Next]_vars => Loops'
<1> SUFFICES ASSUME Typed, Nested, Loops, [Next]_vars PROVE Loops'
  OBVIOUS
<1>1. {"leaf", "ids", "exprs", "arrayexprs", "for"} \subseteq Kinds
  BY DEF Kinds
<1>2. CASE UNCHANGED vars
  BY <1>2, LoopsStay DEF vars
<1>3. CASE Adds("leaf", FALSE) /\ UNCHANGED <<open, current_forloop_inc_expr>>
  BY <1>1, <1>3, LoopsGrow
<1>4. ASSUME NEW kind \in {"ids", "exprs", "arrayexprs"}, Adds(kind, FALSE),
             open' = Append(open, Fresh), UNCHANGED current_forloop_inc_expr
      PROVE  Loops'
  BY <1>1, <1>4, LoopsGrow
<1>5. ASSUME NEW step \in BOOLEAN, Adds("for", step), open' = Append(open, Fresh),
             current_forloop_inc_expr' = IF step THEN Fresh ELSE current_forloop_inc_expr
      PROVE  Loops'
  BY <1>1, <1>5, LoopsGrow
<1>6. CASE forloop
  BY <1>6, LoopsTake
<1>7. CASE CloseList
  BY <1>7, CloseListFacts, LoopsStay
<1>8. CASE ReverseParams
  BY <1>8, ReverseParamsFacts, LoopsStay
<1> QED BY <1>2, <1>3, <1>4, <1>5, <1>6, <1>7, <1>8, StepKinds

LEMMA AlwaysLoops == Spec => [](Typed /\ Nested /\ Loops)
BY InitTyped, InitNested, InitLoops, TypedStep, NestedStep, LoopsStep, PTL DEF Spec

(* For parts of programs of any size and nesting: no step is in the tree   *)
(* twice, and a loop has its own, or none, or, having none, that of a loop *)
(* around it, which is then without.                                       *)
THEOREM StepsStayWithTheirLoop == Spec => []StepsOfTheirLoop
<1>1. Typed /\ Nested /\ Loops => StepsOfTheirLoop
  <2>1. \A n, m : Within(n, m) <=> Enclosed(nodes, n, m)
    BY DEF Within, Enclosed
  <2> QED BY <2>1 DEF Loops, Taken, Settled, StepsOfTheirLoop
<1> QED BY <1>1, AlwaysLoops, PTL
=============================================================================
